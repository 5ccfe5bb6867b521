------------------------------- MODULE SdCard -------------------------------
(***************************************************************************)
(* The SD card of a SummerCart64: a folder of the host shown as a FAT32    *)
(* volume that is computed sector by sector (core/sdcard.hpp), and the     *)
(* registers through which a game reads and writes it (Memory::scRead,     *)
(* scWrite, scCommand).                                                    *)
(***************************************************************************)
EXTENDS Integers, Sequences, FiniteSets, FiniteSetsExt

CONSTANTS
  kReserved,     \* sectors before the first FAT
  kSecPerClus,   \* sectors of a cluster
  FatEntries,    \* entries of a sector of the FAT (128)
  DirEntries,    \* directory entries of a cluster
  kMinClusters,  \* clusters a volume has at least
  SdSizes,       \* sizes of a file of the host, in sectors
  SdNodes,       \* bound: files and folders
  MaxMoves,      \* bound: transfers of a session
  BufSectors     \* sectors of the data buffer of the cartridge

ASSUME SdAssumption ==
  /\ {kSecPerClus, FatEntries, DirEntries, BufSectors} \subseteq Nat \ {0}
  /\ SdSizes \subseteq Nat /\ kReserved \in Nat /\ kMinClusters \in Nat /\ MaxMoves \in Nat

Ceil(a, b) == (a + b - 1) \div b
EndOfChain == -1

VARIABLES
  tree,      \* the folder in the order of scan: node 1 is the root
  overlay,   \* sectors the game wrote (SdCard::overlay)
  sc,        \* the registers: key, error, DATA0, DATA1, sector, card started
  buf,       \* the data buffer
  moved      \* ghost: the last transfer: first sector and sectors that arrived

sdVars == <<tree, overlay, sc, buf, moved>>

----------------------------------------------------------------------------
(* buildVirtual.  A node has a parent, is a folder or has a size.          *)

Kids(t, n) == {k \in 2 .. Len(t) : t[k].parent = n}
\* entriesOf: a short entry, and one more when the name needs a long one.
DirLength(t, n) ==
  (IF n = 1 THEN 0 ELSE 2) + 1
    + Cardinality(Kids(t, n)) + Cardinality({k \in Kids(t, n) : t[k].long})
Clusters(t, n) ==
  IF t[n].dir THEN Ceil(DirLength(t, n), DirEntries) ELSE Ceil(t[n].size, kSecPerClus)
\* The clusters of a node follow those of the nodes before it.
FirstFree(t, n) == 2 + FoldSet(LAMBDA k, sum : sum + Clusters(t, k), 0, 1 .. n - 1)
First(t, n) == IF Clusters(t, n) = 0 THEN 0 ELSE FirstFree(t, n)
Used(t) == FirstFree(t, Len(t) + 1) - 2
AllClusters(t) == IF Used(t) + 2 > kMinClusters THEN Used(t) + 2 ELSE kMinClusters
fatSz(t) == Ceil(AllClusters(t) + 2, FatEntries)
dataStart(t) == kReserved + 2 * fatSz(t)
total(t) == dataStart(t) + AllClusters(t) * kSecPerClus

Extents(t) == {n \in 1 .. Len(t) : Clusters(t, n) > 0}
\* findExtent: upper_bound, one back, and the bound of that extent.
findExtentLast(t, c) ==
  LET before == {n \in Extents(t) : First(t, n) <= c} IN IF before = {} THEN 0 ELSE Max(before)
findExtent(t, c) ==
  LET before == {n \in Extents(t) : First(t, n) <= c}
      n == Max(before)
  IN IF before # {} /\ c < First(t, n) + Clusters(t, n) THEN n ELSE 0

FatEntry(t, e) ==
  LET n == findExtent(t, e) IN
  IF n = 0 THEN 0 ELSE IF e + 1 < First(t, n) + Clusters(t, n) THEN e + 1 ELSE EndOfChain

\* virtualSector: what the sector is, its content named by node and position.
virtualSector(t, lba) ==
  LET rel == lba - dataStart(t)
      c   == rel \div kSecPerClus + 2
      n   == findExtent(t, c)
      off == (c - First(t, n)) * kSecPerClus + (rel % kSecPerClus)
  IN IF lba < kReserved THEN <<"boot", lba>>
     ELSE IF lba < dataStart(t) THEN <<"fat", (lba - kReserved) % fatSz(t)>>
     ELSE IF n = 0 THEN <<"zero", 0>>
     ELSE IF t[n].dir THEN <<"dir", n, off>>
     ELSE IF off >= t[n].size THEN <<"zero", 0>> ELSE <<"file", n, off>>

\* SdCard::read: what the game wrote hides what the folder holds.
Sector(t, o, lba) == IF lba \in DOMAIN o THEN o[lba] ELSE virtualSector(t, lba)

----------------------------------------------------------------------------
(* The registers of the cartridge.                                         *)

Data == <<"data">>
NoMove == [first |-> 0, count |-> 0, from |-> 0, turn |-> 0]
ScReset == [key |-> 0, err |-> FALSE, data0 |-> 0, data1 |-> 0, sector |-> 0, init |-> FALSE]

SdInit(trees) ==
  /\ tree \in trees
  /\ overlay = <<>> /\ sc = ScReset /\ buf = [i \in 0 .. BufSectors - 1 |-> Data] /\ moved = NoMove

\* The folders scan can find, in its order.
Node == [dir : BOOLEAN, size : SdSizes, parent : 0 .. SdNodes, long : BOOLEAN]
Root == [dir |-> TRUE, size |-> 0, parent |-> 0, long |-> FALSE]
Folders ==
  UNION {{t \in [1 .. n -> Node] :
            /\ t[1] = Root
            /\ \A k \in 2 .. n : /\ t[k].parent \in 1 .. k - 1 /\ t[t[k].parent].dir
                                 /\ t[k].dir => t[k].size = 0}
         : n \in 1 .. SdNodes}

\* KEY: 0, _UNL, OCK_ in this order open the registers; all ones close them.
scKey(v) ==
  /\ sc' = [sc EXCEPT !.key =
       IF v = "close" THEN 0
       ELSE IF sc.key = 2 THEN 2
       ELSE IF v = "_UNL" /\ sc.key = 0 THEN 1
       ELSE IF v = "OCK_" /\ sc.key = 1 THEN 2 ELSE 0]
  /\ UNCHANGED <<tree, overlay, buf, moved>>

ScCommand(s) == sc.key = 2 /\ sc' = s
scData(a, n) == ScCommand([sc EXCEPT !.data0 = a, !.data1 = n]) /\ UNCHANGED <<tree, overlay, buf, moved>>
scStart == ScCommand([sc EXCEPT !.err = FALSE, !.init = TRUE]) /\ UNCHANGED <<tree, overlay, buf, moved>>
scStop == ScCommand([sc EXCEPT !.err = FALSE, !.init = FALSE]) /\ UNCHANGED <<tree, overlay, buf, moved>>
scSectorSet(l) ==
  ScCommand([sc EXCEPT !.err = FALSE, !.sector = l]) /\ UNCHANGED <<tree, overlay, buf, moved>>

\* How many of the sectors asked for can be moved before one fails.
Movable ==
  LET ok == {k \in 0 .. sc.data1 : \A j \in 0 .. k - 1 :
               sc.data0 + j < BufSectors /\ sc.sector + j < total(tree)} IN Max(ok)
AfterMove(n) == [sc EXCEPT !.err = ~sc.init \/ n < sc.data1, !.sector = @ + n]
scRead ==
  LET n == IF sc.init THEN Movable ELSE 0 IN
  /\ moved.turn < MaxMoves
  /\ ScCommand(AfterMove(n))
  /\ buf' = [i \in DOMAIN buf |-> IF i >= sc.data0 /\ i < sc.data0 + n
                                  THEN Sector(tree, overlay, sc.sector + i - sc.data0) ELSE buf[i]]
  /\ moved' = [first |-> sc.sector, count |-> n, from |-> sc.data0, turn |-> moved.turn + 1]
  /\ UNCHANGED <<tree, overlay>>
scWrite ==
  LET n == IF sc.init THEN Movable ELSE 0 IN
  /\ moved.turn < MaxMoves
  /\ ScCommand(AfterMove(n))
  /\ overlay' = [l \in DOMAIN overlay \union (sc.sector .. sc.sector + n - 1) |->
                   IF l >= sc.sector /\ l < sc.sector + n THEN buf[sc.data0 + l - sc.sector] ELSE overlay[l]]
  /\ moved' = [first |-> sc.sector, count |-> n, from |-> sc.data0, turn |-> moved.turn + 1]
  /\ UNCHANGED <<tree, buf>>

SdNext ==
  \/ \E v \in {"close", "zero", "_UNL", "OCK_"} : scKey(v)
  \/ \E a \in 0 .. BufSectors, n \in 0 .. BufSectors : scData(a, n)
  \/ scStart \/ scStop \/ scRead \/ scWrite
  \/ \E l \in {dataStart(tree), total(tree) - 1} : scSectorSet(l)

----------------------------------------------------------------------------
\* The cluster that the chain from c reaches after i links.
Link(t, c) ==
  LET at[i \in 0 .. AllClusters(t)] ==
        IF i = 0 THEN c ELSE IF at[i - 1] = EndOfChain THEN EndOfChain ELSE FatEntry(t, at[i - 1])
  IN at

\* Reading a file the way a FAT driver does, from the first cluster of its entry
\* along the chain of the table, gives the sectors of the host's file in order
\* and then zeros, and the chain ends with the file; the table has an entry for
\* every cluster of the volume, and the clusters of nobody are free in it.
FatIsSound ==
  /\ \A n \in Extents(tree) :
       LET at == Link(tree, First(tree, n)) IN
       /\ at[Clusters(tree, n)] = EndOfChain
       /\ \A i \in 0 .. Clusters(tree, n) - 1, s \in 0 .. kSecPerClus - 1 :
            LET off == i * kSecPerClus + s IN
            virtualSector(tree, dataStart(tree) + (at[i] - 2) * kSecPerClus + s) =
              IF tree[n].dir THEN <<"dir", n, off>>
              ELSE IF off < tree[n].size THEN <<"file", n, off>> ELSE <<"zero", 0>>
  /\ \A c \in 2 .. AllClusters(tree) + 1 : c \div FatEntries < fatSz(tree)
  /\ Used(tree) <= AllClusters(tree)
  /\ \A c \in Used(tree) + 2 .. AllClusters(tree) + 1 : FatEntry(tree, c) = 0

\* After a transfer the buffer and the card agree on every sector that moved,
\* and a transfer that fell short of what was asked has set the error.
TransferAgrees ==
  [][moved' # moved =>
       /\ \A j \in 0 .. moved'.count - 1 :
            buf'[moved'.from + j] = Sector(tree, overlay', moved'.first + j)
       /\ moved'.count < sc.data1 => sc'.err]_sdVars
=============================================================================
