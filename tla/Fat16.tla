-------------------------------- MODULE Fat16 -------------------------------
(***************************************************************************)
(* The read-only FAT16 reader (kernel/fat16.c) on a block device           *)
(* (kernel/blockdev.c): mounting a volume, and the search of its root      *)
(* directory, sector by sector.  A read may fail, and the medium may be    *)
(* changed at any moment, under a mounted volume and during a search.      *)
(***************************************************************************)
EXTENDS Integers, Sequences, FiniteSetsExt

CONSTANTS
  PerSector,     \* directory entries of a sector: 512 / 32
  MinClusters,   \* 4085
  MaxClusters,   \* 65525
  BlockCount,    \* dev->block_count, set when the device was registered
  Images,        \* the media there may be
  Starts,        \* the volume_start_lba arguments
  Names          \* the names looked for

(* What the boot sector says, once its fixed fields have been validated:   *)
(* signature, sector size and a power of two of sectors per cluster.       *)
Bpb == [ok : BOOLEAN, perCluster : Nat \ {0}, reserved : Nat, fats : Nat,
        entries : Nat, perFat : Nat, total : Nat]

(* A directory entry: its kind, by first byte and attributes, and name. *)
Entry == [kind : {"end", "deleted", "long", "volume", "file"}, name : Names]

(* A medium: the blocks it really has, whatever BlockCount says of the     *)
(* device, where its volume begins, and the sectors of the root directory, *)
(* the unused rest of the last one included.                               *)
Image == [count : Nat \ {0}, start : Nat, bpb : Bpb, dir : Seq(Entry)]

RootSectors(b) == (b.entries + PerSector - 1) \div PerSector
Overhead(b) == b.reserved + b.fats * b.perFat + RootSectors(b)

ASSUME Fat16Assumption ==
  /\ PerSector \in Nat \ {0}
  /\ MinClusters \in Nat /\ MaxClusters \in Nat
  /\ BlockCount \in Nat \ {0}
  /\ Images \subseteq Image
  /\ Starts \subseteq Nat
  /\ \A m \in Images : Len(m.dir) = PerSector * RootSectors(m.bpb)

NoFs == [firstRoot |-> 0, rootSectors |-> 0, entries |-> 0, firstData |-> 0,
         clusters |-> 0, perCluster |-> 0, end |-> 0]

VARIABLES
  image,    \* the medium in the device
  mounted,  \* a mount has succeeded
  fs,       \* orion_fat16_t
  pc,       \* "idle", or "scan" inside fat16_find_root
  want,     \* its name83
  sector,   \* its sector_index
  seen,     \* its seen
  result,   \* what it returned, if it was the latest call: [status, index]
  fresh     \* fs was mounted from the medium in the device (history)

search == <<pc, want, sector, seen, result>>
fatVars == <<image, mounted, fs, search, fresh>>

NoResult == [status |-> "none", index |-> 0]

FatInit ==
  /\ image \in Images
  /\ mounted = FALSE
  /\ fs = NoFs
  /\ pc = "idle"
  /\ want \in Names
  /\ sector = 0
  /\ seen = 0
  /\ result = NoResult
  /\ fresh = FALSE
-----------------------------------------------------------------------------
(* blockdev_range_valid for one block: by the count the device was         *)
(* registered with, which no exchange of the medium changes.               *)
InRange(lba) == lba < BlockCount

(* A blockdev_read that succeeds: in range, and the medium has the block.  *)
BlockRead(lba) == InRange(lba) /\ lba < image.count

Clusters(b) == (b.total - Overhead(b)) \div b.perCluster

(* Mutant of Fits: the volume's start is left out of the account. *)
FitsFromZero(b, start) == start < BlockCount /\ b.total <= BlockCount

Fits(b, start) == start < BlockCount /\ b.total <= BlockCount - start

Valid(b, start) ==
  /\ b.ok
  /\ b.reserved # 0 /\ b.fats # 0 /\ b.entries # 0 /\ b.perFat # 0 /\ b.total # 0
  /\ b.total > Overhead(b)
  /\ Clusters(b) >= MinClusters /\ Clusters(b) < MaxClusters
  /\ Fits(b, start)

Layout(b, start) ==
  [firstRoot   |-> start + b.reserved + b.fats * b.perFat,
   rootSectors |-> RootSectors(b),
   entries     |-> b.entries,
   firstData   |-> start + Overhead(b),
   clusters    |-> Clusters(b),
   perCluster  |-> b.perCluster,
   end         |-> start + b.total]

(* fat16_mount: the volume is only there where the medium has its boot     *)
(* sector; on any failure the caller's orion_fat16_t keeps what it had.    *)
Mount(start) ==
  /\ pc = "idle"
  /\ \/ /\ BlockRead(start)
        /\ start = image.start
        /\ Valid(image.bpb, start)
        /\ fs' = Layout(image.bpb, start)
        /\ mounted' = TRUE
        /\ fresh' = TRUE
     \/ UNCHANGED <<mounted, fs, fresh>>    \* not valid, or the read fails
  /\ result' = NoResult
  /\ UNCHANGED <<image, pc, want, sector, seen>>

(* The medium is changed; the device keeps its block_count. *)
Change ==
  /\ image' \in Images
  /\ image' # image
  /\ fresh' = FALSE
  /\ UNCHANGED <<mounted, fs, search>>

(* fat16_find_root is called. *)
Find(n) ==
  /\ pc = "idle"
  /\ mounted
  /\ pc' = "scan"
  /\ want' = n
  /\ sector' = 0
  /\ seen' = 0
  /\ result' = NoResult
  /\ UNCHANGED <<image, mounted, fs, fresh>>

Return(status, index) ==
  /\ pc' = "idle"
  /\ result' = [status |-> status, index |-> index]

(* What the device delivers for one entry: on another medium the block can *)
(* hold anything, here an entry of its root directory or an end mark.      *)
EntryAt(lba, j) ==
  LET k == (lba - (image.start + image.bpb.reserved + image.bpb.fats * image.bpb.perFat))
             * PerSector + j
  IN IF k \in DOMAIN image.dir THEN image.dir[k] ELSE [kind |-> "end", name |-> want]

Looking == sector < fs.rootSectors /\ seen < fs.entries

(* Mutant of Remaining: the unused rest of the last sector is searched. *)
RemainingOfSector == PerSector

(* The entries of this sector that count. *)
Remaining == Min({PerSector, fs.entries - seen})

Matches(e) == e.kind = "file" /\ e.name = want

(* The inner loop stops at the end mark or at the name. *)
Stops(lba) == {j \in 1..Remaining : EntryAt(lba, j).kind = "end" \/ Matches(EntryAt(lba, j))}

ScanSector ==
  /\ pc = "scan"
  /\ Looking
  /\ LET lba == fs.firstRoot + sector IN
     \/ /\ BlockRead(lba)
        /\ \/ /\ Stops(lba) = {}
              /\ seen' = seen + Remaining
              /\ sector' = sector + 1
              /\ UNCHANGED <<pc, result>>
           \/ /\ Stops(lba) # {}
              /\ LET j == Min(Stops(lba)) IN
                 IF Matches(EntryAt(lba, j)) THEN Return("found", seen + j)
                                             ELSE Return("missing", 0)
              /\ UNCHANGED <<sector, seen>>
     \/ /\ Return("error", 0)    \* out of range, or the device fails
        /\ UNCHANGED <<sector, seen>>
  /\ UNCHANGED <<image, mounted, fs, want, fresh>>

ScanEnds ==
  /\ pc = "scan"
  /\ ~Looking
  /\ Return("missing", 0)
  /\ UNCHANGED <<image, mounted, fs, want, sector, seen, fresh>>

FatNext ==
  \/ \E s \in Starts : Mount(s)
  \/ Change
  \/ \E n \in Names : Find(n)
  \/ ScanSector
  \/ ScanEnds

FatSpec == FatInit /\ [][FatNext]_fatVars
-----------------------------------------------------------------------------
(* The entries a directory of this volume has, up to its end mark. *)
LiveEntries(m) ==
  {k \in 1..m.bpb.entries : \A i \in 1..k : m.dir[i].kind # "end"}

(* On the medium the volume was mounted from, fat16_find_root returns the  *)
(* first file of that name among the directory's entries, or that there is *)
(* none: across sectors, not behind the end mark and not in the unused     *)
(* rest of the last sector.                                                *)
FindAgrees ==
  fresh /\ pc = "idle" =>
    LET hits == {k \in LiveEntries(image) : Matches(image.dir[k])} IN
    /\ result.status = "found" => hits # {} /\ result.index = Min(hits)
    /\ result.status = "missing" => hits = {}

(* The directory and all clusters of a mounted volume lie inside it, one   *)
(* behind the other, and the volume inside the block count of the device,  *)
(* from the mount on and whatever medium replaces the mounted one.         *)
LayoutInside ==
  mounted =>
    /\ fs.firstRoot + fs.rootSectors = fs.firstData
    /\ fs.firstData + fs.clusters * fs.perCluster <= fs.end
    /\ fs.entries <= fs.rootSectors * PerSector
    /\ fs.end <= BlockCount
=============================================================================
