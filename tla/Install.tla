------------------------------- MODULE Install ------------------------------
(***************************************************************************)
(* The optical installer of the UEFI loader (boot/main.c): it offers to    *)
(* install, looks for exactly one suitable disk, asks for confirmation and *)
(* copies the boot medium chunk by chunk.  Any firmware call may fail, and *)
(* keys are typed at any time, ahead of the prompts too: the firmware      *)
(* queues them.  Sizes are in bytes; byte i of the boot medium has value i.*)
(***************************************************************************)
EXTENDS Integers, Sequences, FiniteSets

CONSTANTS
  Disk,         \* the other block devices the firmware reports
  SourceMedia,  \* the boot media there may be: [present, readOnly, block, blocks]
  DiskMedia,    \* the disks there may be: the same, with partition and io
  Chunk,        \* ORION_INSTALL_CHUNK
  MaxChunk,     \* the 1 MiB limit of the search for a common chunk size
  MaxTyped      \* bound on the keys typed

Old == -1       \* what a disk held before the installation
Key == {"I", "Y", "other"}

ASSUME InstallAssumption ==
  /\ IsFiniteSet(Disk)
  /\ SourceMedia \subseteq [present : BOOLEAN, readOnly : BOOLEAN, block : Nat, blocks : Nat \ {0}]
  /\ DiskMedia \subseteq [io : BOOLEAN, present : BOOLEAN, readOnly : BOOLEAN,
                          partition : BOOLEAN, block : Nat, blocks : Nat \ {0}]
  /\ Chunk \in Nat \ {0}
  /\ MaxChunk \in Nat
  /\ MaxTyped \in Nat

VARIABLES
  pc,
  source,     \* the boot medium
  media,      \* the media of the disks
  keys,       \* the firmware's queue of typed keys: [key, warned]
  typed,      \* how many were typed (for the bound)
  answers,    \* the keys the two prompts were answered with (history)
  target,     \* the disk chosen, {} before
  chunk, sourceLba, targetLba, remaining, buffer,
  content,    \* what each disk holds
  flushed,    \* everything written has reached the medium
  report      \* what the loader prints last

answer == <<keys, typed, answers>>
copy == <<chunk, sourceLba, targetLba, remaining, buffer>>
vars == <<pc, source, media, answer, target, copy, content, flushed, report>>

Size(m) == m.block * m.blocks
SourceBytes == Size(source)
Blank(m) == [b \in 0..(Size(m) - 1) |-> Old]

Init ==
  /\ pc = "detect"
  /\ source \in SourceMedia
  /\ media \in [Disk -> DiskMedia]
  /\ keys = << >>
  /\ typed = 0
  /\ answers = << >>
  /\ target = {}
  /\ chunk = 0
  /\ sourceLba = 0
  /\ targetLba = 0
  /\ remaining = 0
  /\ buffer = << >>
  /\ content = [d \in Disk |-> Blank(media[d])]
  /\ flushed = TRUE
  /\ report = "none"
-----------------------------------------------------------------------------
(* The warning that everything will be erased stands on the screen. *)
Warned == pc \in {"confirm", "prepare", "read", "write"}

Type(k) ==
  /\ pc # "live"
  /\ typed < MaxTyped
  /\ typed' = typed + 1
  /\ keys' = Append(keys, [key |-> k, warned |-> Warned])
  /\ UNCHANGED <<pc, source, media, answers, target, copy, content, flushed, report>>

(* Every return of offer_optical_install leads to the live boot. *)
Leave(text) ==
  /\ pc' = "live"
  /\ report' = text

(* Only read-only media make an offer. *)
Detect ==
  /\ pc = "detect"
  /\ \/ /\ source.readOnly /\ source.present
        /\ pc' = "offer"
        /\ UNCHANGED report
     \/ Leave("none")    \* no such medium, or one of the two protocols is missing
  /\ UNCHANGED <<source, media, answer, target, copy, content, flushed>>

(* Mutant of TimesOut: the prompt waits for a key without a timer. *)
NoTimer == FALSE

(* The timer event of read_key_with_timeout, or an error of a call. *)
TimesOut == TRUE

(* read_key_with_timeout: the first queued key wins over the timer; 0 when *)
(* the time passes or a call fails.                                        *)
Prompt(wanted, accepted, refused) ==
  \/ /\ keys # << >>
     /\ keys' = Tail(keys)
     /\ \/ /\ Head(keys).key = wanted
           /\ answers' = Append(answers, Head(keys))
           /\ pc' = accepted
           /\ UNCHANGED report
        \/ /\ Head(keys).key # wanted
           /\ Leave(refused)
           /\ UNCHANGED answers
  \/ /\ TimesOut
     /\ Leave(refused)
     /\ UNCHANGED <<keys, answers>>

Offer ==
  /\ pc = "offer"
  /\ Prompt("I", "find", "live")
  /\ UNCHANGED <<source, media, typed, target, copy, content, flushed>>

(* A writable whole disk that can hold the medium in whole blocks. *)
Suitable(m) ==
  /\ m.io /\ m.present /\ ~m.readOnly /\ ~m.partition
  /\ m.block # 0
  /\ Size(m) >= SourceBytes
  /\ SourceBytes % m.block = 0

Candidates == {d \in Disk : Suitable(media[d])}

(* Mutant of Sole: the first of several will do. *)
AnyCandidate(d) == d \in Candidates

(* find_single_install_target wants exactly one. *)
Sole(d) == Candidates = {d}

Find ==
  /\ pc = "find"
  /\ \/ \E d \in Disk :
          /\ Sole(d)
          /\ target' = {d}
          /\ pc' = "confirm"
          /\ UNCHANGED report
     \/ /\ Leave("cancelled")    \* none, several, or LocateHandleBuffer fails
        /\ UNCHANGED target
  /\ UNCHANGED <<source, media, answer, copy, content, flushed>>

Confirm ==
  /\ pc = "confirm"
  /\ Prompt("Y", "prepare", "cancelled")
  /\ UNCHANGED <<source, media, typed, target, copy, content, flushed>>

TargetBlock == media[CHOOSE d \in target : TRUE].block

(* Mutant of CommonChunks: the target's block size is not considered. *)
SourceChunks ==
  {c \in {Chunk + k * source.block : k \in 0..MaxChunk} :
     /\ c = Chunk \/ c <= MaxChunk
     /\ c % source.block = 0}

(* The chunk sizes the search may stop at: whole blocks of both media. *)
CommonChunks ==
  {c \in {Chunk + k * source.block : k \in 0..MaxChunk} :
     /\ c = Chunk \/ c <= MaxChunk
     /\ c % source.block = 0 /\ c % TargetBlock = 0}

(* copy_install_media up to its loop. *)
Prepare ==
  /\ pc = "prepare"
  /\ \/ /\ source.block # 0
        /\ \E c \in CommonChunks :
             /\ \A b \in CommonChunks : c <= b
             /\ chunk' = c
        /\ remaining' = SourceBytes
        /\ pc' = "read"
        /\ UNCHANGED report
     \/ /\ Leave("failed")    \* unsupported geometry, or no buffer
        /\ UNCHANGED <<chunk, remaining>>
  /\ UNCHANGED <<source, media, answer, target, sourceLba, targetLba, buffer, content, flushed>>

(* Mutant of Bytes: the last chunk is not cut to what remains. *)
FullChunk == chunk

Bytes == IF remaining > chunk THEN chunk ELSE remaining

Read ==
  /\ pc = "read"
  /\ remaining # 0
  /\ \/ /\ buffer' = [i \in 0..(Bytes - 1) |-> sourceLba * source.block + i]
        /\ pc' = "write"
        /\ UNCHANGED report
     \/ /\ Leave("failed")
        /\ UNCHANGED buffer
  /\ UNCHANGED <<source, media, answer, target, chunk, sourceLba, targetLba, remaining, content, flushed>>

(* n bytes of the buffer reach the disk. *)
Put(n) ==
  LET base == targetLba * TargetBlock IN
  /\ content' = [d \in Disk |->
       IF d \in target
       THEN [b \in DOMAIN content[d] |->
               IF b \in base..(base + n - 1) THEN buffer[b - base] ELSE content[d][b]]
       ELSE content[d]]
  /\ flushed' = FALSE

(* A failing WriteBlocks may have written a part. *)
Write ==
  /\ pc = "write"
  /\ \/ /\ Put(Bytes)
        /\ sourceLba' = sourceLba + Bytes \div source.block
        /\ targetLba' = targetLba + Bytes \div TargetBlock
        /\ remaining' = remaining - Bytes
        /\ pc' = "read"
        /\ UNCHANGED report
     \/ /\ \E n \in 0..Bytes : Put(n)
        /\ Leave("failed")
        /\ UNCHANGED <<sourceLba, targetLba, remaining>>
  /\ UNCHANGED <<source, media, answer, target, chunk, buffer>>

(* Mutant of Flush: its status is ignored. *)
FlushIgnored ==
  /\ pc = "read"
  /\ remaining = 0
  /\ flushed' \in {TRUE, flushed}
  /\ Leave("complete")
  /\ UNCHANGED <<source, media, answer, target, copy, content>>

Flush ==
  /\ pc = "read"
  /\ remaining = 0
  /\ \/ /\ flushed' = TRUE
        /\ Leave("complete")
     \/ /\ Leave("failed")
        /\ UNCHANGED flushed
  /\ UNCHANGED <<source, media, answer, target, copy, content>>

Installer == Detect \/ Offer \/ Find \/ Confirm \/ Prepare \/ Read \/ Write \/ Flush

(* The loader goes on to load the kernel (module Boot). *)
Finished == pc = "live" /\ UNCHANGED vars

Next == Installer \/ (\E k \in Key : Type(k)) \/ Finished

(* Every firmware call returns, the prompts after their timeout at last. *)
Spec == Init /\ [][Next]_vars /\ WF_vars(Installer)
-----------------------------------------------------------------------------
TypeOK ==
  /\ pc \in {"detect", "offer", "find", "confirm", "prepare", "read", "write", "live"}
  /\ source \in SourceMedia
  /\ media \in [Disk -> DiskMedia]
  /\ keys \in Seq([key : Key, warned : BOOLEAN])
  /\ typed \in Nat
  /\ answers \in Seq([key : Key, warned : BOOLEAN])
  /\ target \in SUBSET Disk
  /\ chunk \in Nat /\ sourceLba \in Nat /\ targetLba \in Nat /\ remaining \in Nat
  /\ \A d \in Disk : content[d] \in [0..(Size(media[d]) - 1) -> Nat \cup {Old}]
  /\ flushed \in BOOLEAN
  /\ report \in {"none", "live", "cancelled", "failed", "complete"}

(* A disk is only written when it is the one disk that can be meant and    *)
(* the user has answered both prompts; no other disk ever is.              *)
OnlyConsentedErase ==
  \A d \in Disk : content[d] # Blank(media[d]) =>
    /\ Candidates = {d}
    /\ [i \in 1..Len(answers) |-> answers[i].key] = <<"I", "Y">>

(* However the chunk size relates to the two block sizes, and wherever the *)
(* copy stops, the chosen disk holds the beginning of the medium in place, *)
(* and behind it what it held before.                                      *)
PrefixCopied ==
  \A d \in target : \E n \in 0..SourceBytes :
    /\ pc \in {"read", "write"} => n = SourceBytes - remaining
    /\ content[d] = [b \in 0..(Size(media[d]) - 1) |-> IF b < n THEN b ELSE Old]

(* "Install complete" is printed only when every byte of the medium is on  *)
(* the disk and has been flushed.                                          *)
CompleteMeansInstalled ==
  report = "complete" =>
    /\ flushed
    /\ \E d \in target : \A b \in 0..(SourceBytes - 1) : content[d][b] = b

(* The confirmation was typed when the warning was on the screen ("ALL     *)
(* DATA ON IT WILL BE ERASED", then "Press Y within 10 seconds").          *)
ConfirmedAfterWarning == Len(answers) = 2 => answers[2].warned

(* What the installer has yet to do at most, a read and a write per byte.  *)
StepsLeft ==
  [live |-> 0, read |-> 2 * remaining + 1, write |-> 2 * remaining,
   prepare |-> 2 * SourceBytes + 2, confirm |-> 2 * SourceBytes + 3,
   find |-> 2 * SourceBytes + 4, offer |-> 2 * SourceBytes + 5,
   detect |-> 2 * SourceBytes + 6][pc]

(* Whatever the sizes of medium, blocks and chunk, every step brings the   *)
(* live boot nearer: no prompt is shown again, no pass of the copy is      *)
(* empty, and the count of what remains does not fall below zero.          *)
InstallAdvances ==
  [][typed' = typed => StepsLeft' \in Nat /\ StepsLeft' < StepsLeft]_vars

(* The offer never keeps the live boot from going on. *)
InstallEnds == <>(pc = "live")
=============================================================================
