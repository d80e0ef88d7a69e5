---------------------------- MODULE InstallProofs ----------------------------
(***************************************************************************)
(* Proofs about the installer, for any number of disks, any block sizes    *)
(* and any chunk size.                                                     *)
(***************************************************************************)
EXTENDS Install, SequenceTheorems, TLAPS

-----------------------------------------------------------------------------
(* Whole blocks.                                                           *)

LEMMA WholeBlocks ==
  ASSUME NEW n \in Nat, NEW k \in Nat \ {0}, n % k = 0
  PROVE  n \div k \in Nat /\ (n \div k) * k = n
OBVIOUS

LEMMA MultipleIsWhole ==
  ASSUME NEW q \in Nat, NEW k \in Nat \ {0}
  PROVE  (q * k) % k = 0
OBVIOUS

LEMMA WholeDifference ==
  ASSUME NEW n \in Nat, NEW m \in Nat, m <= n, NEW k \in Nat \ {0}, n % k = 0, m % k = 0
  PROVE  (n - m) % k = 0
<1> DEFINE p == n \div k
           q == m \div k
<1>1. p \in Nat /\ p * k = n /\ q \in Nat /\ q * k = m
  BY WholeBlocks
<1> HIDE DEF p, q
<1>2. n - m = (p - q) * k
  BY <1>1
<1>3. p - q \in Nat
  <2>1. SUFFICES ASSUME p < q PROVE FALSE
    BY <1>1
  <2>2. q = p + (q - p) /\ q - p \in Nat \ {0}
    BY <1>1, <2>1
  <2>3. q * k = p * k + (q - p) * k
    BY <1>1
  <2>4. (q - p) * k > 0
    BY <2>2
  <2> QED BY <1>1, <2>3, <2>4
<1> QED BY <1>2, <1>3, MultipleIsWhole

(* The next position of the copy, in blocks of size k: at = lba * k.       *)
LEMMA NextBlock ==
  ASSUME NEW lba \in Nat, NEW n \in Nat, NEW k \in Nat \ {0}, n % k = 0
  PROVE  lba + n \div k \in Nat /\ (lba + n \div k) * k = lba * k + n
<1> DEFINE q == n \div k
<1>1. q \in Nat /\ q * k = n
  BY WholeBlocks
<1> HIDE DEF q
<1>2. lba + q \in Nat /\ (lba + q) * k = lba * k + n
  BY <1>1
<1> QED BY <1>2 DEF q
-----------------------------------------------------------------------------
(* The inductive invariant.                                                *)

Before == pc \in {"detect", "offer", "find", "confirm", "prepare"}
Copying == pc \in {"read", "write"}

Typing ==
  /\ pc \in {"detect", "offer", "find", "confirm", "prepare", "read", "write", "live"}
  /\ source \in SourceMedia
  /\ media \in [Disk -> DiskMedia]
  /\ keys \in Seq([key : Key, warned : BOOLEAN])
  /\ typed \in Nat
  /\ answers \in Seq([key : Key, warned : BOOLEAN])
  /\ target \in SUBSET Disk
  /\ chunk \in Nat /\ sourceLba \in Nat /\ targetLba \in Nat /\ remaining \in Nat
  /\ flushed \in BOOLEAN
  /\ report \in {"none", "live", "cancelled", "failed", "complete"}

(* The user has answered both prompts. *)
Consented == Len(answers) = 2 /\ answers[1].key = "I" /\ answers[2].key = "Y"

(* No phase is reached without the answers to the prompts before it. *)
AnswerInv ==
  /\ pc \in {"detect", "offer"} => answers = << >>
  /\ pc \in {"find", "confirm"} => Len(answers) = 1 /\ answers[1].key = "I"
  /\ pc \in {"prepare", "read", "write"} => Consented

(* The disk that is chosen is the only one that is suitable. *)
TargetInv ==
  /\ pc \in {"detect", "offer", "find"} => target = {}
  /\ pc \in {"confirm", "prepare", "read", "write"} => target # {}
  /\ \A d \in target : target = {d} /\ Candidates = {d}

(* How far the copy is: both block numbers stand for the number of bytes   *)
(* copied, and what remains, like a chunk, is whole blocks of both media.  *)
CopyInv ==
  /\ Before => sourceLba = 0 /\ targetLba = 0
  /\ Copying =>
       /\ source.block # 0
       /\ chunk # 0
       /\ chunk % source.block = 0 /\ chunk % TargetBlock = 0
       /\ remaining % source.block = 0 /\ remaining % TargetBlock = 0
       /\ remaining <= SourceBytes
       /\ sourceLba * source.block = SourceBytes - remaining
       /\ targetLba * TargetBlock = SourceBytes - remaining
  /\ pc = "write" =>
       /\ remaining # 0
       /\ buffer = [i \in 0..(Bytes - 1) |-> (SourceBytes - remaining) + i]

(* Disk d holds the first n bytes of the medium. *)
Holds(d, n) == content[d] = [b \in 0..(Size(media[d]) - 1) |-> IF b < n THEN b ELSE Old]

ContentInv ==
  /\ \A d \in Disk : content[d] = Blank(media[d]) \/ (d \in target /\ Consented)
  /\ Before => \A d \in Disk : content[d] = Blank(media[d])
  /\ PrefixCopied

ReportInv ==
  /\ pc # "live" => report = "none"
  /\ CompleteMeansInstalled

Inv == Typing /\ AnswerInv /\ TargetInv /\ CopyInv /\ ContentInv /\ ReportInv

LEMMA MediaType ==
  /\ \A m \in SourceMedia : m.block \in Nat /\ m.blocks \in Nat /\ Size(m) \in Nat
  /\ \A m \in DiskMedia : m.block \in Nat /\ m.blocks \in Nat /\ Size(m) \in Nat
<1>1. ASSUME NEW m \in SourceMedia
      PROVE  m.block \in Nat /\ m.blocks \in Nat /\ Size(m) \in Nat
  <2>1. m \in [present : BOOLEAN, readOnly : BOOLEAN, block : Nat, blocks : Nat \ {0}]
    BY InstallAssumption
  <2>2. m.block \in Nat /\ m.blocks \in Nat
    BY <2>1
  <2> QED BY <2>2 DEF Size
<1>2. ASSUME NEW m \in DiskMedia
      PROVE  m.block \in Nat /\ m.blocks \in Nat /\ Size(m) \in Nat
  <2>1. m \in [io : BOOLEAN, present : BOOLEAN, readOnly : BOOLEAN,
               partition : BOOLEAN, block : Nat, blocks : Nat \ {0}]
    BY InstallAssumption
  <2>2. m.block \in Nat /\ m.blocks \in Nat
    BY <2>1
  <2> QED BY <2>2 DEF Size
<1> QED BY <1>1, <1>2

LEMMA BlankHolds ==
  ASSUME Typing, NEW d \in Disk, content[d] = Blank(media[d])
  PROVE  Holds(d, 0)
<1>1. media[d] \in DiskMedia
  BY DEF Typing
<1>2. Size(media[d]) \in Nat
  BY <1>1, MediaType
<1> QED BY <1>2 DEF Holds, Blank

(* What the copy knows about its disk. *)
LEMMA TheTarget ==
  ASSUME Inv, NEW d \in target
  PROVE  /\ d \in Disk /\ target = {d} /\ Candidates = {d}
         /\ TargetBlock = media[d].block
         /\ TargetBlock \in Nat \ {0}
         /\ SourceBytes \in Nat
         /\ Size(media[d]) \in Nat /\ SourceBytes <= Size(media[d])
         /\ SourceBytes % TargetBlock = 0
<1>1. d \in Disk /\ target = {d} /\ Candidates = {d}
  BY DEF Inv, Typing, TargetInv
<1>2. TargetBlock = media[d].block
  BY <1>1 DEF TargetBlock
<1>3. media[d] \in DiskMedia /\ source \in SourceMedia
  BY <1>1 DEF Inv, Typing
<1>4. Suitable(media[d])
  BY <1>1 DEF Candidates
<1>5. media[d].block \in Nat /\ Size(media[d]) \in Nat /\ SourceBytes \in Nat
  BY <1>3, MediaType DEF SourceBytes
<1>6. media[d].block # 0 /\ Size(media[d]) >= SourceBytes /\ SourceBytes % media[d].block = 0
  BY <1>4 DEF Suitable
<1> QED BY <1>1, <1>2, <1>5, <1>6

(* The bytes of one turn of the loop. *)
LEMMA OneTurn ==
  ASSUME Inv, Copying
  PROVE  /\ Bytes \in Nat /\ Bytes <= remaining
         /\ Bytes % source.block = 0 /\ Bytes % TargetBlock = 0
         /\ remaining # 0 => Bytes # 0
BY DEF Bytes, Inv, Typing, CopyInv
-----------------------------------------------------------------------------
(* The steps.                                                              *)

(* What depends on the media and the choice alone. *)
LEMMA SameGeometry ==
  ASSUME UNCHANGED <<source, media, target>>
  PROVE  SourceBytes' = SourceBytes /\ TargetBlock' = TargetBlock /\ Candidates' = Candidates
BY DEF SourceBytes, TargetBlock, Candidates, Suitable

(* However the installer is left short of its end, the disks stay as they  *)
(* are.                                                                    *)
LEMMA LeaveKeeps ==
  ASSUME Inv, Typing', NEW text \in {"none", "live", "cancelled", "failed"}, Leave(text),
         UNCHANGED <<source, media, answers, target, content>>
  PROVE  Inv'
<1>1. pc' = "live" /\ report' # "complete"
  BY DEF Leave
<1>2. SourceBytes' = SourceBytes /\ Candidates' = Candidates
  BY SameGeometry
<1>3. AnswerInv' /\ CopyInv' /\ ReportInv'
  BY <1>1 DEF AnswerInv, CopyInv, ReportInv, Before, Copying, CompleteMeansInstalled
<1>4. TargetInv'
  BY <1>1, <1>2 DEF Inv, TargetInv
<1>5. PrefixCopied'
  BY <1>1, <1>2 DEF Inv, ContentInv, PrefixCopied
<1>6. ContentInv'
  BY <1>1, <1>5 DEF Inv, ContentInv, Before, Consented
<1> QED BY <1>3, <1>4, <1>6 DEF Inv

(* From one prompt or search to the next. *)
LEMMA MoveKeeps ==
  ASSUME Inv, Typing', Before, Before', AnswerInv', TargetInv',
         UNCHANGED <<source, media, copy, content, report>>
  PROVE  Inv'
<1>1. \A d \in Disk : content'[d] = Blank(media'[d])
  BY DEF Inv, ContentInv
<1>2. pc' # "live" /\ pc # "live" /\ pc' \notin {"read", "write"}
  BY DEF Before
<1>3. SourceBytes' = SourceBytes /\ SourceBytes \in Nat
  BY MediaType DEF SourceBytes, Inv, Typing
<1>4. PrefixCopied'
  <2> SUFFICES ASSUME NEW d \in target'
               PROVE  content'[d] = [b \in 0..(Size(media'[d]) - 1) |-> IF b < 0 THEN b ELSE Old]
    BY <1>2, <1>3 DEF PrefixCopied
  <2>1. d \in Disk /\ content[d] = Blank(media[d])
    BY <1>1 DEF Typing
  <2> QED BY <2>1, BlankHolds DEF Holds, Inv
<1>5. ContentInv'
  BY <1>1, <1>4 DEF ContentInv
<1>6. ReportInv'
  BY <1>2 DEF Inv, ReportInv, CompleteMeansInstalled
<1>7. CopyInv'
  BY <1>2 DEF Inv, CopyInv, copy, Before, Copying
<1> QED BY <1>5, <1>6, <1>7 DEF Inv

(* A prompt that is answered adds the key to the answers. *)
LEMMA PromptAnswered ==
  ASSUME Inv, NEW wanted \in {"I", "Y"}, NEW accepted, NEW refused, Prompt(wanted, accepted, refused)
  PROVE  /\ keys' \in Seq([key : Key, warned : BOOLEAN])
         /\ \/ /\ answers' \in Seq([key : Key, warned : BOOLEAN])
               /\ Len(answers') = Len(answers) + 1
               /\ answers'[Len(answers) + 1].key = wanted
               /\ \A i \in 1..Len(answers) : answers'[i] = answers[i]
               /\ pc' = accepted /\ report' = report
            \/ Leave(refused) /\ answers' = answers
<1> DEFINE Typed == [key : Key, warned : BOOLEAN]
<1>1. keys \in Seq(Typed) /\ answers \in Seq(Typed)
  BY DEF Inv, Typing
<1> HIDE DEF Typed
<1>2. CASE keys # << >> /\ keys' = Tail(keys)
  <2>1. Head(keys) \in Typed /\ Tail(keys) \in Seq(Typed)
    BY <1>1, <1>2, HeadTailProperties
  <2>2. CASE Head(keys).key = wanted /\ answers' = Append(answers, Head(keys)) /\ pc' = accepted /\ report' = report
    <3>1. /\ answers' \in Seq(Typed) /\ Len(answers') = Len(answers) + 1
          /\ answers'[Len(answers) + 1] = Head(keys)
          /\ \A i \in 1..Len(answers) : answers'[i] = answers[i]
      BY <1>1, <2>1, <2>2, AppendProperties
    <3> QED BY <1>2, <2>1, <2>2, <3>1 DEF Typed
  <2>3. CASE Leave(refused) /\ answers' = answers
    BY <1>2, <2>1, <2>3 DEF Typed
  <2> QED BY <1>2, <2>2, <2>3 DEF Prompt
<1>3. CASE Leave(refused) /\ keys' = keys /\ answers' = answers
  BY <1>1, <1>3 DEF Typed
<1> QED BY <1>2, <1>3 DEF Prompt

LEMMA InitOK == Init => Inv
<1> SUFFICES ASSUME Init PROVE Inv
  OBVIOUS
<1>1. Typing
  BY EmptySeq DEF Init, Typing
<1>2. \A d \in Disk : content[d] = Blank(media[d])
  BY DEF Init
<1>3. pc = "detect" /\ target = {} /\ answers = << >> /\ report = "none"
  BY DEF Init
<1>4. AnswerInv /\ TargetInv /\ ReportInv
  BY <1>3 DEF AnswerInv, TargetInv, ReportInv, CompleteMeansInstalled
<1>5. CopyInv
  BY <1>3 DEF Init, CopyInv, Copying
<1>6. ContentInv
  BY <1>2, <1>3 DEF ContentInv, PrefixCopied
<1> QED BY <1>1, <1>4, <1>5, <1>6 DEF Inv

LEMMA DetectKeeps == Inv /\ Detect => Inv'
<1> SUFFICES ASSUME Inv, Detect PROVE Inv'
  OBVIOUS
<1>1. pc = "detect" /\ UNCHANGED <<source, media, answer, target, copy, content, flushed>>
  BY DEF Detect
<1>2. CASE pc' = "offer" /\ report' = report
  <2>1. Typing'
    BY <1>1, <1>2 DEF Inv, Typing, answer, copy
  <2>2. AnswerInv' /\ TargetInv'
    BY <1>1, <1>2 DEF Inv, AnswerInv, TargetInv, answer
  <2> QED BY <1>1, <1>2, <2>1, <2>2, MoveKeeps DEF Before
<1>3. CASE Leave("none")
  <2>1. Typing'
    BY <1>1, <1>3 DEF Inv, Typing, answer, copy, Leave
  <2> QED BY <1>1, <1>3, <2>1, LeaveKeeps DEF answer
<1> QED BY <1>2, <1>3 DEF Detect

LEMMA OfferKeeps == Inv /\ Offer => Inv'
<1> SUFFICES ASSUME Inv, Offer PROVE Inv'
  OBVIOUS
<1>1. /\ pc = "offer" /\ UNCHANGED <<source, media, typed, target, copy, content, flushed>>
      /\ Prompt("I", "find", "live")
  BY DEF Offer
<1>2. answers = << >> /\ target = {}
  BY <1>1 DEF Inv, AnswerInv, TargetInv
<1>3. keys' \in Seq([key : Key, warned : BOOLEAN])
  BY <1>1, PromptAnswered
<1>4. CASE Leave("live") /\ answers' = answers
  <2>1. Typing'
    BY <1>1, <1>3, <1>4 DEF Inv, Typing, copy, Leave
  <2> QED BY <1>1, <1>4, <2>1, LeaveKeeps
<1>5. CASE /\ answers' \in Seq([key : Key, warned : BOOLEAN])
           /\ Len(answers') = Len(answers) + 1
           /\ answers'[Len(answers) + 1].key = "I"
           /\ pc' = "find" /\ report' = report
  <2>1. Typing'
    BY <1>1, <1>3, <1>5 DEF Inv, Typing, copy
  <2>2. AnswerInv' /\ TargetInv'
    BY <1>1, <1>2, <1>5, EmptySeq DEF AnswerInv, TargetInv
  <2> QED BY <1>1, <1>5, <2>1, <2>2, MoveKeeps DEF Before
<1> QED BY <1>1, <1>4, <1>5, PromptAnswered

LEMMA FindKeeps == Inv /\ Find => Inv'
<1> SUFFICES ASSUME Inv, Find PROVE Inv'
  OBVIOUS
<1>1. pc = "find" /\ UNCHANGED <<source, media, answer, copy, content, flushed>>
  BY DEF Find
<1>2. CASE \E d \in Disk : Sole(d) /\ target' = {d} /\ pc' = "confirm" /\ report' = report
  <2>1. PICK d \in Disk : Sole(d) /\ target' = {d} /\ pc' = "confirm" /\ report' = report
    BY <1>2
  <2>2. Typing'
    BY <1>1, <2>1 DEF Inv, Typing, answer, copy
  <2>3. Candidates' = {d}
    BY <1>1, <2>1 DEF Sole, Candidates, Suitable, SourceBytes
  <2>4. AnswerInv' /\ TargetInv'
    BY <1>1, <2>1, <2>3 DEF Inv, AnswerInv, TargetInv, answer
  <2> QED BY <1>1, <2>1, <2>2, <2>4, MoveKeeps DEF Before
<1>3. CASE Leave("cancelled") /\ target' = target
  <2>1. Typing'
    BY <1>1, <1>3 DEF Inv, Typing, answer, copy, Leave
  <2> QED BY <1>1, <1>3, <2>1, LeaveKeeps DEF answer
<1> QED BY <1>2, <1>3 DEF Find

LEMMA ConfirmKeeps == Inv /\ Confirm => Inv'
<1> SUFFICES ASSUME Inv, Confirm PROVE Inv'
  OBVIOUS
<1>1. /\ pc = "confirm" /\ UNCHANGED <<source, media, typed, target, copy, content, flushed>>
      /\ Prompt("Y", "prepare", "cancelled")
  BY DEF Confirm
<1>2. Len(answers) = 1 /\ answers[1].key = "I" /\ target # {}
  BY <1>1 DEF Inv, AnswerInv, TargetInv
<1>3. keys' \in Seq([key : Key, warned : BOOLEAN])
  BY <1>1, PromptAnswered
<1>4. CASE Leave("cancelled") /\ answers' = answers
  <2>1. Typing'
    BY <1>1, <1>3, <1>4 DEF Inv, Typing, copy, Leave
  <2> QED BY <1>1, <1>4, <2>1, LeaveKeeps
<1>5. CASE /\ answers' \in Seq([key : Key, warned : BOOLEAN])
           /\ Len(answers') = Len(answers) + 1
           /\ answers'[Len(answers) + 1].key = "Y"
           /\ \A i \in 1..Len(answers) : answers'[i] = answers[i]
           /\ pc' = "prepare" /\ report' = report
  <2>1. Typing'
    BY <1>1, <1>3, <1>5 DEF Inv, Typing, copy
  <2>2. AnswerInv'
    BY <1>2, <1>5 DEF AnswerInv, Consented
  <2>3. TargetInv'
    BY <1>1, <1>2, <1>5, SameGeometry DEF Inv, TargetInv
  <2> QED BY <1>1, <1>5, <2>1, <2>2, <2>3, MoveKeeps DEF Before
<1> QED BY <1>1, <1>4, <1>5, PromptAnswered

LEMMA PrepareKeeps == Inv /\ Prepare => Inv'
<1> SUFFICES ASSUME Inv, Prepare PROVE Inv'
  OBVIOUS
<1>1. /\ pc = "prepare"
      /\ UNCHANGED <<source, media, answer, target, sourceLba, targetLba, buffer, content, flushed>>
  BY DEF Prepare
<1>2. CASE Leave("failed") /\ chunk' = chunk /\ remaining' = remaining
  <2>1. Typing'
    BY <1>1, <1>2 DEF Inv, Typing, answer, Leave
  <2> QED BY <1>1, <1>2, <2>1, LeaveKeeps DEF answer
<1>3. CASE /\ source.block # 0 /\ chunk' \in CommonChunks
           /\ remaining' = SourceBytes /\ pc' = "read" /\ report' = report
  <2>1. PICK d \in target : TRUE
    BY <1>1 DEF Inv, TargetInv
  <2>2. /\ d \in Disk /\ target = {d} /\ Candidates = {d}
        /\ TargetBlock \in Nat \ {0} /\ SourceBytes \in Nat /\ SourceBytes % TargetBlock = 0
    BY <2>1, TheTarget
  <2>3. source.block \in Nat \ {0} /\ source.blocks \in Nat
    BY <1>3, MediaType DEF Inv, Typing
  <2>4. chunk' \in Nat \ {0} /\ chunk' % source.block = 0 /\ chunk' % TargetBlock = 0
    <3>1. PICK k \in 0..MaxChunk : chunk' = Chunk + k * source.block
      BY <1>3 DEF CommonChunks
    <3>2. k * source.block \in Nat
      BY <2>3, <3>1, InstallAssumption
    <3> QED BY <1>3, <3>1, <3>2, InstallAssumption DEF CommonChunks
  <2>5. SourceBytes % source.block = 0
    <3>1. SourceBytes = source.blocks * source.block
      BY <2>3 DEF SourceBytes, Size
    <3> QED BY <2>3, <3>1, MultipleIsWhole
  <2>6. SourceBytes' = SourceBytes /\ TargetBlock' = TargetBlock /\ Candidates' = Candidates
    BY <1>1, SameGeometry
  <2>7. Typing'
    BY <1>1, <1>3, <2>2, <2>4 DEF Inv, Typing, answer
  <2>8. AnswerInv' /\ TargetInv' /\ ReportInv'
    BY <1>1, <1>3, <2>6 DEF Inv, AnswerInv, TargetInv, ReportInv, CompleteMeansInstalled, answer, Consented
  <2>9. CopyInv'
    <3>1. sourceLba' = 0 /\ targetLba' = 0
      BY <1>1 DEF Inv, CopyInv, Before
    <3>2. sourceLba' * source.block = 0 /\ targetLba' * TargetBlock = 0
      BY <2>2, <2>3, <3>1
    <3>3. /\ remaining' <= SourceBytes'
          /\ sourceLba' * source'.block = SourceBytes' - remaining'
          /\ targetLba' * TargetBlock' = SourceBytes' - remaining'
      BY <1>1, <1>3, <2>2, <2>6, <3>2
    <3>4. /\ source'.block # 0 /\ chunk' # 0
          /\ chunk' % source'.block = 0 /\ chunk' % TargetBlock' = 0
          /\ remaining' % source'.block = 0 /\ remaining' % TargetBlock' = 0
      BY <1>1, <1>3, <2>2, <2>4, <2>5, <2>6
    <3> QED BY <1>3, <3>3, <3>4 DEF CopyInv, Before, Copying
  <2>10. PrefixCopied'
    <3>1. content'[d] = [b \in 0..(Size(media'[d]) - 1) |-> IF b < 0 THEN b ELSE Old]
      BY <1>1, <2>2, BlankHolds DEF Inv, ContentInv, Before, Holds
    <3>2. 0 \in 0..SourceBytes' /\ 0 = SourceBytes' - remaining'
      BY <1>3, <2>2, <2>6
    <3> QED BY <1>1, <2>2, <3>1, <3>2 DEF PrefixCopied
  <2>11. ContentInv'
    BY <1>1, <1>3, <2>10 DEF Inv, ContentInv, Before, Consented, answer
  <2> QED BY <2>7, <2>8, <2>9, <2>11 DEF Inv
<1> QED BY <1>2, <1>3 DEF Prepare

(* While the copy runs, the disk holds what has been copied. *)
LEMMA CopiedSoFar ==
  ASSUME Inv, Copying, NEW d \in target
  PROVE  Holds(d, SourceBytes - remaining)
BY DEF Inv, ContentInv, PrefixCopied, Holds, Copying

LEMMA ReadKeeps == Inv /\ Read => Inv'
<1> SUFFICES ASSUME Inv, Read PROVE Inv'
  OBVIOUS
<1>1. /\ pc = "read" /\ remaining # 0
      /\ UNCHANGED <<source, media, answer, target, chunk, sourceLba, targetLba, remaining, content, flushed>>
  BY DEF Read
<1>2. CASE Leave("failed") /\ buffer' = buffer
  <2>1. Typing'
    BY <1>1, <1>2 DEF Inv, Typing, answer, Leave
  <2> QED BY <1>1, <1>2, <2>1, LeaveKeeps DEF answer
<1>3. CASE /\ buffer' = [i \in 0..(Bytes - 1) |-> sourceLba * source.block + i]
           /\ pc' = "write" /\ report' = report
  <2>1. SourceBytes' = SourceBytes /\ TargetBlock' = TargetBlock /\ Candidates' = Candidates /\ Bytes' = Bytes
    BY <1>1, SameGeometry DEF Bytes
  <2>2. Typing'
    BY <1>1, <1>3 DEF Inv, Typing, answer
  <2>3. AnswerInv' /\ TargetInv' /\ ReportInv'
    BY <1>1, <1>3, <2>1 DEF Inv, AnswerInv, TargetInv, ReportInv, CompleteMeansInstalled, answer, Consented
  <2>4. CopyInv'
    <3>1. sourceLba * source.block = SourceBytes - remaining
      BY <1>1 DEF Inv, CopyInv, Copying
    <3>2. buffer' = [i \in 0..(Bytes' - 1) |-> (SourceBytes' - remaining') + i]
      BY <1>1, <1>3, <2>1, <3>1
    <3> QED BY <1>1, <1>3, <2>1, <3>2 DEF Inv, CopyInv, Before, Copying
  <2>5. PrefixCopied'
    BY <1>1, <1>3, <2>1 DEF Inv, ContentInv, PrefixCopied
  <2>6. ContentInv'
    BY <1>1, <1>3, <2>5 DEF Inv, ContentInv, Before, Consented, answer
  <2> QED BY <2>2, <2>3, <2>4, <2>6 DEF Inv
<1> QED BY <1>2, <1>3 DEF Read

(* n bytes of the buffer put to the disk are the next n of the medium, in  *)
(* their place; no other disk is touched.                                  *)
LEMMA PutNext ==
  ASSUME Inv, pc = "write", UNCHANGED <<source, media, target>>,
         NEW n \in 0..Bytes, Put(n), NEW d \in target
  PROVE  /\ content'[d] = [b \in 0..(Size(media'[d]) - 1) |->
                             IF b < SourceBytes - remaining + n THEN b ELSE Old]
         /\ \A e \in Disk \ {d} : content'[e] = content[e]
<1> DEFINE at == SourceBytes - remaining
           dom == 0..(Size(media[d]) - 1)
<1>1. Copying
  BY DEF Copying
<1>2. d \in Disk /\ target = {d} /\ SourceBytes \in Nat /\ Size(media[d]) \in Nat
  BY TheTarget
<1>3. Bytes \in Nat /\ Bytes <= remaining /\ remaining \in Nat /\ remaining <= SourceBytes
  BY <1>1, OneTurn DEF Inv, Typing, CopyInv
<1>4. at \in Nat /\ n \in Nat /\ n <= Bytes
  BY <1>2, <1>3
<1>5. targetLba * TargetBlock = at
  BY <1>1 DEF Inv, CopyInv
<1>6. content[d] = [b \in dom |-> IF b < at THEN b ELSE Old]
  BY <1>1, CopiedSoFar DEF Holds
<1>7. buffer = [i \in 0..(Bytes - 1) |-> at + i]
  BY DEF Inv, CopyInv
<1> HIDE DEF at
<1>8. content' = [e \in Disk |->
        IF e \in target
        THEN [b \in DOMAIN content[e] |->
                IF b \in at..(at + n - 1) THEN buffer[b - at] ELSE content[e][b]]
        ELSE content[e]]
  BY <1>5 DEF Put
<1>9. content'[d] = [b \in dom |-> IF b \in at..(at + n - 1) THEN buffer[b - at] ELSE content[d][b]]
  BY <1>2, <1>6, <1>8
<1>10. ASSUME NEW b \in dom
       PROVE  (IF b \in at..(at + n - 1) THEN buffer[b - at] ELSE content[d][b])
                = (IF b < at + n THEN b ELSE Old)
  <2>1. b \in Int /\ b >= 0
    BY <1>2
  <2>2. CASE b \in at..(at + n - 1)
    <3>1. b - at \in 0..(Bytes - 1)
      BY <1>3, <1>4, <2>1, <2>2
    <3>2. buffer[b - at] = at + (b - at)
      BY <1>7, <3>1
    <3> QED BY <1>4, <2>1, <2>2, <3>2
  <2>3. CASE ~(b \in at..(at + n - 1))
    <3>1. content[d][b] = IF b < at THEN b ELSE Old
      BY <1>6
    <3> QED BY <1>4, <2>1, <2>3, <3>1
  <2> QED BY <2>2, <2>3
<1>11. content'[d] = [b \in dom |-> IF b < at + n THEN b ELSE Old]
  BY <1>9, <1>10
<1> QED BY <1>2, <1>8, <1>11 DEF at

LEMMA WriteKeeps == Inv /\ Write => Inv'
<1> SUFFICES ASSUME Inv, Write PROVE Inv'
  OBVIOUS
<1>1. pc = "write" /\ UNCHANGED <<source, media, answer, target, chunk, buffer>>
  BY DEF Write
<1>2. PICK d \in target : TRUE
  BY <1>1 DEF Inv, TargetInv
<1>3. /\ d \in Disk /\ target = {d} /\ Candidates = {d}
      /\ TargetBlock \in Nat \ {0} /\ SourceBytes \in Nat
  BY <1>2, TheTarget
<1>4. /\ Bytes \in Nat /\ Bytes <= remaining
      /\ Bytes % source.block = 0 /\ Bytes % TargetBlock = 0
  BY <1>1, OneTurn DEF Copying
<1>5. /\ remaining \in Nat /\ remaining <= SourceBytes
      /\ remaining % source.block = 0 /\ remaining % TargetBlock = 0
      /\ sourceLba * source.block = SourceBytes - remaining
      /\ targetLba * TargetBlock = SourceBytes - remaining
      /\ sourceLba \in Nat /\ targetLba \in Nat
      /\ chunk # 0 /\ chunk % source.block = 0 /\ chunk % TargetBlock = 0
  BY <1>1 DEF Inv, Typing, CopyInv, Copying
<1>6. source.block \in Nat \ {0}
  BY <1>1, MediaType DEF Inv, Typing, CopyInv, Copying
<1>7. SourceBytes' = SourceBytes /\ TargetBlock' = TargetBlock /\ Candidates' = Candidates
  BY <1>1, SameGeometry
<1>8. \A e \in Disk \ {d} : content[e] = Blank(media[e])
  BY <1>3 DEF Inv, ContentInv
<1>9. Consented /\ Consented'
  BY <1>1 DEF Inv, AnswerInv, Consented, answer
<1>10. CASE /\ Put(Bytes)
            /\ sourceLba' = sourceLba + Bytes \div source.block
            /\ targetLba' = targetLba + Bytes \div TargetBlock
            /\ remaining' = remaining - Bytes
            /\ pc' = "read" /\ report' = report
  <2>1. /\ sourceLba' \in Nat /\ sourceLba' * source.block = sourceLba * source.block + Bytes
        /\ targetLba' \in Nat /\ targetLba' * TargetBlock = targetLba * TargetBlock + Bytes
    BY <1>3, <1>4, <1>5, <1>6, <1>10, NextBlock
  <2>2. remaining' % source.block = 0 /\ remaining' % TargetBlock = 0
    BY <1>3, <1>4, <1>5, <1>6, <1>10, WholeDifference
  <2>3. remaining' \in Nat /\ remaining' <= SourceBytes
    BY <1>3, <1>4, <1>5, <1>10
  <2>4. flushed' = FALSE
    BY <1>10 DEF Put
  <2>5. Typing'
    BY <1>1, <1>10, <2>1, <2>3, <2>4 DEF Inv, Typing, answer
  <2>6. AnswerInv' /\ TargetInv' /\ ReportInv'
    BY <1>1, <1>7, <1>9, <1>10 DEF Inv, AnswerInv, TargetInv, ReportInv, CompleteMeansInstalled
  <2>7. /\ sourceLba' * source.block = SourceBytes - remaining'
        /\ targetLba' * TargetBlock = SourceBytes - remaining'
    <3> DEFINE sa == sourceLba' * source.block
               ta == targetLba' * TargetBlock
    <3>1. sa = SourceBytes - remaining + Bytes /\ ta = SourceBytes - remaining + Bytes
      BY <1>5, <2>1
    <3> HIDE DEF sa, ta
    <3>2. sa = SourceBytes - remaining' /\ ta = SourceBytes - remaining'
      BY <1>3, <1>4, <1>5, <1>10, <3>1
    <3> QED BY <3>2 DEF sa, ta
  <2>8. CopyInv'
    BY <1>1, <1>5, <1>6, <1>7, <1>10, <2>2, <2>3, <2>7 DEF CopyInv, Before, Copying
  <2>9. /\ content'[d] = [b \in 0..(Size(media'[d]) - 1) |->
                            IF b < SourceBytes - remaining + Bytes THEN b ELSE Old]
        /\ \A e \in Disk \ {d} : content'[e] = content[e]
    BY <1>1, <1>2, <1>4, <1>10, PutNext
  <2>10. /\ SourceBytes - remaining + Bytes = SourceBytes' - remaining'
         /\ SourceBytes' - remaining' \in 0..SourceBytes'
    BY <1>3, <1>4, <1>5, <1>7, <1>10, <2>3
  <2>11. PrefixCopied'
    <3> DEFINE n == SourceBytes' - remaining'
    <3>1. /\ n \in 0..SourceBytes' /\ n = SourceBytes' - remaining'
          /\ content'[d] = [b \in 0..(Size(media'[d]) - 1) |-> IF b < n THEN b ELSE Old]
      BY <2>9, <2>10
    <3> HIDE DEF n
    <3> QED BY <1>1, <1>3, <3>1 DEF PrefixCopied
  <2>12. ContentInv'
    BY <1>1, <1>3, <1>8, <1>9, <1>10, <2>9, <2>11 DEF ContentInv, Before
  <2> QED BY <2>5, <2>6, <2>8, <2>12 DEF Inv
<1>11. CASE /\ \E n \in 0..Bytes : Put(n)
            /\ Leave("failed")
            /\ UNCHANGED <<sourceLba, targetLba, remaining>>
  <2>1. PICK n \in 0..Bytes : Put(n)
    BY <1>11
  <2>2. pc' = "live" /\ report' = "failed" /\ flushed' = FALSE
    BY <1>11, <2>1 DEF Leave, Put
  <2>3. Typing'
    BY <1>1, <1>11, <2>2 DEF Inv, Typing, answer
  <2>4. AnswerInv' /\ TargetInv' /\ ReportInv' /\ CopyInv'
    BY <1>1, <1>7, <2>2 DEF Inv, AnswerInv, TargetInv, ReportInv, CompleteMeansInstalled, CopyInv, Before, Copying
  <2>5. /\ content'[d] = [b \in 0..(Size(media'[d]) - 1) |->
                            IF b < SourceBytes - remaining + n THEN b ELSE Old]
        /\ \A e \in Disk \ {d} : content'[e] = content[e]
    BY <1>1, <1>2, <2>1, PutNext
  <2>6. SourceBytes - remaining + n \in 0..SourceBytes'
    BY <1>3, <1>4, <1>5, <1>7
  <2>7. PrefixCopied'
    BY <1>1, <1>3, <2>2, <2>5, <2>6 DEF PrefixCopied
  <2>8. ContentInv'
    BY <1>1, <1>3, <1>8, <1>9, <2>2, <2>5, <2>7 DEF ContentInv, Before
  <2> QED BY <2>3, <2>4, <2>8 DEF Inv
<1> QED BY <1>10, <1>11 DEF Write

LEMMA FlushKeeps == Inv /\ Flush => Inv'
<1> SUFFICES ASSUME Inv, Flush PROVE Inv'
  OBVIOUS
<1>1. /\ pc = "read" /\ remaining = 0
      /\ UNCHANGED <<source, media, answer, target, copy, content>>
  BY DEF Flush
<1>2. CASE Leave("failed") /\ flushed' = flushed
  <2>1. Typing'
    BY <1>1, <1>2 DEF Inv, Typing, answer, copy, Leave
  <2> QED BY <1>1, <1>2, <2>1, LeaveKeeps DEF answer
<1>3. CASE flushed' = TRUE /\ Leave("complete")
  <2>1. pc' = "live" /\ report' = "complete"
    BY <1>3 DEF Leave
  <2>2. PICK d \in target : TRUE
    BY <1>1 DEF Inv, TargetInv
  <2>3. SourceBytes' = SourceBytes /\ Candidates' = Candidates
    BY <1>1, SameGeometry
  <2>4. /\ d \in Disk /\ target = {d} /\ SourceBytes \in Nat
        /\ Size(media[d]) \in Nat /\ SourceBytes <= Size(media[d])
    BY <2>2, TheTarget
  <2>5. content[d] = [b \in 0..(Size(media[d]) - 1) |-> IF b < SourceBytes THEN b ELSE Old]
    BY <1>1, <2>2, <2>4, CopiedSoFar DEF Holds, Copying
  <2>6. \A b \in 0..(SourceBytes - 1) : content[d][b] = b
    BY <2>4, <2>5
  <2>7. ReportInv'
    BY <1>1, <1>3, <2>1, <2>2, <2>3, <2>6 DEF ReportInv, CompleteMeansInstalled
  <2>8. Typing'
    BY <1>1, <1>3, <2>1 DEF Inv, Typing, answer, copy
  <2>9. AnswerInv' /\ TargetInv' /\ CopyInv'
    BY <1>1, <2>1, <2>3 DEF Inv, AnswerInv, TargetInv, CopyInv, Before, Copying
  <2>10. PrefixCopied'
    BY <1>1, <2>1, <2>3 DEF Inv, ContentInv, PrefixCopied
  <2>11. ContentInv'
    BY <1>1, <2>1, <2>10 DEF Inv, ContentInv, Before, Consented, answer
  <2> QED BY <2>7, <2>8, <2>9, <2>11 DEF Inv
<1> QED BY <1>2, <1>3 DEF Flush

(* A key typed, and a step of something else. *)
LEMMA TypeKeeps ==
  ASSUME Inv, \/ \E k \in Key : Type(k)
              \/ UNCHANGED vars
  PROVE  Inv'
<1>1. UNCHANGED <<pc, source, media, answers, target, copy, content, flushed, report>>
  BY DEF Type, vars, answer
<1>2. keys' \in Seq([key : Key, warned : BOOLEAN]) /\ typed' \in Nat
  <2>1. CASE UNCHANGED vars
    BY <2>1 DEF Inv, Typing, vars, answer
  <2>2. ASSUME NEW k \in Key, Type(k)
        PROVE  keys' \in Seq([key : Key, warned : BOOLEAN]) /\ typed' \in Nat
    <3>1. [key |-> k, warned |-> Warned] \in [key : Key, warned : BOOLEAN]
      BY DEF Warned
    <3>2. keys \in Seq([key : Key, warned : BOOLEAN]) /\ typed \in Nat
      BY DEF Inv, Typing
    <3> QED BY <2>2, <3>1, <3>2, AppendProperties DEF Type
  <2> QED BY <2>1, <2>2
<1>3. SourceBytes' = SourceBytes /\ TargetBlock' = TargetBlock /\ Candidates' = Candidates /\ Bytes' = Bytes
  BY <1>1, SameGeometry DEF Bytes, copy
<1>4. Typing'
  BY <1>1, <1>2 DEF Inv, Typing, copy
<1>5. AnswerInv' /\ TargetInv' /\ ReportInv'
  BY <1>1, <1>3 DEF Inv, AnswerInv, TargetInv, ReportInv, CompleteMeansInstalled, Consented
<1>6. CopyInv'
  BY <1>1, <1>3 DEF Inv, CopyInv, Before, Copying, copy
<1>7. ContentInv'
  BY <1>1, <1>3 DEF Inv, ContentInv, PrefixCopied, Before, Consented, copy
<1> QED BY <1>4, <1>5, <1>6, <1>7 DEF Inv

LEMMA Invariance == Spec => []Inv
<1>1. Inv /\ [Next]_vars => Inv'
  BY DetectKeeps, OfferKeeps, FindKeeps, ConfirmKeeps, PrepareKeeps, ReadKeeps, WriteKeeps,
     FlushKeeps, TypeKeeps DEF Next, Installer, Finished
<1> QED BY <1>1, InitOK, PTL DEF Spec

(* The counts of the copy never leave the natural numbers, and the disks   *)
(* keep their size (copy_install_media in boot/main.c).                    *)
THEOREM TypeCorrect == Spec => []TypeOK
<1>1. Inv => TypeOK
  <2> SUFFICES ASSUME Inv, NEW d \in Disk
               PROVE  content[d] \in [0..(Size(media[d]) - 1) -> Nat \cup {Old}]
    BY DEF Inv, Typing, TypeOK
  <2>1. Size(media[d]) \in Nat
    BY MediaType DEF Inv, Typing
  <2>2. PICK n \in Int : Holds(d, n)
    <3>1. CASE content[d] = Blank(media[d])
      BY <3>1, BlankHolds DEF Inv
    <3>2. CASE d \in target
      <4>1. SourceBytes \in Nat
        BY <3>2, TheTarget
      <4>2. PICK n \in 0..SourceBytes : Holds(d, n)
        BY <3>2 DEF Inv, ContentInv, PrefixCopied, Holds
      <4> QED BY <4>1, <4>2
    <3> QED BY <3>1, <3>2 DEF Inv, ContentInv
  <2>3. \A b \in 0..(Size(media[d]) - 1) : (IF b < n THEN b ELSE Old) \in Nat \cup {Old}
    BY <2>1
  <2> QED BY <2>2, <2>3 DEF Holds
<1> QED BY <1>1, Invariance, PTL

(* However many disks there are, and whatever is typed when, only the one  *)
(* disk that is suitable is ever written, and only after both answers      *)
(* (offer_optical_install in boot/main.c).                                 *)
THEOREM Consent == Spec => []OnlyConsentedErase
<1>1. Inv => OnlyConsentedErase
  <2> SUFFICES ASSUME Inv, NEW d \in Disk, content[d] # Blank(media[d])
               PROVE  /\ Candidates = {d}
                      /\ [i \in 1..Len(answers) |-> answers[i].key] = <<"I", "Y">>
    BY DEF OnlyConsentedErase
  <2>1. d \in target /\ Consented
    BY DEF Inv, ContentInv
  <2>2. Candidates = {d}
    BY <2>1, TheTarget
  <2>3. [i \in 1..Len(answers) |-> answers[i].key] = <<"I", "Y">>
    BY <2>1 DEF Consented
  <2> QED BY <2>2, <2>3
<1> QED BY <1>1, Invariance, PTL

(* Whatever the block sizes of the two media and the size of a chunk, and  *)
(* wherever the copy stops, the disk holds a beginning of the medium in    *)
(* place and nothing else is overwritten (copy_install_media).             *)
THEOREM Prefix == Spec => []PrefixCopied
<1>1. Inv => PrefixCopied
  BY DEF Inv, ContentInv
<1> QED BY <1>1, Invariance, PTL

(* "Install complete" is only printed when every byte of the medium is on  *)
(* the disk and flushed.                                                   *)
THEOREM Complete == Spec => []CompleteMeansInstalled
<1>1. Inv => CompleteMeansInstalled
  BY DEF Inv, ReportInv
<1> QED BY <1>1, Invariance, PTL
-----------------------------------------------------------------------------
(* Every step of the installer, for any media and any chunk size, brings   *)
(* the live boot nearer by a natural number: the offer is made once, and   *)
(* the loop of copy_install_media (boot/main.c) has no empty pass and does *)
(* not run below zero.                                                     *)
THEOREM InstallProgress == Spec => InstallAdvances
<1>1. Inv /\ Inv' /\ [Next]_vars
        => [typed' = typed => StepsLeft' \in Nat /\ StepsLeft' < StepsLeft]_vars
  <2>0. SUFFICES ASSUME Inv, Inv', Next, typed' = typed, ~UNCHANGED vars
                 PROVE  StepsLeft' \in Nat /\ StepsLeft' < StepsLeft
    OBVIOUS
  <2>1. source \in SourceMedia /\ remaining \in Nat /\ remaining' \in Nat
    BY <2>0 DEF Inv, Typing
  <2>2. SourceBytes \in Nat
    BY <2>1, MediaType DEF SourceBytes
  <2>3. UNCHANGED source => SourceBytes' = SourceBytes
    BY DEF SourceBytes
  <2>4. pc = "write" => remaining # 0
    BY <2>0 DEF Inv, CopyInv
  <2> HIDE DEF SourceBytes
  <2>5. CASE pc # "live" /\ pc' = "live"
    <3>1. StepsLeft' = 0
      BY <2>5 DEF StepsLeft
    <3>2. StepsLeft \in Nat /\ StepsLeft > 0
      BY <2>0, <2>1, <2>2, <2>4, <2>5 DEF StepsLeft, Inv, Typing
    <3> QED BY <3>1, <3>2
  <2>6. CASE Detect /\ pc' = "offer"
    BY <2>2, <2>3, <2>6 DEF Detect, StepsLeft
  <2>7. CASE Offer /\ pc' = "find"
    BY <2>2, <2>3, <2>7 DEF Offer, StepsLeft
  <2>8. CASE Find /\ pc' = "confirm"
    BY <2>2, <2>3, <2>8 DEF Find, StepsLeft
  <2>9. CASE Confirm /\ pc' = "prepare"
    BY <2>2, <2>3, <2>9 DEF Confirm, StepsLeft
  <2>10. CASE Prepare /\ pc' = "read"
    <3>1. pc = "prepare" /\ remaining' = SourceBytes
      BY <2>10 DEF Prepare, Leave
    <3> QED BY <2>2, <2>10, <3>1 DEF StepsLeft
  <2>11. CASE Read /\ pc' = "write"
    <3>1. pc = "read" /\ remaining' = remaining
      BY <2>11 DEF Read
    <3> QED BY <2>1, <2>11, <3>1 DEF StepsLeft
  <2>12. CASE Write /\ pc' = "read"
    <3>1. pc = "write" /\ remaining' = remaining - Bytes
      BY <2>12 DEF Write, Leave
    <3>2. Bytes \in Nat /\ Bytes # 0
      BY <2>0, <2>4, <3>1, OneTurn DEF Copying
    <3> QED BY <2>1, <2>12, <3>1, <3>2 DEF StepsLeft
  <2>13. ~(\E k \in Key : Type(k)) /\ ~Finished
    <3>1. typed \in Nat
      BY <2>0 DEF Inv, Typing
    <3>2. typed' # typed + 1
      BY <2>0, <3>1
    <3>3. ASSUME NEW k \in Key PROVE ~Type(k)
      BY <3>2 DEF Type
    <3>4. ~Finished
      BY <2>0 DEF Finished
    <3> QED BY <3>3, <3>4
  <2>14. /\ Detect => pc = "detect" /\ pc' \in {"offer", "live"}
         /\ Offer => pc = "offer" /\ pc' \in {"find", "live"}
         /\ Find => pc = "find" /\ pc' \in {"confirm", "live"}
         /\ Confirm => pc = "confirm" /\ pc' \in {"prepare", "live"}
         /\ Prepare => pc = "prepare" /\ pc' \in {"read", "live"}
         /\ Read => pc = "read" /\ pc' \in {"write", "live"}
         /\ Write => pc = "write" /\ pc' \in {"read", "live"}
         /\ Flush => pc = "read" /\ pc' = "live"
    BY DEF Detect, Offer, Find, Confirm, Prepare, Read, Write, Flush, Prompt, Leave
  <2> QED BY <2>0, <2>5, <2>6, <2>7, <2>8, <2>9, <2>10, <2>11, <2>12, <2>13, <2>14 DEF Next, Installer
<1> QED BY <1>1, Invariance, PTL DEF Spec, InstallAdvances
=============================================================================
