------------------------- MODULE SpoolCalls_proofs -------------------------
(***************************************************************************)
(* Proofs about SpoolCalls, for every set of bytes, every threshold, every *)
(* set of chunks and every bound on what is offered.                       *)
(***************************************************************************)
EXTENDS SpoolCalls, SequenceTheorems, TLAPS

(* The threshold in force is positive, whatever WithSpoolThreshold gave.   *)
LEMMA ThresholdPositive == threshold \in Nat \ {0}
BY SpoolAssumption DEF threshold

(* A prefix of a chunk is a chunk of the length asked for.                 *)
LEMMA PrefixProperties ==
  ASSUME NEW p \in Seq(Byte), NEW k \in 0..Len(p)
  PROVE  Prefix(p, k) \in Seq(Byte) /\ Len(Prefix(p, k)) = k
<1>1. \A i \in 1..k : p[i] \in Byte
  BY ElementOfSeq, LenProperties
<1>2. k \in Int
  BY LenProperties
<1> QED
  BY <1>1, <1>2, SubSeqProperties, SMT DEF Prefix

(* The whole chunk is its own longest prefix.                              *)
LEMMA PrefixFull ==
  ASSUME NEW p \in Seq(Byte)
  PROVE  Prefix(p, Len(p)) = p
BY SubSeqFull DEF Prefix

(* Taking nothing of a chunk changes nothing.                              *)
LEMMA PrefixNothing ==
  ASSUME NEW s \in Seq(Byte), NEW p
  PROVE  s \o Prefix(p, 0) = s
<1>1. Prefix(p, 0) = <<>>
  BY SubSeqEmpty DEF Prefix
<1> QED
  BY <1>1, ConcatEmptySeq

(* Writing at the end of the file appends.                                 *)
LEMMA WriteAtEnd ==
  ASSUME disk \in Seq(Byte), pos = Len(disk), NEW q \in Seq(Byte)
  PROVE  FileAfter(q) = disk \o q
<1>1. Prefix(disk, pos) = disk
  BY PrefixFull
<1>2. SubSeq(disk, pos + Len(q) + 1, Len(disk)) = <<>>
  <2>1. Len(disk) \in Nat /\ Len(q) \in Nat
    BY LenProperties
  <2> QED
    BY <2>1, SubSeqEmpty
<1>3. disk \o q \in Seq(Byte)
  BY ConcatProperties
<1> QED
  BY <1>1, <1>2, <1>3, ConcatEmptySeq DEF FileAfter

(* Wherever the offset is, a file holds bytes after a write, and no fewer  *)
(* than the offset and the write come to.                                  *)
LEMMA WriteAnywhere ==
  ASSUME disk \in Seq(Byte), pos \in 0..Len(disk), NEW q \in Seq(Byte)
  PROVE  FileAfter(q) \in Seq(Byte) /\ pos + Len(q) <= Len(FileAfter(q))
<1> DEFINE rest == SubSeq(disk, pos + Len(q) + 1, Len(disk))
<1>1. Len(disk) \in Nat /\ Len(q) \in Nat /\ pos \in Nat
  BY LenProperties
<1>2. Prefix(disk, pos) \in Seq(Byte) /\ Len(Prefix(disk, pos)) = pos
  BY PrefixProperties
<1>3. rest \in Seq(Byte) /\ Len(rest) \in Nat
  <2>1. \A i \in (pos + Len(q) + 1)..Len(disk) : disk[i] \in Byte
    BY <1>1, ElementOfSeq
  <2>2. rest \in Seq(Byte)
    BY <1>1, <2>1, SubSeqProperties
  <2> QED
    BY <2>2, LenProperties
<1>4. /\ Prefix(disk, pos) \o q \in Seq(Byte)
      /\ Len(Prefix(disk, pos) \o q) = pos + Len(q)
  BY <1>2, ConcatProperties
<1>5. /\ FileAfter(q) \in Seq(Byte)
      /\ Len(FileAfter(q)) = pos + Len(q) + Len(rest)
  BY <1>3, <1>4, ConcatProperties DEF FileAfter
<1> HIDE DEF rest
<1> QED
  BY <1>1, <1>3, <1>5

-----------------------------------------------------------------------------
(***************************************************************************)
(* The inductive invariant.  TypeOK and the safety properties do not tell  *)
(* where the offset of the file is, and it is the offset being at the end  *)
(* that makes the next write an append; nor that a spool without a file    *)
(* holds what was accepted even after a failed write, which is what a      *)
(* later write spills.                                                     *)
(***************************************************************************)
InMemory ==
  file = "nil" /\ phase # "closed" => buf = accepted /\ ~linked

OnDisk ==
  file = "open" /\ ~failed =>
    /\ disk = accepted
    /\ buf = <<>>
    /\ phase = "writing" => pos = Len(disk)

Counting ==
  /\ n = Len(accepted)
  /\ Len(accepted) <= Len(offered)

OnlyLargeSpill ==
  /\ Len(buf) <= threshold
  /\ linked => Len(offered) > threshold
  /\ file = "open" => linked

Closing ==
  phase = "closed" => file = "nil" /\ (~removeFailed => ~linked)

IInv == TypeOK /\ InMemory /\ OnDisk /\ Counting /\ OnlyLargeSpill /\ Closing

LEMMA InitIInv == Init => IInv
<1> SUFFICES ASSUME Init PROVE IInv
  OBVIOUS
<1>1. <<>> \in Seq(Byte) /\ Len(<<>>) = 0
  BY EmptySeq
<1>2. TypeOK
  <2>1. pos <= Len(disk) /\ pos \in Nat /\ n \in Nat
    BY <1>1 DEF Init, SpoolInit
  <2> QED
    BY <1>1, <2>1, Zenon DEF Init, SpoolInit, TypeOK, SpoolTypeOK
<1>3. Counting /\ OnlyLargeSpill
  BY <1>1, ThresholdPositive DEF Init, SpoolInit, Counting, OnlyLargeSpill
<1>4. InMemory /\ OnDisk /\ Closing
  BY DEF Init, SpoolInit, InMemory, OnDisk, Closing
<1> QED
  BY <1>2, <1>3, <1>4 DEF IInv

(***************************************************************************)
(* Each outcome of Write(p) preserves the invariant.                       *)
(***************************************************************************)
LEMMA OfferType ==
  ASSUME IInv, NEW p \in Seq(Byte), Offer(p)
  PROVE  /\ offered' \in Seq(Byte)
         /\ Len(offered') = Len(offered) + Len(p)
BY ConcatProperties DEF IInv, TypeOK, Offer

LEMMA ToBuffer ==
  ASSUME IInv, NEW p \in Seq(Byte), Write(p), WriteToBuffer(p)
  PROVE  IInv'
<1>1. /\ Len(p) \in Nat
      /\ Len(buf) \in Nat
      /\ Len(accepted) \in Nat
      /\ Len(offered) \in Nat
  BY LenProperties DEF IInv, TypeOK, SpoolTypeOK
<1>2. buf' \in Seq(Byte) /\ Len(buf') = Len(buf) + Len(p)
  BY ConcatProperties DEF IInv, TypeOK, SpoolTypeOK, WriteToBuffer
<1>3. accepted' \in Seq(Byte) /\ Len(accepted') = Len(accepted) + Len(p)
  BY ConcatProperties DEF IInv, TypeOK, Write
<1>4. TypeOK'
  BY <1>1, <1>2, <1>3, OfferType
     DEF IInv, TypeOK, SpoolTypeOK, WriteToBuffer, Write
<1>5. InMemory'
  BY DEF IInv, InMemory, WriteToBuffer, Write, Offer
<1>6. OnDisk'
  BY DEF WriteToBuffer, OnDisk
<1>7. Counting'
  BY <1>1, <1>3, OfferType DEF IInv, Counting, WriteToBuffer, Write
<1>8. OnlyLargeSpill'
  BY <1>1, <1>2, OfferType, ThresholdPositive
     DEF IInv, OnlyLargeSpill, WriteToBuffer, Write, Fits, threshold, Offer,
         InMemory
<1>9. Closing'
  BY DEF Closing, Write, Offer
<1> QED
  BY <1>4, <1>5, <1>6, <1>7, <1>8, <1>9 DEF IInv

(* What the next two lemmas need of a Write that reports k bytes of p.     *)
Took(p, k) ==
  /\ Offer(p)
  /\ accepted' = accepted \o Prefix(p, k)
  /\ failed' \in BOOLEAN
  /\ failed => failed'
  /\ UNCHANGED <<phase, removeFailed>>

LEMMA TookType ==
  ASSUME IInv, NEW p \in Seq(Byte), NEW k \in 0..Len(p), Took(p, k)
  PROVE  /\ accepted' \in Seq(Byte)
         /\ Len(accepted') = Len(accepted) + k
         /\ offered' \in Seq(Byte)
         /\ Len(offered') = Len(offered) + Len(p)
         /\ Len(p) \in Nat /\ Len(buf) \in Nat /\ Len(disk) \in Nat
         /\ Len(accepted) \in Nat /\ Len(offered) \in Nat /\ k \in Nat
<1>1. Prefix(p, k) \in Seq(Byte) /\ Len(Prefix(p, k)) = k
  BY PrefixProperties
<1>2. /\ Len(p) \in Nat /\ Len(buf) \in Nat /\ Len(disk) \in Nat
      /\ Len(accepted) \in Nat /\ Len(offered) \in Nat /\ k \in Nat
  BY LenProperties DEF IInv, TypeOK, SpoolTypeOK
<1>3. /\ accepted' \in Seq(Byte)
      /\ Len(accepted') = Len(accepted) + k
  <2>1. accepted \in Seq(Byte) /\ accepted' = accepted \o Prefix(p, k)
    BY DEF IInv, TypeOK, Took
  <2> QED
    BY <1>1, <2>1, ConcatProperties
<1> QED
  BY <1>2, <1>3, OfferType DEF Took

LEMMA Spilling ==
  ASSUME IInv, NEW p \in Seq(Byte), NEW k \in 0..Len(p), Took(p, k),
         SpillAndWrite(p, k)
  PROVE  IInv'
<1>1. Prefix(p, k) \in Seq(Byte) /\ Len(Prefix(p, k)) = k
  BY PrefixProperties
<1>2. disk' \in Seq(Byte) /\ Len(disk') = Len(buf) + k /\ pos' = Len(disk')
  <2>1. /\ buf \in Seq(Byte)
        /\ disk' = buf \o Prefix(p, k)
        /\ pos' = Len(buf) + k
    BY DEF IInv, TypeOK, SpoolTypeOK, SpillAndWrite
  <2> QED
    BY <1>1, <2>1, ConcatProperties
<1>3. buf' \in Seq(Byte) /\ Len(buf') = 0
  BY EmptySeq DEF SpillAndWrite
<1>4. TypeOK'
  <2>1. pos' <= Len(disk)' /\ pos' \in Nat /\ n' \in Nat
    BY <1>2, TookType DEF IInv, TypeOK, SpoolTypeOK, SpillAndWrite
  <2> QED
    BY <1>2, <1>3, <2>1, TookType, Zenon
       DEF IInv, TypeOK, SpoolTypeOK, SpillAndWrite, Took
<1>5. InMemory'
  BY DEF InMemory, SpillAndWrite
<1>6. OnDisk'
  <2>1. buf = accepted
    BY DEF IInv, InMemory, SpillAndWrite, Took, Offer
  <2> QED
    BY <1>2, <2>1 DEF OnDisk, SpillAndWrite, Took
<1>7. Counting'
  <2>1. n = Len(accepted) /\ Len(accepted) <= Len(offered) /\ n' = n + k
    BY DEF IInv, Counting, SpillAndWrite
  <2> QED
    BY <2>1, TookType DEF Counting
<1>8. OnlyLargeSpill'
  <2>1. buf = accepted /\ Len(accepted) <= Len(offered)
    BY DEF IInv, InMemory, Counting, SpillAndWrite, Took, Offer
  <2>2. Len(buf) + Len(p) > threshold
    BY TookType, ThresholdPositive DEF SpillAndWrite, Fits
  <2> QED
    BY <1>3, <2>1, <2>2, TookType, ThresholdPositive
       DEF OnlyLargeSpill, threshold, SpillAndWrite
<1>9. Closing'
  BY DEF Closing, Took, Offer
<1> QED
  BY <1>4, <1>5, <1>6, <1>7, <1>8, <1>9 DEF IInv

LEMMA Appending ==
  ASSUME IInv, NEW p \in Seq(Byte), NEW k \in 0..Len(p), Took(p, k),
         WriteToFile(p, k)
  PROVE  IInv'
<1> DEFINE q == Prefix(p, k)
<1>1. q \in Seq(Byte) /\ Len(q) = k
  BY PrefixProperties
<1>2. disk \in Seq(Byte) /\ pos \in 0..Len(disk)
  BY LenProperties DEF IInv, TypeOK, SpoolTypeOK
<1>3. disk' \in Seq(Byte) /\ pos' <= Len(disk')
  BY <1>1, <1>2, WriteAnywhere DEF WriteToFile
<1>4. TypeOK'
  <2>1. pos' <= Len(disk)' /\ pos' \in Nat /\ n' \in Nat
    BY <1>3, TookType DEF IInv, TypeOK, SpoolTypeOK, WriteToFile
  <2> QED
    BY <1>3, <2>1, TookType, Zenon
       DEF IInv, TypeOK, SpoolTypeOK, WriteToFile, Took
<1>5. InMemory'
  BY DEF InMemory, WriteToFile
<1>6. OnDisk'
  <2> SUFFICES ASSUME ~failed
               PROVE  disk' = accepted' /\ buf' = <<>> /\ pos' = Len(disk')
    BY DEF OnDisk, Took
  <2>1. disk = accepted /\ buf = <<>> /\ pos = Len(disk)
    BY DEF IInv, OnDisk, WriteToFile, Took, Offer
  <2>2. disk' = disk \o q
    BY <1>1, <1>2, <2>1, WriteAtEnd DEF WriteToFile
  <2>3. Len(disk') = Len(disk) + k
    BY <1>1, <1>2, <2>2, ConcatProperties
  <2> QED
    BY <2>1, <2>2, <2>3 DEF WriteToFile, Took
<1>7. Counting'
  <2>1. n = Len(accepted) /\ Len(accepted) <= Len(offered) /\ n' = n + k
    BY DEF IInv, Counting, WriteToFile
  <2> QED
    BY <2>1, TookType DEF Counting
<1>8. OnlyLargeSpill'
  BY TookType, ThresholdPositive
     DEF IInv, OnlyLargeSpill, WriteToFile, threshold
<1>9. Closing'
  BY DEF Closing, Took, Offer
<1> QED
  BY <1>4, <1>5, <1>6, <1>7, <1>8, <1>9 DEF IInv

LEMMA SpillBroken ==
  ASSUME IInv, NEW p \in Seq(Byte), Took(p, 0), failed',
         NEW j \in 0..Len(buf), SpillFails(p, j)
  PROVE  IInv'
<1>1. buf \in Seq(Byte) /\ buf = accepted /\ Len(accepted) <= Len(offered)
  BY DEF IInv, TypeOK, SpoolTypeOK, InMemory, Counting, SpillFails, Took, Offer
<1>2. disk' \in Seq(Byte) /\ Len(disk') = j /\ pos' = j /\ j \in Nat
  BY <1>1, PrefixProperties, LenProperties DEF SpillFails
<1>3. 0 \in 0..Len(p)
  BY LenProperties
<1>4. TypeOK'
  <2>1. pos' <= Len(disk)' /\ pos' \in Nat
    BY <1>2
  <2> QED
    BY <1>2, <1>3, <2>1, TookType, Zenon
       DEF IInv, TypeOK, SpoolTypeOK, SpillFails, Took
<1>5. InMemory' /\ OnDisk'
  BY DEF InMemory, OnDisk, SpillFails
<1>6. Counting'
  <2>1. n' = Len(accepted) /\ Len(accepted') = Len(accepted) + 0
    BY <1>3, TookType DEF IInv, Counting, SpillFails
  <2> QED
    BY <1>1, <1>3, <2>1, TookType DEF Counting
<1>7. OnlyLargeSpill'
  <2>1. Len(buf') <= threshold
    BY DEF IInv, OnlyLargeSpill, SpillFails, threshold
  <2>2. Len(buf) + Len(p) > threshold
    BY <1>3, TookType, ThresholdPositive DEF SpillFails, Fits
  <2> QED
    BY <1>1, <1>3, <2>1, <2>2, TookType, ThresholdPositive
       DEF OnlyLargeSpill, threshold, SpillFails
<1>8. Closing'
  BY DEF Closing, Took, Offer
<1> QED
  BY <1>4, <1>5, <1>6, <1>7, <1>8 DEF IInv

LEMMA NoTempFile ==
  ASSUME IInv, NEW p \in Seq(Byte), Took(p, 0), failed', CreateTempFails(p)
  PROVE  IInv'
<1>1. 0 \in 0..Len(p)
  BY LenProperties
<1>2. accepted' = accepted
  BY PrefixNothing DEF IInv, TypeOK, Took
<1>3. TypeOK'
  BY <1>1, TookType, Zenon
     DEF IInv, TypeOK, SpoolTypeOK, CreateTempFails, spoolVars, Took
<1>4. InMemory' /\ OnDisk' /\ Closing'
  BY <1>2
     DEF IInv, InMemory, OnDisk, Closing, CreateTempFails, spoolVars, Took, Offer
<1>5. Counting'
  BY <1>1, <1>2, TookType DEF IInv, Counting, CreateTempFails, spoolVars
<1>6. OnlyLargeSpill'
  BY <1>1, TookType, ThresholdPositive
     DEF IInv, OnlyLargeSpill, CreateTempFails, spoolVars, threshold
<1> QED
  BY <1>3, <1>4, <1>5, <1>6 DEF IInv

-----------------------------------------------------------------------------
(* Every step of the specification preserves the invariant.                *)
LEMMA WritePreserves ==
  ASSUME IInv, NEW p \in Chunk, Write(p)
  PROVE  IInv'
<1>1. p \in Seq(Byte) /\ Len(p) \in 0..Len(p)
  BY CallsAssumption, LenProperties
<1>2. Took(p, Len(p))
  BY <1>1, PrefixFull DEF Write, Took, IInv, TypeOK
<1>3. CASE WriteToBuffer(p)
  BY <1>1, <1>3, ToBuffer
<1>4. CASE SpillAndWrite(p, Len(p))
  BY <1>1, <1>2, <1>4, Spilling
<1>5. CASE WriteToFile(p, Len(p))
  BY <1>1, <1>2, <1>5, Appending
<1> QED
  BY <1>3, <1>4, <1>5 DEF Write, WriteSucceeds

LEMMA WriteErrorPreserves ==
  ASSUME IInv, NEW p \in Chunk, NEW k \in 0..Len(p), WriteError(p, k)
  PROVE  IInv'
<1>1. p \in Seq(Byte)
  BY CallsAssumption
<1>2. Took(p, k) /\ failed'
  BY DEF WriteError, Took
<1>3. CASE k = 0 /\ CreateTempFails(p)
  BY <1>1, <1>2, <1>3, NoTempFile
<1>4. CASE k = 0 /\ \E j \in 0..Len(buf) : SpillFails(p, j)
  BY <1>1, <1>2, <1>4, SpillBroken
<1>5. CASE SpillAndWrite(p, k)
  BY <1>1, <1>2, <1>5, Spilling
<1>6. CASE WriteToFile(p, k)
  BY <1>1, <1>2, <1>6, Appending
<1> QED
  BY <1>3, <1>4, <1>5, <1>6 DEF WriteError, WriteFails

LEMMA ReaderPreserves ==
  ASSUME IInv, Reader
  PROVE  IInv'
<1>1. TypeOK'
  <2>1. pos' <= Len(disk)' /\ pos' \in Nat
    BY LenProperties
       DEF IInv, TypeOK, SpoolTypeOK, Reader, ReaderSucceeds
  <2> QED
    BY <2>1, Zenon DEF IInv, TypeOK, SpoolTypeOK, Reader, ReaderSucceeds
<1>2. InMemory' /\ OnDisk' /\ Closing'
  BY DEF IInv, InMemory, OnDisk, Closing, Reader, ReaderSucceeds
<1>3. Counting' /\ OnlyLargeSpill'
  BY DEF IInv, Counting, OnlyLargeSpill, Reader, ReaderSucceeds, threshold
<1> QED
  BY <1>1, <1>2, <1>3 DEF IInv

LEMMA ClosePreserves ==
  ASSUME IInv, NEW removed \in BOOLEAN, Close(removed)
  PROVE  IInv'
<1>1. TypeOK'
  <2>1. linked' \in BOOLEAN /\ removeFailed' \in BOOLEAN
    BY Zenon DEF IInv, TypeOK, SpoolTypeOK, Close, SpoolClose
  <2>2. file' = "nil" /\ phase' = "closed"
    BY DEF Close, SpoolClose
  <2> QED
    BY <2>1, <2>2, Zenon DEF IInv, TypeOK, SpoolTypeOK, Close, SpoolClose
<1>2. InMemory' /\ OnDisk'
  BY DEF InMemory, OnDisk, Close, SpoolClose
<1>3. Closing'
  BY DEF IInv, InMemory, Closing, Close, SpoolClose
<1>4. Counting'
  BY DEF IInv, Counting, Close, SpoolClose
<1>5. OnlyLargeSpill'
  <2>1. linked' => linked
    BY DEF IInv, TypeOK, SpoolTypeOK, OnlyLargeSpill, Close, SpoolClose
  <2> QED
    BY <2>1 DEF IInv, OnlyLargeSpill, Close, SpoolClose, threshold
<1> QED
  BY <1>1, <1>2, <1>3, <1>4, <1>5 DEF IInv

LEMMA NextIInv == IInv /\ [Next]_vars => IInv'
<1> SUFFICES ASSUME IInv, [Next]_vars PROVE IInv'
  OBVIOUS
<1>1. ASSUME NEW p \in Chunk, Write(p) PROVE IInv'
  BY <1>1, WritePreserves
<1>2. ASSUME NEW p \in Chunk, NEW k \in 0..Len(p), WriteError(p, k) PROVE IInv'
  BY <1>2, WriteErrorPreserves
<1>3. CASE Reader
  BY <1>3, ReaderPreserves
<1>4. CASE ReaderError
  BY <1>4
     DEF ReaderError, ReaderFails, callVars, spoolVars, IInv, TypeOK,
         SpoolTypeOK, InMemory, OnDisk, Counting, OnlyLargeSpill, Closing,
         threshold
<1>5. ASSUME NEW removed \in BOOLEAN, Close(removed) PROVE IInv'
  BY <1>5, ClosePreserves
<1>6. CASE UNCHANGED vars
  BY <1>6
     DEF vars, callVars, spoolVars, IInv, TypeOK, SpoolTypeOK, InMemory,
         OnDisk, Counting, OnlyLargeSpill, Closing, threshold
<1> QED
  BY <1>1, <1>2, <1>3, <1>4, <1>5, <1>6 DEF Next

LEMMA Invariance == Spec => []IInv
BY InitIInv, NextIInv, PTL DEF Spec

LEMMA IInvImplies ==
  IInv => /\ ReaderSeesEverything
          /\ CountsWhatItTook
          /\ MemoryAndDisk
          /\ NoFileLeft
<1> SUFFICES ASSUME IInv
             PROVE  /\ ReaderSeesEverything
                    /\ CountsWhatItTook
                    /\ MemoryAndDisk
                    /\ NoFileLeft
  OBVIOUS
<1>1. file \in {"nil", "open"}
  BY DEF IInv, TypeOK, SpoolTypeOK
<1>2. ReaderSeesEverything
  BY <1>1 DEF IInv, InMemory, OnDisk, Counting, ReaderSeesEverything, Readable
<1>3. CountsWhatItTook
  BY DEF IInv, Counting, CountsWhatItTook
<1>4. MemoryAndDisk
  BY <1>1 DEF IInv, OnlyLargeSpill, OnDisk, MemoryAndDisk
<1>5. NoFileLeft
  BY DEF IInv, Closing, NoFileLeft
<1> QED
  BY <1>2, <1>3, <1>4, <1>5

-----------------------------------------------------------------------------
(* spool.go:24: the fields of a spool keep their types, and the offset of  *)
(* its file never lies past the end of it, whatever fails.                 *)
THEOREM TypeCorrect == Spec => []TypeOK
<1>1. IInv => TypeOK
  BY DEF IInv
<1> QED
  BY <1>1, Invariance, PTL

(* spool.go:71: a reader gets all that was written, in order, and size is  *)
(* its length, for every threshold and every split into chunks.            *)
THEOREM ReaderCorrect == Spec => []ReaderSeesEverything
BY Invariance, IInvImplies, PTL

(* spool.go:38: the count is what Write reported taking.                   *)
THEOREM CountCorrect == Spec => []CountsWhatItTook
BY Invariance, IInvImplies, PTL

(* ingest.go:77: nothing is on disk before the threshold is passed, and    *)
(* memory never holds more than the threshold.                             *)
THEOREM ThresholdHonoured == Spec => []MemoryAndDisk
BY Invariance, IInvImplies, PTL

(* spool.go:89: close leaves no temporary file behind.                     *)
THEOREM FileRemoved == Spec => []NoFileLeft
BY Invariance, IInvImplies, PTL

-----------------------------------------------------------------------------
(***************************************************************************)
(* Refinement.  Until an error a step of the spool is a step of the log:   *)
(* what a reader would get has grown by the chunk written, wherever it is. *)
(***************************************************************************)
LEMMA ReadableGrows ==
  ASSUME IInv, NEW p \in Chunk, Write(p), ~failed
  PROVE  Readable' = Readable \o p /\ n' = n + Len(p)
<1>1. IInv' /\ ~failed'
  BY WritePreserves DEF Write
<1>2. phase # "closed" /\ phase' # "closed"
  BY DEF Write, Offer
<1>3. Readable = accepted /\ n = Len(accepted)
  BY <1>2, IInvImplies DEF ReaderSeesEverything, CountsWhatItTook
<1>4. ReaderSeesEverything'
  <2>1. file' \in {"nil", "open"}
    BY <1>1 DEF IInv, TypeOK, SpoolTypeOK
  <2> QED
    BY <1>1, <2>1
       DEF IInv, InMemory, OnDisk, Counting, ReaderSeesEverything, Readable
<1>5. Readable' = accepted' /\ n' = Len(accepted')
  BY <1>1, <1>2, <1>4 DEF ReaderSeesEverything, IInv, Counting
<1>6. accepted' = accepted \o p
  BY DEF Write
<1>7. Len(accepted \o p) = Len(accepted) + Len(p)
  BY CallsAssumption, ConcatProperties DEF IInv, TypeOK
<1> QED
  BY <1>3, <1>5, <1>6, <1>7

LEMMA InitLog == Init => Log!Init
BY DEF Init, SpoolInit, Log!Init, Readable

LEMMA NextLog == IInv /\ [Next]_vars => [Log!Next]_(Log!vars)
<1> SUFFICES ASSUME IInv, [Next]_vars PROVE [Log!Next]_(Log!vars)
  OBVIOUS
<1>1. ASSUME NEW p \in Chunk, Write(p) PROVE [Log!Next]_(Log!vars)
  <2>1. phase = "writing" /\ phase' = "writing" /\ failed' = failed
    BY <1>1 DEF Write, Offer
  <2>2. CASE failed
    BY <2>1, <2>2 DEF Log!vars
  <2>3. CASE ~failed
    <3>1. Readable' = Readable \o p /\ n' = n + Len(p)
      BY <1>1, <2>3, ReadableGrows
    <3>2. Log!Extend(p)
      BY <2>1, <2>3, <3>1 DEF Log!Extend
    <3> QED
      BY <3>2 DEF Log!Next
  <2> QED
    BY <2>2, <2>3
<1>2. ASSUME NEW p \in Chunk, NEW k \in 0..Len(p), WriteError(p, k)
      PROVE  [Log!Next]_(Log!vars)
  <2>1. phase = "writing" /\ phase' = "writing" /\ failed'
    BY <1>2 DEF WriteError, Offer
  <2>2. CASE failed
    BY <2>1, <2>2, <1>2 DEF Log!vars, WriteError
  <2>3. CASE ~failed
    <3>1. Log!Break
      BY <1>2, <2>1, <2>3 DEF Log!Break, WriteError
    <3> QED
      BY <3>1 DEF Log!Next
  <2> QED
    BY <2>2, <2>3
<1>3. CASE Reader
  <2>1. Log!Seal
    BY <1>3 DEF Log!Seal, Reader, ReaderSucceeds, Readable
  <2> QED
    BY <2>1 DEF Log!Next
<1>4. CASE ReaderError
  BY <1>4 DEF ReaderError, ReaderFails, callVars, spoolVars, Log!vars, Readable
<1>5. ASSUME NEW removed \in BOOLEAN, Close(removed)
      PROVE  [Log!Next]_(Log!vars)
  <2>1. Log!Close
    BY <1>5 DEF Log!Close, Close
  <2> QED
    BY <2>1 DEF Log!Next
<1>6. CASE UNCHANGED vars
  BY <1>6 DEF vars, callVars, spoolVars, Log!vars, Readable
<1> QED
  BY <1>1, <1>2, <1>3, <1>4, <1>5, <1>6 DEF Next

(* spool.go:18: the spool is a log of bytes whatever its threshold: the    *)
(* move from memory to disk, and every failure, cannot be told from it.    *)
THEOREM Refinement == Spec => ImplementsByteLog
BY Invariance, InitLog, NextLog, PTL DEF Spec, ImplementsByteLog, Log!Spec
=============================================================================
