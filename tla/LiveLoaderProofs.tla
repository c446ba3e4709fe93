--------------------------- MODULE LiveLoaderProofs ---------------------------
(* What LoadData promises, for any files, faults and sizes of the channels.  *)
EXTENDS LiveLoader, SequenceTheorems, TLAPS

-----------------------------------------------------------------------------
(* The end of a load.  procG waits for both goroutines of every file, so     *)
(* when nqch is closed nobody is left to send; the error that procG has by   *)
(* then is with the goroutine that reports it or with rootG.                 *)
Closing ==
    /\ main # "wait" => \A f \in File : Processed(f)
    /\ nqchClosed <=> main \in {"mutations", "nil", "error"}
    /\ main # "wait" /\ procErr => reporting \/ rootErr
    /\ main = "nil" => mutator # "run" /\ ~rootErr /\ ~reporting
    /\ mutator = "failed" => rootErr
    /\ mutator # "run" /\ ~rootErr => nqch = << >> /\ nqchClosed

(* A goroutine of a file takes no step after the file is processed, and      *)
(* touches nothing of the end of the load.                                   *)
LEMMA FileStep ==
    ASSUME NEW f \in File, ParserStep(f) \/ MapperStep(f)
    PROVE  /\ ~Processed(f)
           /\ UNCHANGED <<nqchClosed, mutator, applied, rootErr, cancelled, reporting, main>>
<1>1. CASE ParserStep(f)
    BY <1>1 DEF ParserStep, Start, UnknownFormat, Chunk, Parse, Flush, ParserFails, FileOnly,
       Processed
<1>2. CASE Take(f) \/ Lookup(f) \/ Assign(f) \/ Drained(f)
    BY <1>2 DEF Take, Lookup, Assign, Drained, MapperFails, LeaseUID, Buffer, FileOnly, Processed
<1>3. CASE Drain(f)
    BY <1>3 DEF Drain, Processed
<1> QED BY <1>1, <1>2, <1>3 DEF MapperStep

LEMMA ClosingInitially == Init => Closing
BY DEF Init, Closing

LEMMA ClosingStep == Closing /\ [Next]_vars => Closing'
<1> SUFFICES ASSUME Closing, [Next]_vars PROVE Closing'
    OBVIOUS
<1>1. ASSUME NEW f \in File, ParserStep(f) \/ MapperStep(f) PROVE Closing'
    <2>1. /\ ~Processed(f)
          /\ UNCHANGED <<nqchClosed, mutator, applied, rootErr, cancelled, reporting, main>>
        BY <1>1, FileStep
    <2>2. main = "wait"
        BY <2>1 DEF Closing
    <2>3. ~nqchClosed /\ ~(mutator # "run" /\ ~rootErr)
        BY <2>2 DEF Closing
    <2> QED BY <2>1, <2>2, <2>3 DEF Closing
<1>2. CASE Mutate
    <2>1. UNCHANGED <<file, nqchClosed, reporting, main>>
        BY <1>2 DEF Mutate
    <2>2. procErr' <=> procErr
        BY <2>1 DEF procErr, Processed
    <2>3. (\A f \in File : Processed(f))' <=> \A f \in File : Processed(f)
        BY <2>1 DEF Processed
    <2>4. /\ mutator = "run" /\ (rootErr => rootErr') /\ (mutator' = "failed" => rootErr')
          /\ mutator' # "run" /\ ~rootErr' => nqch' = << >> /\ nqchClosed
        BY <1>2 DEF Mutate, Closing
    <2>5. main # "nil"
        BY <2>4 DEF Closing
    <2> QED BY <2>1, <2>2, <2>3, <2>4, <2>5 DEF Closing
<1>3. CASE LoadData
    <2>1. UNCHANGED <<file, nqch, mutator>>
        BY <1>3 DEF LoadData
    <2>2. /\ procErr' <=> procErr
          /\ (\A f \in File : Processed(f))' <=> \A f \in File : Processed(f)
        BY <2>1 DEF procErr, Processed
    <2>3. CASE WaitForFiles
        BY <2>1, <2>2, <2>3 DEF WaitForFiles, Closing
    <2>4. CASE CloseNqch
        BY <2>1, <2>2, <2>4 DEF CloseNqch, Closing
    <2>5. CASE WaitForMutations
        BY <2>1, <2>2, <2>5 DEF WaitForMutations, Closing
    <2> QED BY <1>3, <2>3, <2>4, <2>5 DEF LoadData
<1>4. CASE Report
    <2>1. UNCHANGED <<file, nqch, nqchClosed, mutator, main>> /\ reporting /\ rootErr'
        BY <1>4 DEF Report, ReportError
    <2>2. (\A f \in File : Processed(f))' <=> \A f \in File : Processed(f)
        BY <2>1 DEF Processed
    <2> QED BY <2>1, <2>2 DEF Closing
<1>5. CASE CancelInCtx \/ UNCHANGED vars
    <2>1. UNCHANGED <<file, nqch, nqchClosed, mutator, rootErr, reporting, main>>
        BY <1>5 DEF CancelInCtx, vars
    <2>2. /\ procErr' <=> procErr
          /\ (\A f \in File : Processed(f))' <=> \A f \in File : Processed(f)
        BY <2>1 DEF procErr, Processed
    <2> QED BY <2>1, <2>2 DEF Closing
<1> QED BY <1>1, <1>2, <1>3, <1>4, <1>5 DEF Next

(* Nobody sends on nqch after LoadData closed it: a send there would panic.  *)
THEOREM ClosedForGood == Spec => []NoSendOnClosed
<1>1. Closing => NoSendOnClosed
    BY DEF Closing, NoSendOnClosed
<1> QED BY <1>1, ClosingInitially, ClosingStep, PTL DEF Spec

-----------------------------------------------------------------------------
(* The two goroutines of a file, f, whose state is the record r.  Its nquads *)
(* go, by number, from the parser to nqbuf, from there one at a time to the  *)
(* mapper's hands, then to its buffer, and from the buffer to nqch.          *)
FileState ==
    [parser : {"queued", "chunk", "parse", "flush", "done"}, parsed : Nat, nqbuf : Seq(Nat),
     flushed : BOOLEAN,
     mapper : {"queued", "take", "lookup", "assign", "drain", "last", "done"},
     current : Nat, buffer : Seq(Quad), failed : BOOLEAN]

Controlled(f, r) ==
    /\ r.mapper = "queued" <=> r.parser = "queued"
    /\ r.parser = "queued" => r = Queued
    /\ r.parsed <= Len(SubjectsOf[f])
    /\ r.parser = "parse" => r.parsed + 1 <= Len(SubjectsOf[f])
    /\ r.parser = "flush" => r.parsed = Len(SubjectsOf[f])
    /\ r.flushed => r.parser = "done" /\ r.parsed = Len(SubjectsOf[f])
    /\ r.mapper = "last" => r.nqbuf = << >> /\ r.flushed

InHand(r) == IF r.mapper \in {"lookup", "assign"} THEN 1 ELSE 0
Handed(r) == r.parsed - Len(r.nqbuf)
Sent(r) == Handed(r) - InHand(r) - Len(r.buffer)

Staged(f, r) ==
    /\ \A i \in 1 .. Len(r.nqbuf) : r.nqbuf[i] = Handed(r) + i
    /\ r.mapper # "done" =>
          /\ InHand(r) = 1 => r.current = Handed(r)
          /\ 0 <= Sent(r)
          /\ \A i \in 1 .. Len(r.buffer) :
                r.buffer[i].file = f /\ r.buffer[i].n = Sent(r) + i

Ordered(f, r) == r \in FileState /\ Controlled(f, r) /\ Staged(f, r)

Complete(r) == r.mapper = "done" /\ ~r.failed

(* What a step other than a send makes of a file: nothing is lost between    *)
(* the stages, and the mapper ends without an error only when everything was *)
(* sent.                                                                     *)
Kept(f, r, s) ==
    /\ Ordered(f, s)
    /\ s.mapper # "done" => r.mapper # "done" /\ Sent(s) = Sent(r)
    /\ Complete(s) => Complete(r) \/ (r.mapper # "done" /\ Sent(r) = Len(SubjectsOf[f]))

LEMMA Lengths ==
    ASSUME NEW f \in File, NEW r, r \in FileState
    PROVE  /\ Len(SubjectsOf[f]) \in Nat /\ Len(r.nqbuf) \in Nat /\ Len(r.buffer) \in Nat
           /\ r.parsed \in Nat /\ r.current \in Nat /\ InHand(r) \in {0, 1}
           /\ Handed(r) \in Int /\ Sent(r) \in Int
<1>1. SubjectsOf[f] \in Seq(Name)
    BY LoaderConstants
<1>2. r.nqbuf \in Seq(Nat) /\ r.buffer \in Seq(Quad) /\ r.parsed \in Nat /\ r.current \in Nat
    BY DEF FileState
<1>3. Len(SubjectsOf[f]) \in Nat /\ Len(r.nqbuf) \in Nat /\ Len(r.buffer) \in Nat
    BY <1>1, <1>2, LenProperties
<1> QED BY <1>2, <1>3 DEF InHand, Handed, Sent

(* A step that moves no nquad keeps the stages as they are.                  *)
LEMMA SameStages ==
    ASSUME NEW f, NEW r, NEW s, Staged(f, r),
           s.parsed = r.parsed, s.nqbuf = r.nqbuf, s.buffer = r.buffer, s.current = r.current,
           s.mapper # "done" => r.mapper # "done" /\ InHand(s) = InHand(r)
    PROVE  /\ Staged(f, s)
           /\ s.mapper # "done" => r.mapper # "done" /\ Sent(s) = Sent(r)
BY DEF Staged, Handed, Sent

Moved(f) == \E s : FileOnly(f, s) /\ Kept(f, file[f], s)

LEMMA StartKeeps ==
    ASSUME NEW f \in File, Ordered(f, file[f]), Start(f)
    PROVE  Moved(f)
<1> DEFINE s == [file[f] EXCEPT !.parser = "chunk", !.mapper = "take"]
<1>1. file[f].parser = "queued" /\ FileOnly(f, s)
    BY DEF Start
<1>2. s \in FileState /\ Controlled(f, s)
    BY <1>1, Lengths DEF Ordered, FileState, Controlled, Queued
<1>3. /\ s.parsed = file[f].parsed /\ s.nqbuf = file[f].nqbuf /\ s.buffer = file[f].buffer
      /\ s.current = file[f].current /\ s.mapper = "take" /\ file[f].mapper = "queued"
    BY <1>1 DEF Ordered, FileState, Controlled
<1> HIDE DEF s
<1>4. Staged(f, s) /\ (s.mapper # "done" => file[f].mapper # "done" /\ Sent(s) = Sent(file[f]))
    BY <1>3, SameStages DEF Ordered, InHand
<1> QED BY <1>1, <1>2, <1>3, <1>4 DEF Moved, Kept, Ordered, Complete

LEMMA UnknownFormatKeeps ==
    ASSUME NEW f \in File, Ordered(f, file[f]), UnknownFormat(f)
    PROVE  Moved(f)
<1> DEFINE s == [file[f] EXCEPT !.parser = "done", !.mapper = "done", !.failed = TRUE]
<1>1. file[f].parser = "queued" /\ FileOnly(f, s)
    BY DEF UnknownFormat
<1>2. s \in FileState /\ Controlled(f, s)
    BY <1>1, Lengths DEF Ordered, FileState, Controlled, Queued
<1>3. /\ s.parsed = file[f].parsed /\ s.nqbuf = file[f].nqbuf /\ s.buffer = file[f].buffer
      /\ s.current = file[f].current /\ s.mapper = "done" /\ s.failed
    BY <1>1 DEF Ordered, FileState
<1> HIDE DEF s
<1>4. Staged(f, s)
    BY <1>3, SameStages DEF Ordered
<1> QED BY <1>1, <1>2, <1>3, <1>4 DEF Moved, Kept, Ordered, Complete

LEMMA ChunkKeeps ==
    ASSUME NEW f \in File, Ordered(f, file[f]), Chunk(f)
    PROVE  Moved(f)
<1>1. file[f] \in FileState /\ file[f].parser = "chunk" /\ Controlled(f, file[f])
    BY DEF Chunk, Ordered
<1>2. PICK s : /\ FileOnly(f, s)
               /\ \/ s = [file[f] EXCEPT !.parser = "done", !.failed = TRUE]
                  \/ file[f].parsed < Len(SubjectsOf[f]) /\ s = [file[f] EXCEPT !.parser = "parse"]
                  \/ /\ ~(file[f].parsed < Len(SubjectsOf[f]))
                     /\ s = [file[f] EXCEPT !.parser = "flush"]
    BY <1>1 DEF Chunk, ParserFails
<1>3. s \in FileState
    BY <1>1, <1>2 DEF FileState
<1>4. /\ s.parsed = file[f].parsed /\ s.nqbuf = file[f].nqbuf /\ s.buffer = file[f].buffer
      /\ s.current = file[f].current /\ s.mapper = file[f].mapper
      /\ file[f].failed => s.failed
      /\ s.flushed = file[f].flushed
      /\ \/ s.parser = "done"
         \/ file[f].parsed < Len(SubjectsOf[f]) /\ s.parser = "parse"
         \/ ~(file[f].parsed < Len(SubjectsOf[f])) /\ s.parser = "flush"
    BY <1>1, <1>2 DEF FileState
<1>5. Staged(f, s) /\ (s.mapper # "done" => file[f].mapper # "done" /\ Sent(s) = Sent(file[f]))
    BY <1>4, SameStages DEF Ordered, InHand
<1>6. s.failed \in BOOLEAN /\ file[f].failed \in BOOLEAN
    BY <1>1, <1>3 DEF FileState
<1>7. Len(SubjectsOf[f]) \in Nat /\ file[f].parsed \in Nat
    BY <1>1, Lengths
<1>8. Controlled(f, s)
    BY <1>1, <1>4, <1>7 DEF Controlled
<1> QED BY <1>2, <1>3, <1>4, <1>5, <1>6, <1>8 DEF Moved, Kept, Ordered, Complete

LEMMA ParseKeeps ==
    ASSUME NEW f \in File, Ordered(f, file[f]), Parse(f)
    PROVE  Moved(f)
<1> DEFINE r == file[f]
<1>1. r \in FileState /\ r.parser = "parse" /\ Controlled(f, r) /\ Staged(f, r)
    BY DEF Parse, Ordered
<1>2. PICK next \in {"chunk", "flush"} :
          /\ next = "flush" => r.parsed + 1 = Len(SubjectsOf[f])
          /\ FileOnly(f, [r EXCEPT !.parser = next, !.parsed = @ + 1,
                                   !.nqbuf = Append(@, r.parsed + 1)])
    BY DEF Parse
<1> DEFINE s == [r EXCEPT !.parser = next, !.parsed = @ + 1, !.nqbuf = Append(@, r.parsed + 1)]
<1>3. /\ Len(r.nqbuf) \in Nat /\ r.parsed \in Nat /\ r.nqbuf \in Seq(Nat) /\ r.parsed + 1 \in Nat
      /\ Len(SubjectsOf[f]) \in Nat
    BY <1>1, Lengths DEF FileState
<1>4. /\ Append(r.nqbuf, r.parsed + 1) \in Seq(Nat)
      /\ Append(r.nqbuf, r.parsed + 1) # << >>
      /\ Len(Append(r.nqbuf, r.parsed + 1)) = Len(r.nqbuf) + 1
      /\ \A i \in 1 .. Len(r.nqbuf) : Append(r.nqbuf, r.parsed + 1)[i] = r.nqbuf[i]
      /\ Append(r.nqbuf, r.parsed + 1)[Len(r.nqbuf) + 1] = r.parsed + 1
    <2>1. r.nqbuf \in Seq(Nat) /\ r.parsed + 1 \in Nat
        BY <1>3
    <2> QED BY <2>1, AppendProperties
<1>5. s \in FileState
    BY <1>1, <1>2, <1>3, <1>4 DEF FileState
<1>6. /\ s.parser = next /\ s.parsed = r.parsed + 1 /\ s.nqbuf = Append(r.nqbuf, r.parsed + 1)
      /\ s.buffer = r.buffer /\ s.current = r.current /\ s.mapper = r.mapper
      /\ s.failed = r.failed /\ s.flushed = r.flushed
    BY <1>1 DEF FileState
<1> HIDE DEF s, r
<1>7. Controlled(f, s)
    BY <1>1, <1>2, <1>3, <1>6 DEF Controlled
<1>8. Handed(s) = Handed(r) /\ InHand(s) = InHand(r) /\ Sent(s) = Sent(r)
    <2>1. Len(s.nqbuf) = Len(r.nqbuf) + 1
        BY <1>4, <1>6
    <2>2. s.parsed - Len(s.nqbuf) = r.parsed - Len(r.nqbuf)
        BY <2>1, <1>3, <1>6
    <2>3. Handed(s) = Handed(r)
        BY <2>2 DEF Handed
    <2>4. InHand(s) = InHand(r)
        BY <1>6 DEF InHand
    <2> QED BY <2>3, <2>4, <1>6 DEF Sent
<1>9. Staged(f, s)
    <2>1. \A i \in 1 .. Len(s.nqbuf) : s.nqbuf[i] = Handed(s) + i
        <3> SUFFICES ASSUME NEW i \in 1 .. Len(r.nqbuf) + 1
                     PROVE  Append(r.nqbuf, r.parsed + 1)[i] = Handed(r) + i
            BY <1>4, <1>6, <1>8
        <3>1. CASE i = Len(r.nqbuf) + 1
            BY <3>1, <1>3, <1>4 DEF Handed
        <3>2. CASE i \in 1 .. Len(r.nqbuf)
            BY <3>2, <1>1, <1>4 DEF Staged
        <3> QED BY <3>1, <3>2, <1>3
    <2> QED BY <2>1, <1>1, <1>6, <1>8 DEF Staged
<1>10. Kept(f, r, s)
    BY <1>5, <1>6, <1>7, <1>8, <1>9 DEF Kept, Ordered, Complete
<1> QED BY <1>2, <1>10 DEF Moved, s, r

LEMMA FlushKeeps ==
    ASSUME NEW f \in File, Ordered(f, file[f]), Flush(f)
    PROVE  Moved(f)
<1> DEFINE s == [file[f] EXCEPT !.parser = "done", !.flushed = TRUE]
<1>1. file[f] \in FileState /\ file[f].parser = "flush" /\ Controlled(f, file[f]) /\ FileOnly(f, s)
    BY DEF Flush, Ordered
<1>2. s \in FileState /\ Controlled(f, s)
    BY <1>1, Lengths DEF FileState, Controlled
<1>3. /\ s.parsed = file[f].parsed /\ s.nqbuf = file[f].nqbuf /\ s.buffer = file[f].buffer
      /\ s.current = file[f].current /\ s.mapper = file[f].mapper /\ s.failed = file[f].failed
    BY <1>1 DEF FileState
<1> HIDE DEF s
<1>4. Staged(f, s) /\ (s.mapper # "done" => file[f].mapper # "done" /\ Sent(s) = Sent(file[f]))
    BY <1>3, SameStages DEF Ordered, InHand
<1> QED BY <1>1, <1>2, <1>3, <1>4 DEF Moved, Kept, Ordered, Complete

LEMMA MapperFailsKeeps ==
    ASSUME NEW f \in File, Ordered(f, file[f]), file[f].mapper # "queued", MapperFails(f)
    PROVE  Moved(f)
<1> DEFINE s == [file[f] EXCEPT !.mapper = "done", !.failed = TRUE]
<1>1. file[f] \in FileState /\ Controlled(f, file[f]) /\ FileOnly(f, s)
    BY DEF MapperFails, Ordered
<1>2. s \in FileState
    BY <1>1 DEF FileState
<1>3. /\ s.parsed = file[f].parsed /\ s.nqbuf = file[f].nqbuf /\ s.buffer = file[f].buffer
      /\ s.current = file[f].current /\ s.mapper = "done" /\ s.failed
      /\ s.parser = file[f].parser /\ s.flushed = file[f].flushed
    BY <1>1 DEF FileState
<1> HIDE DEF s
<1>4. Controlled(f, s)
    BY <1>1, <1>3 DEF Controlled
<1>5. Staged(f, s)
    BY <1>3, SameStages DEF Ordered
<1> QED BY <1>1, <1>2, <1>3, <1>4, <1>5 DEF Moved, Kept, Ordered, Complete

LEMMA TakeKeeps ==
    ASSUME NEW f \in File, Ordered(f, file[f]), Take(f)
    PROVE  Moved(f)
<1> DEFINE r == file[f]
<1>1. r \in FileState /\ r.mapper = "take" /\ Controlled(f, r) /\ Staged(f, r)
    BY DEF Take, Ordered
<1>2. CASE MapperFails(f)
    BY <1>1, <1>2, MapperFailsKeeps
<1>3. CASE r.nqbuf = << >> /\ r.flushed /\ FileOnly(f, [r EXCEPT !.mapper = "last"])
    <2> DEFINE s == [r EXCEPT !.mapper = "last"]
    <2>1. s \in FileState
        BY <1>1 DEF FileState
    <2>2. /\ s.parsed = r.parsed /\ s.nqbuf = r.nqbuf /\ s.buffer = r.buffer
          /\ s.current = r.current /\ s.mapper = "last" /\ s.failed = r.failed
          /\ s.parser = r.parser /\ s.flushed = r.flushed
        BY <1>1 DEF FileState
    <2> HIDE DEF s
    <2>3. Controlled(f, s)
        BY <1>1, <1>3, <2>2 DEF Controlled
    <2>4. Staged(f, s) /\ (s.mapper # "done" => r.mapper # "done" /\ Sent(s) = Sent(r))
        BY <1>1, <2>2, SameStages DEF InHand
    <2>5. Kept(f, r, s)
        BY <2>1, <2>2, <2>3, <2>4 DEF Kept, Ordered, Complete
    <2> QED BY <1>3, <2>5 DEF Moved, s
<1>4. CASE /\ r.nqbuf # << >>
           /\ FileOnly(f, [r EXCEPT !.mapper = "lookup", !.current = Head(r.nqbuf),
                                    !.nqbuf = Tail(@)])
    <2> DEFINE s == [r EXCEPT !.mapper = "lookup", !.current = Head(r.nqbuf), !.nqbuf = Tail(@)]
    <2>1. r.nqbuf \in Seq(Nat) /\ r.parsed \in Nat /\ Len(r.nqbuf) \in Nat \ {0}
        BY <1>1, <1>4, EmptySeq DEF FileState
    <2>2. /\ Tail(r.nqbuf) \in Seq(Nat) /\ Len(Tail(r.nqbuf)) = Len(r.nqbuf) - 1
          /\ \A i \in 1 .. Len(Tail(r.nqbuf)) : Tail(r.nqbuf)[i] = r.nqbuf[i + 1]
          /\ Head(r.nqbuf) \in Nat
        BY <1>4, <2>1, HeadTailProperties
    <2>3. Head(r.nqbuf) = r.nqbuf[1]
        BY <2>1
    <2>4. s \in FileState
        BY <1>1, <2>2 DEF FileState
    <2>5. /\ s.parsed = r.parsed /\ s.nqbuf = Tail(r.nqbuf) /\ s.buffer = r.buffer
          /\ s.current = r.nqbuf[1] /\ s.mapper = "lookup" /\ s.failed = r.failed
          /\ s.parser = r.parser /\ s.flushed = r.flushed
        BY <1>1, <2>3 DEF FileState
    <2>6. /\ Len(s.nqbuf) = Len(r.nqbuf) - 1
          /\ \A i \in 1 .. Len(r.nqbuf) - 1 : s.nqbuf[i] = r.nqbuf[i + 1]
        BY <2>2, <2>5
    <2> HIDE DEF s, r
    <2>7. Controlled(f, s)
        BY <1>1, <1>4, <2>5 DEF Controlled
    <2>8. /\ Handed(s) = Handed(r) + 1 /\ InHand(s) = 1 /\ InHand(r) = 0 /\ Handed(r) \in Int
        <3>1. InHand(s) = 1 /\ InHand(r) = 0
            BY <1>1, <2>5 DEF InHand, r
        <3>2. /\ r.parsed \in Nat /\ Len(r.nqbuf) \in Nat
              /\ s.parsed = r.parsed /\ Len(s.nqbuf) = Len(r.nqbuf) - 1
            BY <2>1, <2>5, <2>6
        <3>3. /\ s.parsed - Len(s.nqbuf) = r.parsed - Len(r.nqbuf) + 1
              /\ r.parsed - Len(r.nqbuf) \in Int
            BY <3>2
        <3> QED BY <3>1, <3>3 DEF Handed
    <2>9. Sent(s) = Sent(r)
        <3>1. Handed(s) - InHand(s) = Handed(r) - InHand(r)
            BY <2>8
        <3>2. s.buffer = r.buffer
            BY <2>5
        <3> QED BY <3>1, <3>2 DEF Sent
    <2>10. \A i \in 1 .. Len(r.nqbuf) : r.nqbuf[i] = Handed(r) + i
        BY <1>1 DEF Staged
    <2>11. \A i \in 1 .. Len(s.nqbuf) : s.nqbuf[i] = Handed(s) + i
        BY <2>1, <2>6, <2>8, <2>10
    <2>12. s.current = Handed(s)
        BY <2>1, <2>5, <2>8, <2>10
    <2>13. Staged(f, s)
        BY <1>1, <2>5, <2>9, <2>11, <2>12 DEF Staged
    <2>14. Kept(f, r, s)
        BY <1>1, <2>4, <2>5, <2>7, <2>9, <2>13 DEF Kept, Ordered, Complete
    <2> QED BY <1>4, <2>14 DEF Moved, s, r
<1> QED BY <1>1, <1>2, <1>3, <1>4 DEF Take

LEMMA BufferKeeps ==
    ASSUME NEW f \in File, Ordered(f, file[f]), file[f].mapper \in {"lookup", "assign"},
           NEW uid \in Nat, Buffer(f, uid)
    PROVE  Moved(f)
<1> DEFINE r == file[f]
           quad == [file |-> f, n |-> r.current, uid |-> uid]
<1>1. r \in FileState /\ r.mapper \notin {"done", "queued"} /\ Controlled(f, r) /\ Staged(f, r)
    BY DEF Ordered
<1>2. PICK to \in {"drain", "take"} :
          FileOnly(f, [r EXCEPT !.buffer = Append(@, quad), !.mapper = to])
    BY DEF Buffer
<1> DEFINE s == [r EXCEPT !.buffer = Append(@, quad), !.mapper = to]
<1>3. r.buffer \in Seq(Quad) /\ quad \in Quad /\ Len(r.buffer) \in Nat /\ Handed(r) \in Int
    BY <1>1, Lengths DEF FileState, Quad
<1>4. /\ Append(r.buffer, quad) \in Seq(Quad) /\ Len(Append(r.buffer, quad)) = Len(r.buffer) + 1
      /\ \A i \in 1 .. Len(r.buffer) : Append(r.buffer, quad)[i] = r.buffer[i]
      /\ Append(r.buffer, quad)[Len(r.buffer) + 1] = quad
    BY <1>3, AppendProperties
<1>5. s \in FileState
    BY <1>1, <1>4 DEF FileState
<1>6. /\ s.parsed = r.parsed /\ s.nqbuf = r.nqbuf /\ s.buffer = Append(r.buffer, quad)
      /\ s.current = r.current /\ s.mapper = to /\ s.failed = r.failed
      /\ s.parser = r.parser /\ s.flushed = r.flushed
    BY <1>1 DEF FileState
<1>7. /\ Len(s.buffer) = Len(r.buffer) + 1
      /\ \A i \in 1 .. Len(r.buffer) : s.buffer[i] = r.buffer[i]
      /\ s.buffer[Len(r.buffer) + 1].file = f /\ s.buffer[Len(r.buffer) + 1].n = r.current
    BY <1>4, <1>6
<1> HIDE DEF s, quad, r
<1>8. Controlled(f, s)
    BY <1>1, <1>6 DEF Controlled
<1>9. Handed(s) = Handed(r) /\ InHand(s) = 0 /\ InHand(r) = 1
    BY <1>6 DEF Handed, InHand, r
<1>10. Sent(s) = Sent(r) /\ r.current = Sent(s) + Len(r.buffer) + 1
    <2>1. r.current = Handed(r)
        BY <1>1, <1>9 DEF Staged
    <2> QED BY <2>1, <1>3, <1>7, <1>9 DEF Sent
<1>11. \A i \in 1 .. Len(s.buffer) : s.buffer[i].file = f /\ s.buffer[i].n = Sent(s) + i
    <2> SUFFICES ASSUME NEW i \in 1 .. Len(r.buffer) + 1
                 PROVE  s.buffer[i].file = f /\ s.buffer[i].n = Sent(s) + i
        BY <1>7
    <2>1. CASE i = Len(r.buffer) + 1
        <3>1. Sent(s) \in Int
            BY <1>5, Lengths
        <3> QED BY <2>1, <3>1, <1>3, <1>7, <1>10
    <2>2. CASE i \in 1 .. Len(r.buffer)
        BY <2>2, <1>1, <1>7, <1>10 DEF Staged
    <2> QED BY <2>1, <2>2, <1>3
<1>12. Staged(f, s)
    BY <1>1, <1>6, <1>9, <1>10, <1>11 DEF Staged
<1>13. Kept(f, r, s)
    BY <1>1, <1>5, <1>6, <1>8, <1>10, <1>12 DEF Kept, Ordered, Complete
<1> QED BY <1>2, <1>13 DEF Moved, s, r

LEMMA DrainedKeeps ==
    ASSUME NEW f \in File, Ordered(f, file[f]), Drained(f)
    PROVE  Moved(f)
<1> DEFINE r == file[f]
           s == [r EXCEPT !.mapper = IF @ = "last" THEN "done" ELSE "take"]
<1>1. /\ r \in FileState /\ r.mapper \in {"drain", "last"} /\ r.buffer = << >>
      /\ Controlled(f, r) /\ Staged(f, r) /\ FileOnly(f, s)
    BY DEF Drained, Ordered
<1>2. s \in FileState
    BY <1>1 DEF FileState
<1>3. /\ s.parsed = r.parsed /\ s.nqbuf = r.nqbuf /\ s.buffer = r.buffer
      /\ s.current = r.current /\ s.failed = r.failed
      /\ s.parser = r.parser /\ s.flushed = r.flushed
      /\ s.mapper \in {"done", "take"} /\ (s.mapper = "done" => r.mapper = "last")
    BY <1>1 DEF FileState
<1> HIDE DEF s, r
<1>4. Controlled(f, s)
    BY <1>1, <1>3 DEF Controlled
<1>5. Staged(f, s) /\ (s.mapper # "done" => r.mapper # "done" /\ Sent(s) = Sent(r))
    BY <1>1, <1>3, SameStages DEF InHand
<1>6. r.mapper = "last" => Sent(r) = Len(SubjectsOf[f])
    <2>1. SUFFICES ASSUME r.mapper = "last" PROVE Sent(r) = Len(SubjectsOf[f])
        OBVIOUS
    <2>2. r.parsed = Len(SubjectsOf[f]) /\ r.nqbuf = << >>
        BY <1>1, <2>1 DEF Controlled
    <2>3. Len(r.nqbuf) = 0 /\ Len(r.buffer) = 0 /\ InHand(r) = 0 /\ Len(SubjectsOf[f]) \in Nat
        BY <1>1, <2>1, <2>2, Lengths DEF InHand
    <2> QED BY <2>2, <2>3 DEF Sent, Handed
<1>7. Kept(f, r, s)
    BY <1>1, <1>2, <1>3, <1>4, <1>5, <1>6 DEF Kept, Ordered, Complete
<1> QED BY <1>1, <1>7 DEF Moved, s, r

-----------------------------------------------------------------------------
(* The log: what was applied, then the batches still in nqch.  An nquad of   *)
(* it has a place, the b-th batch and in that the i-th nquad; batch 0 is     *)
(* what was applied.                                                         *)
Batch(done, chan, b) == IF b = 0 THEN done ELSE chan[b]
Log(done, chan) == UNION {Range(Batch(done, chan, b)) : b \in 0 .. Len(chan)}
Before(b, i, c, j) == b < c \/ (b = c /\ i < j)

(* Of two nquads of one file the one with the smaller number comes first.    *)
Ascending(done, chan) ==
    \A b, c \in 0 .. Len(chan) :
        \A i \in 1 .. Len(Batch(done, chan, b)), j \in 1 .. Len(Batch(done, chan, c)) :
            LET p == Batch(done, chan, b)[i]
                q == Batch(done, chan, c)[j]
            IN  p.file = q.file /\ Before(b, i, c, j) => p.n < q.n

LEMMA BatchTyped ==
    ASSUME NEW done \in Seq(Quad), NEW chan \in Seq(Seq(Quad)), NEW b \in 0 .. Len(chan)
    PROVE  /\ Len(chan) \in Nat
           /\ Batch(done, chan, b) \in Seq(Quad)
           /\ Len(Batch(done, chan, b)) \in Nat
           /\ \A i \in 1 .. Len(Batch(done, chan, b)) : Batch(done, chan, b)[i] \in Quad
<1>1. Len(chan) \in Nat
    BY LenProperties
<1>2. Batch(done, chan, b) \in Seq(Quad)
    <2>1. CASE b = 0
        BY <2>1 DEF Batch
    <2>2. CASE b \in 1 .. Len(chan)
        BY <2>2, ElementOfSeq, <1>1 DEF Batch
    <2> QED BY <2>1, <2>2, <1>1
<1> QED BY <1>1, <1>2, LenProperties, ElementOfSeq

LEMMA InLog ==
    ASSUME NEW done \in Seq(Quad), NEW chan \in Seq(Seq(Quad)), NEW q
    PROVE  q \in Log(done, chan) <=>
              \E b \in 0 .. Len(chan) : \E i \in 1 .. Len(Batch(done, chan, b)) :
                  q = Batch(done, chan, b)[i]
<1>1. ASSUME NEW b \in 0 .. Len(chan)
      PROVE  Range(Batch(done, chan, b))
                = {Batch(done, chan, b)[i] : i \in 1 .. Len(Batch(done, chan, b))}
    BY BatchTyped, RangeEquality
<1> QED BY <1>1 DEF Log

LEMMA LoggedQuad ==
    ASSUME NEW done \in Seq(Quad), NEW chan \in Seq(Seq(Quad))
    PROVE  \A e \in Log(done, chan) : e \in Quad
<1> SUFFICES ASSUME NEW e \in Log(done, chan) PROVE e \in Quad
    OBVIOUS
<1>1. PICK b \in 0 .. Len(chan) :
         \E i \in 1 .. Len(Batch(done, chan, b)) : e = Batch(done, chan, b)[i]
    BY InLog
<1> QED BY <1>1, BatchTyped

(* A batch is sent: it joins the log at its end.                             *)
LEMMA SentBatches ==
    ASSUME NEW done \in Seq(Quad), NEW chan \in Seq(Seq(Quad)), NEW t \in Seq(Quad)
    PROVE  /\ Append(chan, t) \in Seq(Seq(Quad))
           /\ Len(chan) \in Nat /\ Len(Append(chan, t)) = Len(chan) + 1
           /\ \A b \in 0 .. Len(chan) : Batch(done, Append(chan, t), b) = Batch(done, chan, b)
           /\ Batch(done, Append(chan, t), Len(chan) + 1) = t
<1>1. /\ Len(chan) \in Nat /\ Append(chan, t) \in Seq(Seq(Quad))
      /\ Len(Append(chan, t)) = Len(chan) + 1
      /\ \A b \in 1 .. Len(chan) : Append(chan, t)[b] = chan[b]
      /\ Append(chan, t)[Len(chan) + 1] = t
    BY AppendProperties, LenProperties
<1>2. \A b \in 0 .. Len(chan) : b = 0 \/ b \in 1 .. Len(chan)
    BY <1>1
<1>3. Len(chan) + 1 # 0
    BY <1>1
<1> QED BY <1>1, <1>2, <1>3 DEF Batch

LEMMA SentLog ==
    ASSUME NEW done \in Seq(Quad), NEW chan \in Seq(Seq(Quad)), NEW t \in Seq(Quad), NEW q
    PROVE  q \in Log(done, Append(chan, t)) <=>
              q \in Log(done, chan) \/ \E i \in 1 .. Len(t) : q = t[i]
<1> DEFINE sent == Append(chan, t)
<1>1. /\ sent \in Seq(Seq(Quad)) /\ Len(chan) \in Nat /\ Len(sent) = Len(chan) + 1
      /\ \A b \in 0 .. Len(chan) : Batch(done, sent, b) = Batch(done, chan, b)
      /\ Batch(done, sent, Len(chan) + 1) = t
    BY SentBatches
<1> HIDE DEF sent
<1>2. q \in Log(done, sent) <=>
         \E b \in 0 .. Len(sent) : \E i \in 1 .. Len(Batch(done, sent, b)) :
            q = Batch(done, sent, b)[i]
    BY <1>1, InLog
<1>3. q \in Log(done, chan) <=>
         \E b \in 0 .. Len(chan) : \E i \in 1 .. Len(Batch(done, chan, b)) :
            q = Batch(done, chan, b)[i]
    BY InLog
<1>4. \A b : b \in 0 .. Len(sent) <=> b \in 0 .. Len(chan) \/ b = Len(chan) + 1
    BY <1>1
<1>5. q \in Log(done, sent) <=>
         \/ \E b \in 0 .. Len(chan) : \E i \in 1 .. Len(Batch(done, sent, b)) :
               q = Batch(done, sent, b)[i]
         \/ \E i \in 1 .. Len(Batch(done, sent, Len(chan) + 1)) :
               q = Batch(done, sent, Len(chan) + 1)[i]
    BY <1>2, <1>4
<1>6. q \in Log(done, sent) <=> q \in Log(done, chan) \/ \E i \in 1 .. Len(t) : q = t[i]
    BY <1>1, <1>3, <1>5
<1> QED BY <1>6 DEF sent

LEMMA SentAscends ==
    ASSUME NEW done \in Seq(Quad), NEW chan \in Seq(Seq(Quad)), NEW t \in Seq(Quad),
           NEW f, NEW k \in Int,
           Ascending(done, chan),
           \A q \in Log(done, chan) : q.file = f => q.n <= k,
           \A i \in 1 .. Len(t) : t[i].file = f /\ t[i].n = k + i
    PROVE  Ascending(done, Append(chan, t))
<1> DEFINE sent == Append(chan, t)
<1>1. /\ sent \in Seq(Seq(Quad)) /\ Len(chan) \in Nat /\ Len(sent) = Len(chan) + 1
      /\ \A b \in 0 .. Len(chan) : Batch(done, sent, b) = Batch(done, chan, b)
      /\ Batch(done, sent, Len(chan) + 1) = t
    BY SentBatches
<1> HIDE DEF sent
<1> SUFFICES ASSUME NEW b \in 0 .. Len(sent), NEW c \in 0 .. Len(sent),
                    NEW i \in 1 .. Len(Batch(done, sent, b)),
                    NEW j \in 1 .. Len(Batch(done, sent, c)),
                    Batch(done, sent, b)[i].file = Batch(done, sent, c)[j].file,
                    Before(b, i, c, j)
             PROVE  Batch(done, sent, b)[i].n < Batch(done, sent, c)[j].n
    BY DEF Ascending, sent
<1>2. CASE b \in 0 .. Len(chan) /\ c \in 0 .. Len(chan)
    BY <1>1, <1>2 DEF Ascending
<1>3. CASE b \in 0 .. Len(chan) /\ c = Len(chan) + 1
    <2>1. Batch(done, sent, b) = Batch(done, chan, b) /\ Batch(done, sent, c) = t
        BY <1>1, <1>3
    <2>2. Batch(done, chan, b)[i] \in Log(done, chan) /\ Batch(done, chan, b)[i] \in Quad
        BY <1>3, <2>1, InLog, BatchTyped
    <2>3. j \in Int /\ 1 <= j /\ t[j].file = f /\ t[j].n = k + j
        <3>1. j \in 1 .. Len(t)
            BY <2>1
        <3>2. Len(t) \in Nat
            BY LenProperties
        <3>3. j \in Int /\ 1 <= j
            BY <3>1, <3>2
        <3>4. t[j].file = f /\ t[j].n = k + j
            BY <3>1
        <3> QED BY <3>3, <3>4
    <2>4. Batch(done, chan, b)[i].file = f
        BY <2>1, <2>3
    <2>5. Batch(done, chan, b)[i].n <= k /\ Batch(done, chan, b)[i].n \in Int
        BY <2>2, <2>4 DEF Quad
    <2>6. k < k + j
        BY <2>3
    <2>7. Batch(done, chan, b)[i].n < t[j].n
        BY <2>3, <2>5, <2>6
    <2> QED BY <2>1, <2>7
<1>4. CASE b = Len(chan) + 1 /\ c = Len(chan) + 1
    <2>1. i \in Int /\ j \in Int /\ i < j
        BY <1>1, <1>4, LenProperties DEF Before
    <2> QED BY <1>1, <1>4, <2>1
<1>5. ~(b = Len(chan) + 1 /\ c \in 0 .. Len(chan))
    BY <1>1 DEF Before
<1> QED BY <1>1, <1>2, <1>3, <1>4, <1>5

(* The mutating goroutine applies a batch: it moves from the front of nqch   *)
(* to the end of what was applied, so nothing leaves the log and no two      *)
(* nquads change places.  What has place b, i afterwards had this one.       *)
WasBatch(done, b, i) == IF b = 0 THEN IF i <= Len(done) THEN 0 ELSE 1 ELSE b + 1
WasAt(done, b, i) == IF b = 0 /\ ~(i <= Len(done)) THEN i - Len(done) ELSE i

LEMMA AppliedBatches ==
    ASSUME NEW done \in Seq(Quad), NEW chan \in Seq(Seq(Quad)), chan # << >>
    PROVE  /\ done \o Head(chan) \in Seq(Quad) /\ Tail(chan) \in Seq(Seq(Quad))
           /\ Len(chan) \in Nat \ {0} /\ Len(Tail(chan)) = Len(chan) - 1
           /\ Len(done) \in Nat /\ Len(chan[1]) \in Nat
           /\ Batch(done \o Head(chan), Tail(chan), 0) = done \o Head(chan)
           /\ Len(done \o Head(chan)) = Len(done) + Len(chan[1])
           /\ \A i \in 1 .. Len(done) : (done \o Head(chan))[i] = done[i]
           /\ \A i \in 1 .. Len(chan[1]) : (done \o Head(chan))[Len(done) + i] = chan[1][i]
           /\ \A b \in 1 .. Len(chan) - 1 : Batch(done \o Head(chan), Tail(chan), b) = chan[b + 1]
           /\ Batch(done, chan, 0) = done
           /\ \A b \in 1 .. Len(chan) : Batch(done, chan, b) = chan[b]
<1>1. /\ Head(chan) \in Seq(Quad) /\ Tail(chan) \in Seq(Seq(Quad))
      /\ Len(Tail(chan)) = Len(chan) - 1
      /\ \A b \in 1 .. Len(Tail(chan)) : Tail(chan)[b] = chan[b + 1]
    BY HeadTailProperties
<1>2. Len(chan) \in Nat \ {0} /\ Head(chan) = chan[1] /\ Len(done) \in Nat
    BY EmptySeq, LenProperties
<1>3. Len(chan[1]) \in Nat
    BY <1>1, <1>2, LenProperties
<1>4. /\ done \o Head(chan) \in Seq(Quad)
      /\ Len(done \o Head(chan)) = Len(done) + Len(Head(chan))
      /\ \A i \in 1 .. Len(done) + Len(Head(chan)) :
            (done \o Head(chan))[i] = IF i <= Len(done) THEN done[i] ELSE Head(chan)[i - Len(done)]
    BY <1>1, ConcatProperties
<1>5. /\ \A i \in 1 .. Len(done) : (done \o Head(chan))[i] = done[i]
      /\ \A i \in 1 .. Len(chan[1]) : (done \o Head(chan))[Len(done) + i] = chan[1][i]
    BY <1>2, <1>3, <1>4
<1>6. /\ Batch(done \o Head(chan), Tail(chan), 0) = done \o Head(chan)
      /\ \A b \in 1 .. Len(chan) - 1 : Batch(done \o Head(chan), Tail(chan), b) = chan[b + 1]
      /\ Batch(done, chan, 0) = done
      /\ \A b \in 1 .. Len(chan) : Batch(done, chan, b) = chan[b]
    BY <1>1, <1>2 DEF Batch
<1> QED BY <1>1, <1>2, <1>3, <1>4, <1>5, <1>6

LEMMA AppliedPlace ==
    ASSUME NEW done \in Seq(Quad), NEW chan \in Seq(Seq(Quad)), chan # << >>,
           NEW b \in 0 .. Len(Tail(chan)),
           NEW i \in 1 .. Len(Batch(done \o Head(chan), Tail(chan), b))
    PROVE  LET c == WasBatch(done, b, i)
               j == WasAt(done, b, i)
           IN  /\ c \in 0 .. Len(chan) /\ j \in 1 .. Len(Batch(done, chan, c))
               /\ Batch(done \o Head(chan), Tail(chan), b)[i] = Batch(done, chan, c)[j]
<1> DEFINE all == done \o Head(chan)
           rest == Tail(chan)
           c == WasBatch(done, b, i)
           j == WasAt(done, b, i)
<1>1. /\ all \in Seq(Quad) /\ rest \in Seq(Seq(Quad))
      /\ Len(chan) \in Nat \ {0} /\ Len(rest) = Len(chan) - 1
      /\ Len(done) \in Nat /\ Len(chan[1]) \in Nat
      /\ Batch(all, rest, 0) = all
      /\ Len(all) = Len(done) + Len(chan[1])
      /\ \A n \in 1 .. Len(done) : all[n] = done[n]
      /\ \A n \in 1 .. Len(chan[1]) : all[Len(done) + n] = chan[1][n]
      /\ \A a \in 1 .. Len(chan) - 1 : Batch(all, rest, a) = chan[a + 1]
      /\ Batch(done, chan, 0) = done
      /\ \A a \in 1 .. Len(chan) : Batch(done, chan, a) = chan[a]
    BY AppliedBatches
<1>2. i \in 1 .. Len(Batch(all, rest, b)) /\ b \in 0 .. Len(rest)
    OBVIOUS
<1> HIDE DEF all, rest, c, j
<1>3. Len(Batch(all, rest, b)) \in Nat
    BY <1>1, <1>2, BatchTyped
<1>4. CASE b = 0 /\ i <= Len(done)
    <2>1. c = 0 /\ j = i
        BY <1>4 DEF c, j, WasBatch, WasAt
    <2>2. i \in 1 .. Len(done)
        BY <1>1, <1>2, <1>3, <1>4
    <2>3. Batch(all, rest, b)[i] = done[i]
        BY <1>1, <1>4, <2>2
    <2> QED BY <1>1, <2>1, <2>2, <2>3 DEF c, j, all, rest
<1>5. CASE b = 0 /\ ~(i <= Len(done))
    <2>1. c = 1 /\ j = i - Len(done)
        BY <1>5 DEF c, j, WasBatch, WasAt
    <2>2. j \in 1 .. Len(chan[1]) /\ i = Len(done) + j
        BY <1>1, <1>2, <1>5, <2>1
    <2>3. all[i] = chan[1][j]
        BY <1>1, <2>2
    <2> QED BY <1>1, <1>5, <2>1, <2>2, <2>3 DEF c, j, all, rest
<1>6. CASE b \in 1 .. Len(rest)
    <2>0. b # 0
        BY <1>6
    <2>1. c = b + 1 /\ j = i
        BY <2>0 DEF c, j, WasBatch, WasAt
    <2>2. b \in 1 .. Len(chan) - 1 /\ c \in 1 .. Len(chan) /\ c = b + 1
        BY <1>1, <1>6, <2>1
    <2>3. Batch(all, rest, b) = chan[c] /\ Batch(done, chan, c) = chan[c]
        BY <1>1, <2>2
    <2>4. c \in 0 .. Len(chan)
        BY <2>2
    <2>5. j \in 1 .. Len(Batch(done, chan, c)) /\ Batch(all, rest, b)[i] = Batch(done, chan, c)[j]
        BY <1>2, <2>1, <2>3
    <2> QED BY <2>4, <2>5 DEF c, j, all, rest
<1> QED BY <1>1, <1>2, <1>4, <1>5, <1>6

LEMMA AppliedLog ==
    ASSUME NEW done \in Seq(Quad), NEW chan \in Seq(Seq(Quad)), chan # << >>
    PROVE  Log(done \o Head(chan), Tail(chan)) = Log(done, chan)
<1> DEFINE all == done \o Head(chan)
           rest == Tail(chan)
<1>1. /\ all \in Seq(Quad) /\ rest \in Seq(Seq(Quad))
      /\ Len(chan) \in Nat \ {0} /\ Len(rest) = Len(chan) - 1
      /\ Len(done) \in Nat /\ Len(chan[1]) \in Nat
      /\ Batch(all, rest, 0) = all
      /\ Len(all) = Len(done) + Len(chan[1])
      /\ \A n \in 1 .. Len(done) : all[n] = done[n]
      /\ \A n \in 1 .. Len(chan[1]) : all[Len(done) + n] = chan[1][n]
      /\ \A a \in 1 .. Len(chan) - 1 : Batch(all, rest, a) = chan[a + 1]
      /\ Batch(done, chan, 0) = done
      /\ \A a \in 1 .. Len(chan) : Batch(done, chan, a) = chan[a]
    BY AppliedBatches
<1>2. \A b \in 0 .. Len(rest) : \A i \in 1 .. Len(Batch(all, rest, b)) :
         \E c \in 0 .. Len(chan) : \E j \in 1 .. Len(Batch(done, chan, c)) :
            Batch(all, rest, b)[i] = Batch(done, chan, c)[j]
    BY AppliedPlace
<1> HIDE DEF all, rest
<1>3. ASSUME NEW c \in 0 .. Len(chan), NEW j \in 1 .. Len(Batch(done, chan, c))
      PROVE  \E b \in 0 .. Len(rest) : \E i \in 1 .. Len(Batch(all, rest, b)) :
                Batch(done, chan, c)[j] = Batch(all, rest, b)[i]
    <2>0. 0 \in 0 .. Len(rest)
        BY <1>1
    <2>1. CASE c = 0
        <3>1. /\ j \in 1 .. Len(Batch(all, rest, 0))
              /\ Batch(done, chan, c)[j] = Batch(all, rest, 0)[j]
            BY <1>1, <2>1
        <3> QED BY <2>0, <3>1
    <2>2. CASE c = 1
        <3>1. j \in 1 .. Len(chan[1])
            BY <1>1, <2>2
        <3>2. /\ Len(done) + j \in 1 .. Len(Batch(all, rest, 0))
              /\ Batch(done, chan, c)[j] = Batch(all, rest, 0)[Len(done) + j]
            BY <1>1, <2>2, <3>1
        <3> QED BY <2>0, <3>2
    <2>3. CASE c \in 2 .. Len(chan)
        <3>1. c - 1 \in 0 .. Len(rest) /\ Batch(all, rest, c - 1) = Batch(done, chan, c)
            BY <1>1, <2>3
        <3> QED BY <3>1
    <2> QED BY <1>1, <2>1, <2>2, <2>3
<1>4. ASSUME NEW e PROVE e \in Log(all, rest) <=> e \in Log(done, chan)
    <2>0. all \in Seq(Quad) /\ rest \in Seq(Seq(Quad))
        BY <1>1
    <2>1. e \in Log(all, rest) <=>
             \E b \in 0 .. Len(rest) : \E i \in 1 .. Len(Batch(all, rest, b)) :
                e = Batch(all, rest, b)[i]
        BY <2>0, InLog
    <2>2. e \in Log(done, chan) <=>
             \E b \in 0 .. Len(chan) : \E i \in 1 .. Len(Batch(done, chan, b)) :
                e = Batch(done, chan, b)[i]
        BY InLog
    <2>3. ASSUME e \in Log(all, rest) PROVE e \in Log(done, chan)
        <3>1. PICK b \in 0 .. Len(rest) :
                 \E i \in 1 .. Len(Batch(all, rest, b)) : e = Batch(all, rest, b)[i]
            BY <2>1, <2>3
        <3>2. PICK i \in 1 .. Len(Batch(all, rest, b)) : e = Batch(all, rest, b)[i]
            BY <3>1
        <3>3. PICK c \in 0 .. Len(chan) : \E j \in 1 .. Len(Batch(done, chan, c)) :
                 Batch(all, rest, b)[i] = Batch(done, chan, c)[j]
            BY <1>2
        <3> QED BY <2>2, <3>2, <3>3
    <2>4. ASSUME e \in Log(done, chan) PROVE e \in Log(all, rest)
        <3>1. PICK c \in 0 .. Len(chan) :
                 \E j \in 1 .. Len(Batch(done, chan, c)) : e = Batch(done, chan, c)[j]
            BY <2>2, <2>4
        <3>2. PICK j \in 1 .. Len(Batch(done, chan, c)) : e = Batch(done, chan, c)[j]
            BY <3>1
        <3>3. PICK b \in 0 .. Len(rest) : \E i \in 1 .. Len(Batch(all, rest, b)) :
                 Batch(done, chan, c)[j] = Batch(all, rest, b)[i]
            BY <1>3
        <3> QED BY <2>1, <3>2, <3>3
    <2> QED BY <2>3, <2>4
<1>5. Log(all, rest) = Log(done, chan)
    BY <1>4
<1> QED BY <1>5 DEF all, rest

LEMMA AppliedAscends ==
    ASSUME NEW done \in Seq(Quad), NEW chan \in Seq(Seq(Quad)), chan # << >>, Ascending(done, chan)
    PROVE  Ascending(done \o Head(chan), Tail(chan))
<1> DEFINE all == done \o Head(chan)
           rest == Tail(chan)
<1> SUFFICES ASSUME NEW b \in 0 .. Len(rest), NEW c \in 0 .. Len(rest),
                    NEW i \in 1 .. Len(Batch(all, rest, b)),
                    NEW j \in 1 .. Len(Batch(all, rest, c)),
                    Batch(all, rest, b)[i].file = Batch(all, rest, c)[j].file,
                    Before(b, i, c, j)
             PROVE  Batch(all, rest, b)[i].n < Batch(all, rest, c)[j].n
    BY DEF Ascending
<1>1. /\ WasBatch(done, b, i) \in 0 .. Len(chan)
      /\ WasAt(done, b, i) \in 1 .. Len(Batch(done, chan, WasBatch(done, b, i)))
      /\ Batch(all, rest, b)[i] = Batch(done, chan, WasBatch(done, b, i))[WasAt(done, b, i)]
    BY AppliedPlace
<1>2. /\ WasBatch(done, c, j) \in 0 .. Len(chan)
      /\ WasAt(done, c, j) \in 1 .. Len(Batch(done, chan, WasBatch(done, c, j)))
      /\ Batch(all, rest, c)[j] = Batch(done, chan, WasBatch(done, c, j))[WasAt(done, c, j)]
    BY AppliedPlace
<1>3. /\ Len(rest) \in Nat /\ Len(done) \in Nat
      /\ Len(Batch(all, rest, b)) \in Nat /\ Len(Batch(all, rest, c)) \in Nat
    <2>1. all \in Seq(Quad) /\ rest \in Seq(Seq(Quad)) /\ Len(done) \in Nat
        BY AppliedBatches
    <2> HIDE DEF all, rest
    <2> QED BY <2>1, BatchTyped
<1> HIDE DEF all, rest
<1>4. Before(WasBatch(done, b, i), WasAt(done, b, i), WasBatch(done, c, j), WasAt(done, c, j))
    BY <1>3 DEF Before, WasBatch, WasAt
<1> QED BY <1>1, <1>2, <1>4 DEF Ascending

-----------------------------------------------------------------------------
(* The state: every file in order, and of the log that it has the nquads of  *)
(* each file from the first on without a gap, up to the last one sent while  *)
(* its mapper runs, and all of them once that ended without an error.        *)
FilesInv ==
    /\ file \in [File -> FileState]
    /\ \A f \in File : Ordered(f, file[f])

Has(f, m) == \E q \in Log(applied, nqch) : q.file = f /\ q.n = m

LogTyped == applied \in Seq(Quad) /\ nqch \in Seq(Seq(Quad))
Gapless == \A q \in Log(applied, nqch) : \A m \in 1 .. q.n - 1 : Has(q.file, m)
UpToSent ==
    \A f \in File : file[f].mapper # "done" =>
        /\ \A m \in 1 .. Sent(file[f]) : Has(f, m)
        /\ \A q \in Log(applied, nqch) : q.file = f => q.n <= Sent(file[f])
WholeFiles ==
    \A f \in File : Complete(file[f]) => \A m \in 1 .. Len(SubjectsOf[f]) : Has(f, m)

LogInv == LogTyped /\ Ascending(applied, nqch) /\ Gapless /\ UpToSent /\ WholeFiles

LEMMA OneFile ==
    ASSUME file \in [File -> FileState], NEW f \in File, NEW s \in FileState,
           file' = [file EXCEPT ![f] = s]
    PROVE  /\ file' \in [File -> FileState] /\ file'[f] = s
           /\ \A g \in File \ {f} : file'[g] = file[g]
OBVIOUS

LEMMA MovedKeepsFiles ==
    ASSUME FilesInv, LogInv, NEW f \in File, Moved(f)
    PROVE  FilesInv' /\ LogInv'
<1>1. PICK s : FileOnly(f, s) /\ Kept(f, file[f], s)
    BY DEF Moved
<1>2. Ordered(f, s) /\ s \in FileState
    BY <1>1 DEF Kept, Ordered
<1>3. /\ file' \in [File -> FileState] /\ file'[f] = s
      /\ \A g \in File \ {f} : file'[g] = file[g]
    BY <1>1, <1>2, OneFile DEF FileOnly, FilesInv
<1>4. applied' = applied /\ nqch' = nqch
    BY <1>1 DEF FileOnly
<1>5. \A g, m : Has(g, m)' <=> Has(g, m)
    BY <1>4 DEF Has
<1>6. FilesInv'
    BY <1>2, <1>3 DEF FilesInv
<1>7. LogTyped' /\ Ascending(applied, nqch)' /\ Gapless'
    BY <1>4, <1>5 DEF LogInv, LogTyped, Gapless
<1>8. UpToSent'
    <2> SUFFICES ASSUME NEW g \in File, file'[g].mapper # "done"
                 PROVE  /\ \A m \in 1 .. Sent(file'[g]) : Has(g, m)
                        /\ \A q \in Log(applied, nqch) : q.file = g => q.n <= Sent(file'[g])
        BY <1>4, <1>5 DEF UpToSent
    <2>1. file[g].mapper # "done" /\ Sent(file'[g]) = Sent(file[g])
        BY <1>1, <1>3 DEF Kept
    <2> QED BY <2>1 DEF LogInv, UpToSent
<1>9. WholeFiles'
    <2> SUFFICES ASSUME NEW g \in File, Complete(file'[g])
                 PROVE  \A m \in 1 .. Len(SubjectsOf[g]) : Has(g, m)
        BY <1>5 DEF WholeFiles
    <2>1. Complete(file[g]) \/ (file[g].mapper # "done" /\ Sent(file[g]) = Len(SubjectsOf[g]))
        BY <1>1, <1>3 DEF Kept
    <2> QED BY <2>1 DEF LogInv, UpToSent, WholeFiles
<1> QED BY <1>6, <1>7, <1>8, <1>9 DEF LogInv

(* What a send does to a file: the first sz nquads of its buffer are gone.   *)
Left(r, sz) == [r EXCEPT !.buffer = SubSeq(@, sz + 1, Len(r.buffer))]

SendsFirst(f, r, sz) ==
    LET s == Left(r, sz)
        t == SubSeq(r.buffer, 1, sz)
    IN  /\ Ordered(f, s) /\ s.mapper = r.mapper /\ Sent(s) = Sent(r) + sz
        /\ Len(s.buffer) = Len(r.buffer) - sz
        /\ \A i \in 1 .. Len(s.buffer) : s.buffer[i] = r.buffer[sz + i]
        /\ t \in Seq(Quad) /\ Len(t) = sz
        /\ \A i \in 1 .. sz : t[i] = r.buffer[i]
        /\ \A i \in 1 .. sz : r.buffer[i].file = f /\ r.buffer[i].n = Sent(r) + i

LEMMA DrainedBuffer ==
    ASSUME NEW f \in File, NEW r, Ordered(f, r), r.mapper \in {"drain", "last"},
           NEW sz \in 1 .. Len(r.buffer)
    PROVE  SendsFirst(f, r, sz)
<1>1. r \in FileState /\ Controlled(f, r) /\ Staged(f, r)
    BY DEF Ordered
<1>2. /\ r.buffer \in Seq(Quad) /\ Len(r.buffer) \in Nat /\ Handed(r) \in Int /\ Sent(r) \in Int
      /\ \A i \in 1 .. Len(r.buffer) : r.buffer[i] \in Quad
    BY <1>1, Lengths, ElementOfSeq DEF FileState
<1> DEFINE s == Left(r, sz)
           rest == SubSeq(r.buffer, sz + 1, Len(r.buffer))
           batch == SubSeq(r.buffer, 1, sz)
<1>3. /\ rest \in Seq(Quad) /\ Len(rest) = Len(r.buffer) - sz
      /\ \A i \in 1 .. Len(r.buffer) - sz : rest[i] = r.buffer[sz + i]
    <2> DEFINE m == sz + 1
               n == Len(r.buffer)
    <2>1. /\ m \in Int /\ n \in Int /\ m <= n + 1 /\ n - m + 1 = n - sz
          /\ \A i \in m .. n : r.buffer[i] \in Quad
        BY <1>2
    <2>2. \A i \in 1 .. n - sz : m + i - 1 = sz + i
        BY <1>2
    <2> HIDE DEF m, n
    <2>3. /\ SubSeq(r.buffer, m, n) \in Seq(Quad)
          /\ Len(SubSeq(r.buffer, m, n)) = IF m <= n THEN n - m + 1 ELSE 0
          /\ \A i \in 1 .. n - m + 1 : SubSeq(r.buffer, m, n)[i] = r.buffer[m + i - 1]
        BY <2>1, SubSeqProperties
    <2>4. Len(SubSeq(r.buffer, m, n)) = n - m + 1
        BY <2>1, <2>3
    <2>5. \A i \in 1 .. n - sz : SubSeq(r.buffer, m, n)[i] = r.buffer[sz + i]
        BY <2>1, <2>2, <2>3
    <2> QED BY <2>1, <2>3, <2>4, <2>5 DEF m, n
<1>4. /\ batch \in Seq(Quad) /\ Len(batch) = sz
      /\ \A i \in 1 .. sz : batch[i] = r.buffer[i]
    <2>1. \A i \in 1 .. sz : r.buffer[i] \in Quad
        BY <1>2
    <2>2. /\ batch \in Seq(Quad)
          /\ Len(batch) = IF 1 <= sz THEN sz - 1 + 1 ELSE 0
          /\ \A i \in 1 .. sz - 1 + 1 : batch[i] = r.buffer[1 + i - 1]
        BY <1>2, <2>1, SubSeqProperties
    <2> QED BY <1>2, <2>2
<1>5. s \in FileState
    BY <1>1, <1>3 DEF FileState, Left
<1>6. /\ s.parsed = r.parsed /\ s.nqbuf = r.nqbuf /\ s.buffer = rest
      /\ s.current = r.current /\ s.mapper = r.mapper /\ s.failed = r.failed
      /\ s.parser = r.parser /\ s.flushed = r.flushed
    BY <1>1 DEF FileState, Left
<1> HIDE DEF s, rest, batch
<1>7. Controlled(f, s)
    BY <1>1, <1>6 DEF Controlled
<1>8. Handed(s) = Handed(r) /\ InHand(s) = 0 /\ InHand(r) = 0
    BY <1>6 DEF Handed, InHand
<1>9. Sent(s) = Sent(r) + sz
    BY <1>2, <1>3, <1>6, <1>8 DEF Sent
<1>10. /\ 0 <= Sent(r)
       /\ \A i \in 1 .. Len(r.buffer) : r.buffer[i].file = f /\ r.buffer[i].n = Sent(r) + i
    BY <1>1 DEF Staged
<1>11. Staged(f, s)
    <2>1. \A i \in 1 .. Len(s.nqbuf) : s.nqbuf[i] = Handed(s) + i
        BY <1>1, <1>6, <1>8 DEF Staged
    <2>2. 0 <= Sent(s)
        BY <1>2, <1>9, <1>10
    <2>3. ASSUME NEW i \in 1 .. Len(s.buffer)
          PROVE  s.buffer[i].file = f /\ s.buffer[i].n = Sent(s) + i
        <3>1. i \in 1 .. Len(r.buffer) - sz /\ sz + i \in 1 .. Len(r.buffer)
            BY <1>2, <1>3, <1>6
        <3>2. s.buffer[i] = r.buffer[sz + i]
            BY <1>3, <1>6, <3>1
        <3> QED BY <1>2, <1>9, <1>10, <3>1, <3>2
    <2> QED BY <1>8, <2>1, <2>2, <2>3 DEF Staged
<1>12. Ordered(f, s)
    BY <1>5, <1>7, <1>11 DEF Ordered
<1>13. \A i \in 1 .. sz : r.buffer[i].file = f /\ r.buffer[i].n = Sent(r) + i
    BY <1>2, <1>10
<1>14. /\ Len(s.buffer) = Len(r.buffer) - sz
       /\ \A i \in 1 .. Len(s.buffer) : s.buffer[i] = r.buffer[sz + i]
    BY <1>3, <1>6
<1> QED BY <1>4, <1>6, <1>9, <1>12, <1>13, <1>14 DEF SendsFirst, s, batch

(* What Drain does, by what it sends and what it leaves.                     *)
LEMMA DrainSends ==
    ASSUME FilesInv, NEW f \in File, Drain(f)
    PROVE  \E sz \in 1 .. Len(file[f].buffer) :
              /\ file' = [file EXCEPT ![f] = Left(file[f], sz)]
              /\ nqch' = Append(nqch, SubSeq(file[f].buffer, 1, sz))
              /\ applied' = applied
              /\ file[f].mapper \in {"drain", "last"}
<1>1. file[f].buffer \in Seq(Quad) /\ file[f].buffer # << >>
    BY DEF Drain, FilesInv, FileState
<1>2. Len(file[f].buffer) \in Nat \ {0}
    BY <1>1, EmptySeq
<1>3. batchSize \in Nat \ {0}
    BY LoaderConstants
<1> DEFINE sz == IF Len(file[f].buffer) < batchSize THEN Len(file[f].buffer) ELSE batchSize
<1>4. sz \in 1 .. Len(file[f].buffer)
    BY <1>2, <1>3
<1>5. /\ file' = [file EXCEPT ![f] = Left(file[f], sz)]
      /\ nqch' = Append(nqch, SubSeq(file[f].buffer, 1, sz))
      /\ applied' = applied
      /\ file[f].mapper \in {"drain", "last"}
    BY DEF Drain, FilesInv, FileState, Left
<1> HIDE DEF sz
<1> QED BY <1>4, <1>5

LEMMA DrainKeepsFiles ==
    ASSUME FilesInv, LogInv, NEW f \in File, Drain(f)
    PROVE  FilesInv' /\ LogInv'
<1>1. PICK sz \in 1 .. Len(file[f].buffer) :
         /\ file' = [file EXCEPT ![f] = Left(file[f], sz)]
         /\ nqch' = Append(nqch, SubSeq(file[f].buffer, 1, sz))
         /\ applied' = applied
         /\ file[f].mapper \in {"drain", "last"}
    BY DrainSends
<1> DEFINE r == file[f]
           s == Left(file[f], sz)
           t == SubSeq(file[f].buffer, 1, sz)
<1>2. Ordered(f, r) /\ r.mapper # "done" /\ Sent(r) \in Int
    BY <1>1, Lengths DEF FilesInv, Ordered
<1>3. /\ Ordered(f, s) /\ s.mapper = r.mapper /\ Sent(s) = Sent(r) + sz
      /\ t \in Seq(Quad) /\ Len(t) = sz
      /\ \A i \in 1 .. sz : t[i] = r.buffer[i]
      /\ \A i \in 1 .. sz : r.buffer[i].file = f /\ r.buffer[i].n = Sent(r) + i
    <2>1. Ordered(f, r) /\ r.mapper \in {"drain", "last"} /\ sz \in 1 .. Len(r.buffer)
        BY <1>1, <1>2
    <2> HIDE DEF r
    <2>2. SendsFirst(f, r, sz)
        BY <2>1, DrainedBuffer
    <2> QED BY <2>2 DEF r, SendsFirst
<1>4. \A i \in 1 .. Len(t) : t[i].file = f /\ t[i].n = Sent(r) + i
    BY <1>3
<1>5. sz \in Int /\ 1 <= sz
    BY <1>2, Lengths DEF Ordered
<1>6. /\ file' \in [File -> FileState] /\ file'[f] = s
      /\ \A g \in File \ {f} : file'[g] = file[g]
    BY <1>1, <1>3, OneFile DEF FilesInv, Ordered
<1>7. FilesInv'
    BY <1>3, <1>6 DEF FilesInv
<1>8. /\ applied \in Seq(Quad) /\ nqch \in Seq(Seq(Quad))
      /\ applied' = applied /\ nqch' = Append(nqch, t)
    BY <1>1 DEF LogInv, LogTyped
<1>9. /\ \A m \in 1 .. Sent(r) : Has(f, m)
      /\ \A q \in Log(applied, nqch) : q.file = f => q.n <= Sent(r)
    BY <1>2 DEF LogInv, UpToSent
<1> HIDE DEF r, s, t
<1>10. LogTyped'
    BY <1>3, <1>8, SentBatches DEF LogTyped
<1>11. Ascending(applied, nqch)'
    <2>1. Ascending(applied, nqch)
        BY DEF LogInv
    <2>2. Ascending(applied, Append(nqch, t))
        <3>1. applied \in Seq(Quad) /\ nqch \in Seq(Seq(Quad)) /\ t \in Seq(Quad)
            BY <1>3, <1>8
        <3> QED BY <1>2, <1>4, <1>9, <2>1, <3>1, SentAscends
    <2> QED BY <1>8, <2>2
<1>12. \A q : q \in Log(applied', nqch') <=>
                 q \in Log(applied, nqch) \/ \E i \in 1 .. Len(t) : q = t[i]
    <2> SUFFICES ASSUME NEW e
                 PROVE  e \in Log(applied, Append(nqch, t)) <=>
                           e \in Log(applied, nqch) \/ \E i \in 1 .. Len(t) : e = t[i]
        BY <1>8
    <2>1. applied \in Seq(Quad) /\ nqch \in Seq(Seq(Quad)) /\ t \in Seq(Quad)
        BY <1>3, <1>8
    <2> QED BY <2>1, SentLog
<1>13. \A g, m : Has(g, m) => Has(g, m)'
    BY <1>12 DEF Has
<1>14. \A m \in 1 .. Sent(s) : Has(f, m)'
    <2> SUFFICES ASSUME NEW m \in 1 .. Sent(r) + sz PROVE Has(f, m)'
        BY <1>3
    <2>1. CASE m <= Sent(r)
        BY <2>1, <1>2, <1>9, <1>13
    <2>2. CASE ~(m <= Sent(r))
        <3>1. m - Sent(r) \in 1 .. Len(t) /\ m = Sent(r) + (m - Sent(r))
            BY <2>2, <1>2, <1>3, <1>5
        <3>2. t[m - Sent(r)].file = f /\ t[m - Sent(r)].n = m
            BY <1>4, <3>1
        <3>3. t[m - Sent(r)] \in Log(applied', nqch')
            BY <1>12, <3>1
        <3> QED BY <3>2, <3>3 DEF Has
    <2> QED BY <2>1, <2>2
<1>15. Gapless'
    <2> SUFFICES ASSUME NEW q \in Log(applied', nqch'), NEW m \in 1 .. q.n - 1
                 PROVE  Has(q.file, m)'
        BY DEF Gapless
    <2>1. CASE q \in Log(applied, nqch)
        BY <2>1, <1>13 DEF LogInv, Gapless
    <2>2. CASE \E i \in 1 .. Len(t) : q = t[i]
        <3>1. PICK i \in 1 .. Len(t) : q = t[i]
            BY <2>2
        <3>2. q.file = f /\ q.n = Sent(r) + i /\ i \in Int /\ i <= sz
            BY <1>3, <1>4, <1>5, <3>1
        <3>3. m \in 1 .. Sent(s)
            BY <1>2, <1>3, <1>5, <3>2
        <3> QED BY <1>14, <3>2, <3>3
    <2> QED BY <1>12, <2>1, <2>2
<1>16. UpToSent'
    <2> SUFFICES ASSUME NEW g \in File, file'[g].mapper # "done"
                 PROVE  /\ \A m \in 1 .. Sent(file'[g]) : Has(g, m)'
                        /\ \A q \in Log(applied', nqch') : q.file = g => q.n <= Sent(file'[g])
        BY DEF UpToSent
    <2>1. CASE g = f
        <3>1. ASSUME NEW q \in Log(applied', nqch'), q.file = f PROVE q.n <= Sent(s)
            <4>1. CASE q \in Log(applied, nqch)
                <5>1. applied \in Seq(Quad) /\ nqch \in Seq(Seq(Quad))
                    BY <1>8
                <5>2. q \in Quad
                    BY <4>1, <5>1, LoggedQuad
                <5>3. q.n <= Sent(r)
                    BY <1>9, <3>1, <4>1
                <5>4. q.n \in Int
                    BY <5>2 DEF Quad
                <5> QED BY <1>2, <1>3, <1>5, <5>3, <5>4
            <4>2. CASE \E i \in 1 .. Len(t) : q = t[i]
                BY <4>2, <1>2, <1>3, <1>4, <1>5
            <4> QED BY <1>12, <4>1, <4>2
        <3> QED BY <1>6, <1>14, <2>1, <3>1
    <2>2. CASE g # f
        <3>1. file'[g] = file[g]
            BY <1>6, <2>2
        <3>2. \A q \in Log(applied', nqch') : q.file = g => q \in Log(applied, nqch)
            BY <1>4, <1>12, <2>2
        <3> QED BY <1>13, <3>1, <3>2 DEF LogInv, UpToSent
    <2> QED BY <2>1, <2>2
<1>17. WholeFiles'
    <2> SUFFICES ASSUME NEW g \in File, Complete(file'[g])
                 PROVE  \A m \in 1 .. Len(SubjectsOf[g]) : Has(g, m)'
        BY DEF WholeFiles
    <2>1. g # f /\ Complete(file[g])
        BY <1>2, <1>3, <1>6 DEF Complete
    <2> QED BY <1>13, <2>1 DEF LogInv, WholeFiles
<1> QED BY <1>7, <1>10, <1>11, <1>15, <1>16, <1>17 DEF LogInv

LEMMA SameLogKeepsFiles ==
    ASSUME FilesInv, LogInv, file' = file, LogTyped', Ascending(applied', nqch'),
           Log(applied', nqch') = Log(applied, nqch)
    PROVE  FilesInv' /\ LogInv'
<1>1. \A g, m : Has(g, m)' <=> Has(g, m)
    BY DEF Has
<1> QED BY <1>1 DEF FilesInv, LogInv, Gapless, UpToSent, WholeFiles

LEMMA MutateKeepsFiles ==
    ASSUME FilesInv, LogInv, Mutate
    PROVE  FilesInv' /\ LogInv' /\ Log(applied', nqch') = Log(applied, nqch)
<1>1. file' = file /\ applied \in Seq(Quad) /\ nqch \in Seq(Seq(Quad)) /\ Ascending(applied, nqch)
    BY DEF Mutate, LogInv, LogTyped
<1>2. CASE UNCHANGED <<applied, nqch>>
    BY <1>1, <1>2, SameLogKeepsFiles DEF LogTyped
<1>3. CASE nqch # << >> /\ nqch' = Tail(nqch) /\ applied' = applied \o Head(nqch)
    <2>1. LogTyped'
        BY <1>1, <1>3, AppliedBatches DEF LogTyped
    <2>2. Ascending(applied', nqch')
        BY <1>1, <1>3, AppliedAscends
    <2>3. Log(applied', nqch') = Log(applied, nqch)
        BY <1>1, <1>3, AppliedLog
    <2> QED BY <1>1, <2>1, <2>2, <2>3, SameLogKeepsFiles
<1> QED BY <1>2, <1>3 DEF Mutate

-----------------------------------------------------------------------------
(* Blank nodes: a name is given a UID that no other name has, once, and      *)
(* every nquad in a buffer or in the log carries the UID of its subject.     *)
Nodes ==
    /\ blankNodes \in [Name -> Nat] /\ leased \in Nat
    /\ \A m \in Name : blankNodes[m] <= leased
    /\ \A m, n \in Name : blankNodes[m] = blankNodes[n] /\ blankNodes[m] # NoUID => m = n

Named(uidOf, q) ==
    /\ q.n \in DOMAIN SubjectsOf[q.file]
    /\ q.uid # NoUID
    /\ q.uid = uidOf[SubjectOf(q)]

QuadsNamed ==
    /\ \A f \in File : \A i \in 1 .. Len(file[f].buffer) : Named(blankNodes, file[f].buffer[i])
    /\ \A q \in Log(applied, nqch) : Named(blankNodes, q)

LoaderInv == FilesInv /\ LogInv /\ Nodes /\ QuadsNamed

(* What the mapper has in hand is an nquad of its file.                      *)
LEMMA CurrentNamed ==
    ASSUME FilesInv, NEW f \in File, file[f].mapper \in {"lookup", "assign"}
    PROVE  /\ file[f].current \in DOMAIN SubjectsOf[f] /\ Subject(f) \in Name
           /\ file[f].current \in Nat
<1>1. file[f] \in FileState /\ Controlled(f, file[f]) /\ Staged(f, file[f])
    BY DEF FilesInv, Ordered
<1>2. /\ Len(SubjectsOf[f]) \in Nat /\ Len(file[f].nqbuf) \in Nat /\ Len(file[f].buffer) \in Nat
      /\ file[f].parsed \in Nat /\ file[f].current \in Nat /\ Handed(file[f]) \in Int
    BY <1>1, Lengths
<1>3. InHand(file[f]) = 1
    BY DEF InHand
<1>4. file[f].current = Handed(file[f]) /\ 0 <= Sent(file[f])
    BY <1>1, <1>3 DEF Staged
<1>5. 1 <= Handed(file[f])
    BY <1>2, <1>3, <1>4 DEF Sent
<1>6. Handed(file[f]) <= file[f].parsed
    BY <1>2 DEF Handed
<1>7. file[f].parsed <= Len(SubjectsOf[f])
    BY <1>1 DEF Controlled
<1>8. file[f].current \in 1 .. Len(SubjectsOf[f])
    BY <1>2, <1>4, <1>5, <1>6, <1>7
<1>9. SubjectsOf[f] \in Seq(Name)
    BY LoaderConstants
<1>10. DOMAIN SubjectsOf[f] = 1 .. Len(SubjectsOf[f]) /\ SubjectsOf[f][file[f].current] \in Name
    BY <1>8, <1>9, LenProperties, ElementOfSeq
<1> QED BY <1>2, <1>8, <1>10 DEF Subject

(* Every step of a file but a send is one of those seen above.               *)
LEMMA FileMoves ==
    ASSUME FilesInv, Nodes, NEW f \in File,
           ParserStep(f) \/ Take(f) \/ Lookup(f) \/ Assign(f) \/ Drained(f)
    PROVE  Moved(f)
<1>1. Ordered(f, file[f]) /\ blankNodes \in [Name -> Nat] /\ leased \in Nat
    BY DEF FilesInv, Nodes
<1>2. CASE Lookup(f)
    <2>1. file[f].mapper = "lookup" /\ Subject(f) \in Name
        BY <1>2, CurrentNamed DEF Lookup
    <2>2. CASE Buffer(f, blankNodes[Subject(f)])
        BY <1>1, <2>1, <2>2, BufferKeeps
    <2>3. CASE FileOnly(f, [file[f] EXCEPT !.mapper = "assign"])
        <3> DEFINE r == file[f]
                   s == [r EXCEPT !.mapper = "assign"]
        <3>1. r \in FileState /\ Controlled(f, r) /\ Staged(f, r)
            BY <1>1 DEF Ordered
        <3>2. s \in FileState
            BY <3>1 DEF FileState
        <3>3. /\ s.parsed = r.parsed /\ s.nqbuf = r.nqbuf /\ s.buffer = r.buffer
              /\ s.current = r.current /\ s.mapper = "assign" /\ s.failed = r.failed
              /\ s.parser = r.parser /\ s.flushed = r.flushed /\ r.mapper = "lookup"
            BY <2>1, <3>1 DEF FileState
        <3> HIDE DEF s, r
        <3>4. Controlled(f, s)
            BY <3>1, <3>3 DEF Controlled
        <3>5. Staged(f, s) /\ (s.mapper # "done" => r.mapper # "done" /\ Sent(s) = Sent(r))
            BY <3>1, <3>3, SameStages DEF InHand
        <3>6. Kept(f, r, s)
            BY <3>2, <3>3, <3>4, <3>5 DEF Kept, Ordered, Complete
        <3> QED BY <2>3, <3>6 DEF Moved, s, r
    <2> QED BY <1>2, <2>2, <2>3 DEF Lookup
<1>3. CASE Assign(f)
    <2>1. file[f].mapper = "assign" /\ Subject(f) \in Name
        BY <1>3, CurrentNamed DEF Assign
    <2>2. CASE Buffer(f, blankNodes[Subject(f)])
        BY <1>1, <2>1, <2>2, BufferKeeps
    <2>3. CASE LeaseUID(f)
        <3>1. leased' \in Nat /\ Buffer(f, leased')
            BY <1>1, <2>3 DEF LeaseUID
        <3> QED BY <1>1, <2>1, <3>1, BufferKeeps
    <2>4. CASE MapperFails(f)
        BY <1>1, <2>1, <2>4, MapperFailsKeeps
    <2> QED BY <1>3, <2>2, <2>3, <2>4 DEF Assign
<1>4. CASE ParserStep(f)
    BY <1>1, <1>4, StartKeeps, UnknownFormatKeeps, ChunkKeeps, ParseKeeps,
       FlushKeeps DEF ParserStep
<1>5. CASE Take(f) \/ Drained(f)
    BY <1>1, <1>5, TakeKeeps, DrainedKeeps
<1> QED BY <1>2, <1>3, <1>4, <1>5

Grows(old, new) == \A m \in Name : old[m] # NoUID => new[m] = old[m]

LEMMA NamedStays ==
    ASSUME NEW q \in Quad, NEW old, NEW new, Grows(old, new), Named(old, q)
    PROVE  Named(new, q)
<1>1. q.file \in File
    BY DEF Quad
<1>2. SubjectsOf[q.file] \in Seq(Name) /\ q.n \in DOMAIN SubjectsOf[q.file]
    BY <1>1, LoaderConstants DEF Named
<1>3. SubjectOf(q) \in Name
    BY <1>2, LenProperties, ElementOfSeq DEF SubjectOf
<1> QED BY <1>3 DEF Named, Grows

LEMMA NodesStep ==
    ASSUME FilesInv, Nodes, NEW f \in File,
           ParserStep(f) \/ MapperStep(f)
    PROVE  Nodes' /\ Grows(blankNodes, blankNodes')
<1>1. CASE UNCHANGED <<blankNodes, leased>>
    BY <1>1 DEF Nodes, Grows
<1>2. CASE file[f].mapper = "assign" /\ ~Known(f) /\ LeaseUID(f)
    <2> DEFINE m == Subject(f)
    <2>1. m \in Name /\ blankNodes[m] = NoUID
        BY <1>2, CurrentNamed DEF Known
    <2>2. leased' = leased + 1 /\ blankNodes' = [blankNodes EXCEPT ![m] = leased + 1]
        BY <1>2 DEF LeaseUID
    <2> HIDE DEF m
    <2>3. /\ blankNodes \in [Name -> Nat] /\ leased \in Nat
          /\ \A n \in Name : blankNodes[n] <= leased
          /\ \A n, k \in Name : blankNodes[n] = blankNodes[k] /\ blankNodes[n] # NoUID => n = k
        BY DEF Nodes
    <2>4. /\ blankNodes' \in [Name -> Nat] /\ blankNodes'[m] = leased + 1
          /\ \A n \in Name \ {m} : blankNodes'[n] = blankNodes[n]
        BY <2>1, <2>2, <2>3
    <2>5. \A n \in Name : blankNodes'[n] <= leased'
        BY <2>2, <2>3, <2>4
    <2>6. \A n \in Name \ {m} : blankNodes'[n] # blankNodes'[m]
        BY <2>1, <2>3, <2>4
    <2>7. ASSUME NEW n \in Name, NEW k \in Name, blankNodes'[n] = blankNodes'[k],
                 blankNodes'[n] # NoUID
          PROVE  n = k
        BY <2>3, <2>4, <2>6, <2>7
    <2>8. leased' \in Nat
        BY <2>2, <2>3
    <2>9. Nodes'
        BY <2>4, <2>5, <2>7, <2>8 DEF Nodes
    <2>10. Grows(blankNodes, blankNodes')
        BY <2>1, <2>4 DEF Grows
    <2> QED BY <2>9, <2>10
<1>3. CASE ParserStep(f)
    BY <1>1, <1>3 DEF ParserStep, Start, UnknownFormat, Chunk, Parse, Flush, uids
<1>4. CASE Take(f) \/ Lookup(f) \/ Drain(f) \/ Drained(f)
    BY <1>1, <1>4 DEF Take, Lookup, Drain, Drained, uids
<1>5. CASE Assign(f)
    BY <1>1, <1>2, <1>5 DEF Assign, uids
<1> QED BY <1>3, <1>4, <1>5 DEF MapperStep

LEMMA SameBuffer ==
    ASSUME FilesInv, NEW f \in File, NEW s \in FileState,
           FileOnly(f, s), s.buffer = file[f].buffer
    PROVE  \A g \in File : file'[g].buffer = file[g].buffer
<1>1. /\ file'[f] = s /\ \A g \in File \ {f} : file'[g] = file[g]
    BY OneFile DEF FileOnly, FilesInv
<1> QED BY <1>1

(* What joins a buffer carries the UID that its subject has then.            *)
LEMMA Buffered ==
    ASSUME FilesInv, NEW f \in File, file[f].mapper \in {"lookup", "assign"},
           NEW uidOf, NEW uid \in Nat, uid # NoUID, uid = uidOf[Subject(f)],
           Buffer(f, uid)
    PROVE  \A g \in File : \A i \in 1 .. Len(file'[g].buffer) :
              \/ i \in 1 .. Len(file[g].buffer) /\ file'[g].buffer[i] = file[g].buffer[i]
              \/ Named(uidOf, file'[g].buffer[i])
<1> DEFINE r == file[f]
           quad == [file |-> f, n |-> r.current, uid |-> uid]
<1>1. r \in FileState /\ r.current \in DOMAIN SubjectsOf[f] /\ r.current \in Nat
    BY CurrentNamed DEF FilesInv
<1>2. Named(uidOf, quad) /\ quad \in Quad
    BY <1>1 DEF Named, SubjectOf, Subject, Quad
<1>3. PICK to \in {"drain", "take"} :
          FileOnly(f, [r EXCEPT !.buffer = Append(@, quad), !.mapper = to])
    BY DEF Buffer
<1> DEFINE s == [r EXCEPT !.buffer = Append(@, quad), !.mapper = to]
<1>4. r.buffer \in Seq(Quad)
    BY <1>1 DEF FileState
<1> HIDE DEF quad
<1>5. /\ Append(r.buffer, quad) \in Seq(Quad) /\ Len(Append(r.buffer, quad)) = Len(r.buffer) + 1
      /\ \A i \in 1 .. Len(r.buffer) : Append(r.buffer, quad)[i] = r.buffer[i]
      /\ Append(r.buffer, quad)[Len(r.buffer) + 1] = quad
      /\ Len(r.buffer) \in Nat
    BY <1>2, <1>4, AppendProperties, LenProperties
<1>6. s \in FileState /\ s.buffer = Append(r.buffer, quad)
    BY <1>1, <1>5 DEF FileState
<1>7. FileOnly(f, s)
    BY <1>3
<1> HIDE DEF s, r
<1>8. file' = [file EXCEPT ![f] = s] /\ file \in [File -> FileState]
    BY <1>7 DEF FileOnly, FilesInv
<1>9. file'[f] = s /\ \A g \in File \ {f} : file'[g] = file[g]
    BY <1>6, <1>8, OneFile
<1> SUFFICES ASSUME NEW g \in File, NEW i \in 1 .. Len(file'[g].buffer)
             PROVE  \/ i \in 1 .. Len(file[g].buffer) /\ file'[g].buffer[i] = file[g].buffer[i]
                    \/ Named(uidOf, file'[g].buffer[i])
    OBVIOUS
<1>10. CASE g # f
    BY <1>9, <1>10
<1>11. CASE g = f
    <2>1. file'[g].buffer = Append(r.buffer, quad) /\ file[g].buffer = r.buffer
        BY <1>6, <1>9, <1>11 DEF r
    <2>2. i \in 1 .. Len(r.buffer) \/ i = Len(r.buffer) + 1
        BY <1>5, <2>1
    <2> QED BY <1>2, <1>5, <2>1, <2>2
<1> QED BY <1>10, <1>11

LEMMA BuffersStayNamed ==
    ASSUME FilesInv, Nodes, QuadsNamed, NEW f \in File,
           ParserStep(f) \/ Take(f) \/ Lookup(f) \/ Assign(f) \/ Drained(f)
    PROVE  \A g \in File : \A i \in 1 .. Len(file'[g].buffer) :
              \/ i \in 1 .. Len(file[g].buffer) /\ file'[g].buffer[i] = file[g].buffer[i]
              \/ Named(blankNodes', file'[g].buffer[i])
<1> DEFINE r == file[f]
<1>1. r \in FileState /\ blankNodes \in [Name -> Nat] /\ leased \in Nat
    BY DEF FilesInv, Nodes
<1>2. ASSUME NEW s \in FileState, FileOnly(f, s), s.buffer = r.buffer
      PROVE  \A g \in File : file'[g].buffer = file[g].buffer
    BY <1>2, SameBuffer
<1> DEFINE Goes(s) == FileOnly(f, s) => \A g \in File : file'[g].buffer = file[g].buffer
<1>3. CASE Start(f) \/ UnknownFormat(f) \/ Chunk(f) \/ Flush(f)
    <2>1. /\ Goes([r EXCEPT !.parser = "done", !.mapper = "done", !.failed = TRUE])
          /\ Goes([r EXCEPT !.parser = "chunk", !.mapper = "take"])
          /\ Goes([r EXCEPT !.parser = "done", !.failed = TRUE])
          /\ Goes([r EXCEPT !.parser = "done", !.flushed = TRUE])
          /\ Goes([r EXCEPT !.parser = "parse"])
          /\ Goes([r EXCEPT !.parser = "flush"])
        BY <1>1, <1>2 DEF FileState
    <2> HIDE DEF Goes
    <2>2. CASE Start(f)
        BY <2>1, <2>2 DEF Start, Goes
    <2>5. CASE UnknownFormat(f)
        BY <2>1, <2>5 DEF UnknownFormat, Goes
    <2>3. CASE Chunk(f)
        BY <2>1, <2>3 DEF Chunk, ParserFails, Goes
    <2>4. CASE Flush(f)
        BY <2>1, <2>4 DEF Flush, Goes
    <2> QED BY <1>3, <2>2, <2>3, <2>4, <2>5
<1>4. CASE Parse(f)
    <2>1. PICK next \in {"chunk", "flush"} :
              FileOnly(f, [r EXCEPT !.parser = next, !.parsed = @ + 1,
                                    !.nqbuf = Append(@, r.parsed + 1)])
        BY <1>4 DEF Parse
    <2>2. Append(r.nqbuf, r.parsed + 1) \in Seq(Nat) /\ r.parsed + 1 \in Nat
        BY <1>1, AppendProperties DEF FileState
    <2> DEFINE s == [r EXCEPT !.parser = next, !.parsed = @ + 1, !.nqbuf = Append(@, r.parsed + 1)]
    <2>3. s \in FileState /\ s.buffer = r.buffer
        BY <1>1, <2>2 DEF FileState
    <2> HIDE DEF s
    <2> QED BY <1>2, <2>1, <2>3 DEF s
<1>5. CASE MapperFails(f) \/ Drained(f)
    <2>1. /\ Goes([r EXCEPT !.mapper = "done", !.failed = TRUE])
          /\ Goes([r EXCEPT !.mapper = IF @ = "last" THEN "done" ELSE "take"])
        BY <1>1, <1>2 DEF FileState
    <2> QED BY <1>5, <2>1 DEF MapperFails, Drained
<1>6. CASE Take(f)
    <2>1. CASE FileOnly(f, [r EXCEPT !.mapper = "last"])
        <3>1. Goes([r EXCEPT !.mapper = "last"])
            BY <1>1, <1>2 DEF FileState
        <3> QED BY <2>1, <3>1
    <2>2. CASE /\ r.nqbuf # << >>
               /\ FileOnly(f, [r EXCEPT !.mapper = "lookup", !.current = Head(r.nqbuf),
                                        !.nqbuf = Tail(@)])
        <3>1. Head(r.nqbuf) \in Nat /\ Tail(r.nqbuf) \in Seq(Nat)
            BY <1>1, <2>2, HeadTailProperties DEF FileState
        <3> DEFINE s == [r EXCEPT !.mapper = "lookup", !.current = Head(r.nqbuf), !.nqbuf = Tail(@)]
        <3>2. s \in FileState /\ s.buffer = r.buffer
            BY <1>1, <3>1 DEF FileState
        <3> HIDE DEF s
        <3> QED BY <1>2, <2>2, <3>2 DEF s
    <2> QED BY <1>5, <1>6, <2>1, <2>2 DEF Take
<1>7. ASSUME file[f].mapper \in {"lookup", "assign"}, Known(f), UNCHANGED blankNodes,
             Buffer(f, blankNodes[Subject(f)])
      PROVE  \A g \in File : \A i \in 1 .. Len(file'[g].buffer) :
                \/ i \in 1 .. Len(file[g].buffer) /\ file'[g].buffer[i] = file[g].buffer[i]
                \/ Named(blankNodes', file'[g].buffer[i])
    <2>1. Subject(f) \in Name /\ blankNodes[Subject(f)] \in Nat /\ blankNodes[Subject(f)] # NoUID
        BY <1>1, <1>7, CurrentNamed DEF Known
    <2> QED BY <1>7, <2>1, Buffered
<1>8. CASE Lookup(f)
    <2>1. CASE FileOnly(f, [r EXCEPT !.mapper = "assign"])
        <3>1. Goes([r EXCEPT !.mapper = "assign"])
            BY <1>1, <1>2 DEF FileState
        <3> QED BY <2>1, <3>1
    <2> QED BY <1>7, <1>8, <2>1 DEF Lookup, uids
<1>9. CASE Assign(f)
    <2>1. CASE LeaseUID(f)
        <3>1. file[f].mapper = "assign" /\ Subject(f) \in Name
            BY <1>9, CurrentNamed DEF Assign
        <3>2. /\ leased' \in Nat /\ leased' # NoUID /\ leased' = blankNodes'[Subject(f)]
              /\ Buffer(f, leased')
            BY <1>1, <2>1, <3>1 DEF LeaseUID, NoUID
        <3> QED BY <3>1, <3>2, Buffered
    <2> QED BY <1>5, <1>7, <1>9, <2>1 DEF Assign, uids
<1> QED BY <1>3, <1>4, <1>5, <1>6, <1>8, <1>9 DEF ParserStep

LEMMA LoaderInitially == Init => LoaderInv
<1> SUFFICES ASSUME Init PROVE LoaderInv
    OBVIOUS
<1>1. applied \in Seq(Quad) /\ nqch \in Seq(Seq(Quad)) /\ Len(nqch) = 0 /\ Len(applied) = 0
    BY EmptySeq DEF Init
<1>2. \A q : q \notin Log(applied, nqch)
    <2> SUFFICES ASSUME NEW e, e \in Log(applied, nqch) PROVE FALSE
        OBVIOUS
    <2>1. PICK b \in 0 .. Len(nqch) :
             \E i \in 1 .. Len(Batch(applied, nqch, b)) : e = Batch(applied, nqch, b)[i]
        <3>1. applied \in Seq(Quad) /\ nqch \in Seq(Seq(Quad))
            BY <1>1
        <3> QED BY <3>1, InLog
    <2>2. b = 0 /\ Batch(applied, nqch, b) = applied
        BY <1>1, <2>1 DEF Batch
    <2> QED BY <1>1, <2>1, <2>2
<1>3. Ascending(applied, nqch)
    <2> SUFFICES ASSUME NEW b \in 0 .. Len(nqch), NEW i \in 1 .. Len(Batch(applied, nqch, b))
                 PROVE  FALSE
        BY DEF Ascending
    <2>1. b = 0 /\ Batch(applied, nqch, b) = applied
        BY <1>1 DEF Batch
    <2> QED BY <1>1, <2>1
<1>4. << >> \in Seq(Nat) /\ << >> \in Seq(Quad) /\ Len(<< >>) = 0
    BY EmptySeq
<1>5. file = [f \in File |-> Queued] /\ Queued \in FileState
    BY <1>4 DEF Init, Queued, FileState
<1>6. /\ Queued.mapper = "queued" /\ Queued.parser = "queued"
      /\ Queued.parsed = 0 /\ Queued.nqbuf = << >>
      /\ ~Queued.flushed /\ Queued.buffer = << >>
    BY DEF Queued
<1>7. Handed(Queued) = 0 /\ InHand(Queued) = 0 /\ Sent(Queued) = 0
    <2>1. Len(Queued.nqbuf) = 0 /\ Len(Queued.buffer) = 0
        BY <1>4, <1>6
    <2>2. InHand(Queued) = 0
        BY <1>6 DEF InHand
    <2>3. Handed(Queued) = 0
        <3>1. Queued.parsed = 0 /\ Len(Queued.nqbuf) = 0
            BY <1>6, <2>1
        <3> QED BY <3>1 DEF Handed
    <2> QED BY <2>1, <2>2, <2>3 DEF Sent
<1>8. \A f \in File : Ordered(f, Queued)
    <2> SUFFICES ASSUME NEW f \in File PROVE Ordered(f, Queued)
        OBVIOUS
    <2>1. Len(SubjectsOf[f]) \in Nat
        BY <1>5, Lengths
    <2>2. Controlled(f, Queued)
        BY <1>6, <2>1 DEF Controlled
    <2>3. Staged(f, Queued)
        BY <1>4, <1>6, <1>7 DEF Staged
    <2> QED BY <1>5, <2>2, <2>3 DEF Ordered
<1>9. FilesInv
    BY <1>5, <1>8 DEF FilesInv
<1>10. LogInv
    <2>1. \A f \in File : file[f] = Queued
        BY <1>5
    <2>2. \A f \in File : Sent(file[f]) = 0 /\ ~Complete(file[f])
        BY <1>6, <1>7, <2>1 DEF Complete
    <2>3. UpToSent
        BY <1>2, <2>2 DEF UpToSent
    <2> QED BY <1>1, <1>2, <1>3, <2>2, <2>3 DEF LogInv, LogTyped, Gapless, WholeFiles
<1>11. Nodes
    BY DEF Init, Nodes, NoUID
<1>12. QuadsNamed
    BY <1>2, <1>4, <1>5, <1>6 DEF QuadsNamed
<1> QED BY <1>9, <1>10, <1>11, <1>12 DEF LoaderInv

LEMMA DrainKeepsNamed ==
    ASSUME LoaderInv, NEW f \in File, Drain(f)
    PROVE  QuadsNamed'
<1>1. FilesInv /\ LogInv /\ blankNodes' = blankNodes
    BY DEF LoaderInv, Drain, uids
<1>2. PICK sz \in 1 .. Len(file[f].buffer) :
         /\ file' = [file EXCEPT ![f] = Left(file[f], sz)]
         /\ nqch' = Append(nqch, SubSeq(file[f].buffer, 1, sz))
         /\ applied' = applied
         /\ file[f].mapper \in {"drain", "last"}
    BY <1>1, DrainSends
<1> DEFINE r == file[f]
           s == Left(file[f], sz)
           t == SubSeq(file[f].buffer, 1, sz)
<1>3. /\ s \in FileState /\ Len(s.buffer) = Len(r.buffer) - sz
      /\ \A i \in 1 .. Len(s.buffer) : s.buffer[i] = r.buffer[sz + i]
      /\ t \in Seq(Quad) /\ Len(t) = sz
      /\ \A i \in 1 .. sz : t[i] = r.buffer[i]
    <2>1. Ordered(f, r) /\ r.mapper \in {"drain", "last"} /\ sz \in 1 .. Len(r.buffer)
        BY <1>1, <1>2 DEF FilesInv
    <2> HIDE DEF r
    <2>2. SendsFirst(f, r, sz)
        BY <2>1, DrainedBuffer
    <2> QED BY <2>2 DEF r, SendsFirst, Ordered
<1>4. /\ Len(r.buffer) \in Nat /\ sz \in 1 .. Len(r.buffer)
      /\ \A i \in 1 .. Len(r.buffer) : Named(blankNodes, r.buffer[i])
    BY <1>1, Lengths DEF LoaderInv, QuadsNamed, FilesInv
<1>5. file'[f] = s /\ \A g \in File \ {f} : file'[g] = file[g]
    BY <1>1, <1>2, <1>3, OneFile DEF FilesInv
<1>6. applied \in Seq(Quad) /\ nqch \in Seq(Seq(Quad))
    BY <1>1 DEF LogInv, LogTyped
<1>7. applied' = applied /\ nqch' = Append(nqch, t)
    BY <1>2
<1> HIDE DEF r, s, t
<1>8. ASSUME NEW g \in File, NEW i \in 1 .. Len(file'[g].buffer)
      PROVE  Named(blankNodes, file'[g].buffer[i])
    <2>1. CASE g # f
        BY <1>5, <1>8, <2>1 DEF LoaderInv, QuadsNamed
    <2>2. CASE g = f
        <3>1. i \in 1 .. Len(s.buffer) /\ sz + i \in 1 .. Len(r.buffer)
            BY <1>3, <1>4, <1>5, <2>2
        <3> QED BY <1>3, <1>4, <1>5, <2>2, <3>1
    <2> QED BY <2>1, <2>2
<1>9. ASSUME NEW e \in Log(applied', nqch') PROVE Named(blankNodes, e)
    <2>1. e \in Log(applied, Append(nqch, t))
        BY <1>7, <1>9
    <2>2. e \in Log(applied, nqch) \/ \E i \in 1 .. Len(t) : e = t[i]
        BY <1>3, <1>6, <2>1, SentLog
    <2>3. \A i \in 1 .. Len(t) : Named(blankNodes, t[i])
        BY <1>3, <1>4
    <2> QED BY <2>2, <2>3 DEF LoaderInv, QuadsNamed
<1> QED BY <1>1, <1>8, <1>9 DEF QuadsNamed

LEMMA LoaderStep == LoaderInv /\ [Next]_vars => LoaderInv'
<1> SUFFICES ASSUME LoaderInv, [Next]_vars PROVE LoaderInv'
    OBVIOUS
<1>1. FilesInv /\ LogInv /\ Nodes /\ QuadsNamed
    BY DEF LoaderInv
<1>2. ASSUME NEW f \in File, ParserStep(f) \/ Take(f) \/ Lookup(f) \/ Assign(f) \/ Drained(f)
      PROVE  LoaderInv'
    <2>1. Moved(f)
        BY <1>1, <1>2, FileMoves
    <2>2. FilesInv' /\ LogInv'
        BY <1>1, <2>1, MovedKeepsFiles
    <2>3. Nodes' /\ Grows(blankNodes, blankNodes')
        BY <1>1, <1>2, NodesStep DEF MapperStep
    <2>4. \A g \in File : \A i \in 1 .. Len(file'[g].buffer) :
              \/ i \in 1 .. Len(file[g].buffer) /\ file'[g].buffer[i] = file[g].buffer[i]
              \/ Named(blankNodes', file'[g].buffer[i])
        BY <1>1, <1>2, BuffersStayNamed
    <2>5. ASSUME NEW g \in File, NEW i \in 1 .. Len(file[g].buffer)
          PROVE  Named(blankNodes', file[g].buffer[i])
        <3>1. file[g].buffer \in Seq(Quad)
            BY <1>1 DEF FilesInv, FileState
        <3>2. file[g].buffer[i] \in Quad
            BY <2>5, <3>1, ElementOfSeq
        <3> QED BY <1>1, <2>3, <2>5, <3>2, NamedStays DEF QuadsNamed
    <2>6. Log(applied', nqch') = Log(applied, nqch)
        BY <2>1 DEF Moved, FileOnly
    <2>7. ASSUME NEW e \in Log(applied, nqch) PROVE Named(blankNodes', e)
        <3>1. e \in Quad
            BY <1>1, LoggedQuad DEF LogInv, LogTyped
        <3> QED BY <1>1, <2>3, <2>7, <3>1, NamedStays DEF QuadsNamed
    <2>8. QuadsNamed'
        BY <2>4, <2>5, <2>6, <2>7 DEF QuadsNamed
    <2> QED BY <2>2, <2>3, <2>8 DEF LoaderInv
<1>3. ASSUME NEW f \in File, Drain(f) PROVE LoaderInv'
    <2>1. FilesInv' /\ LogInv'
        BY <1>1, <1>3, DrainKeepsFiles
    <2>2. Nodes'
        BY <1>1, <1>3, NodesStep DEF MapperStep
    <2>3. QuadsNamed'
        BY <1>3, DrainKeepsNamed
    <2> QED BY <2>1, <2>2, <2>3 DEF LoaderInv
<1>4. CASE Mutate
    <2>1. FilesInv' /\ LogInv' /\ Log(applied', nqch') = Log(applied, nqch)
        BY <1>1, <1>4, MutateKeepsFiles
    <2>2. file' = file /\ blankNodes' = blankNodes /\ leased' = leased
        BY <1>4 DEF Mutate, uids
    <2>3. Nodes' /\ QuadsNamed'
        BY <1>1, <2>1, <2>2 DEF Nodes, QuadsNamed
    <2> QED BY <2>1, <2>3 DEF LoaderInv
<1>5. CASE LoadData \/ Report \/ CancelInCtx \/ UNCHANGED vars
    <2>1. /\ file' = file /\ blankNodes' = blankNodes /\ leased' = leased
          /\ applied' = applied /\ nqch' = nqch
        BY <1>5 DEF LoadData, Report, CancelInCtx, vars, uids
    <2>2. FilesInv' /\ LogInv'
        BY <1>1, <2>1, SameLogKeepsFiles DEF LogInv, LogTyped
    <2>3. Nodes' /\ QuadsNamed'
        BY <1>1, <2>1 DEF Nodes, QuadsNamed
    <2> QED BY <2>2, <2>3 DEF LoaderInv
<1> QED BY <1>2, <1>3, <1>4, <1>5 DEF Next, MapperStep

LEMMA AppliedLogged ==
    ASSUME LogInv, NEW i \in DOMAIN applied
    PROVE  /\ applied[i] \in Log(applied, nqch) /\ applied[i] \in Quad
           /\ i \in 1 .. Len(applied) /\ DOMAIN applied = 1 .. Len(applied) /\ Len(applied) \in Nat
           /\ 0 \in 0 .. Len(nqch) /\ Batch(applied, nqch, 0) = applied
<1>1. applied \in Seq(Quad) /\ nqch \in Seq(Seq(Quad))
    BY DEF LogInv, LogTyped
<1>2. i \in 1 .. Len(applied) /\ DOMAIN applied = 1 .. Len(applied) /\ Len(applied) \in Nat
    BY <1>1, LenProperties
<1>3. 0 \in 0 .. Len(nqch) /\ Batch(applied, nqch, 0) = applied
    BY <1>1, LenProperties DEF Batch
<1>4. applied[i] \in Log(applied, nqch)
    BY <1>1, <1>2, <1>3, InLog
<1>5. applied[i] \in Quad
    BY <1>1, <1>2, ElementOfSeq
<1> QED BY <1>2, <1>3, <1>4, <1>5

(* A blank node is one node in every file and batch, and two names are two:  *)
(* the check of the map of UIDs and the assignment are under one lock.       *)
THEOREM OneNode == Spec => []OneNodePerName
<1>1. LoaderInv => OneNodePerName
    <2> SUFFICES ASSUME LoaderInv, NEW i \in DOMAIN applied, NEW j \in DOMAIN applied
                 PROVE  SubjectOf(applied[i]) = SubjectOf(applied[j])
                           <=> applied[i].uid = applied[j].uid
        BY DEF OneNodePerName
    <2>1. \A k \in DOMAIN applied : Named(blankNodes, applied[k]) /\ applied[k] \in Quad
        BY AppliedLogged DEF LoaderInv, QuadsNamed
    <2>2. \A k \in DOMAIN applied : SubjectOf(applied[k]) \in Name
        <3> SUFFICES ASSUME NEW k \in DOMAIN applied PROVE SubjectOf(applied[k]) \in Name
            OBVIOUS
        <3>1. applied[k].file \in File /\ applied[k].n \in DOMAIN SubjectsOf[applied[k].file]
            BY <2>1 DEF Quad, Named
        <3>2. SubjectsOf[applied[k].file] \in Seq(Name)
            BY <3>1, LoaderConstants
        <3> QED BY <3>1, <3>2, LenProperties, ElementOfSeq DEF SubjectOf
    <2> QED BY <2>1, <2>2 DEF LoaderInv, Nodes, Named
<1> QED BY <1>1, LoaderInitially, LoaderStep, PTL DEF Spec

(* The nquads of a file are applied in the file's order, without a gap: the  *)
(* parser, the mapper, its buffer and nqch keep it, and one goroutine        *)
(* applies the batches.                                                      *)
THEOREM InFileOrder == Spec => []AppliedInOrder
<1>1. LoaderInv => AppliedInOrder
    <2> SUFFICES ASSUME LoaderInv, NEW j \in DOMAIN applied
                 PROVE  {applied[i].n : i \in {k \in 1 .. j - 1 :
                                                   applied[k].file = applied[j].file}}
                           = 1 .. applied[j].n - 1
        BY DEF AppliedInOrder
    <2>1. LogInv /\ QuadsNamed /\ applied \in Seq(Quad) /\ nqch \in Seq(Seq(Quad))
        BY DEF LoaderInv, LogInv, LogTyped
    <2>2. /\ applied[j] \in Log(applied, nqch) /\ applied[j] \in Quad
          /\ j \in 1 .. Len(applied) /\ DOMAIN applied = 1 .. Len(applied) /\ Len(applied) \in Nat
          /\ 0 \in 0 .. Len(nqch) /\ Batch(applied, nqch, 0) = applied
        BY <2>1, AppliedLogged
    <2>3. applied[j].n \in Nat
        BY <2>2 DEF Quad
    <2>4. ASSUME NEW i \in 1 .. j - 1, applied[i].file = applied[j].file
          PROVE  applied[i].n \in 1 .. applied[j].n - 1
        <3>1. i \in DOMAIN applied /\ Before(0, i, 0, j)
            BY <2>2 DEF Before
        <3>2. applied[i].n < applied[j].n
            BY <2>1, <2>2, <2>4, <3>1 DEF LogInv, Ascending
        <3>3. applied[i] \in Log(applied, nqch) /\ applied[i] \in Quad
            BY <2>1, <3>1, AppliedLogged
        <3>4. Named(blankNodes, applied[i])
            BY <2>1, <3>3 DEF QuadsNamed
        <3>5. SubjectsOf[applied[i].file] \in Seq(Name)
            BY <3>3, LoaderConstants DEF Quad
        <3>6. applied[i].n \in 1 .. Len(SubjectsOf[applied[i].file])
            BY <3>4, <3>5, LenProperties DEF Named
        <3>7. applied[i].n \in Nat /\ 1 <= applied[i].n
            BY <3>3, <3>6 DEF Quad
        <3> QED BY <2>3, <3>2, <3>7
    <2>5. ASSUME NEW m \in 1 .. applied[j].n - 1
          PROVE  \E i \in 1 .. j - 1 : applied[i].file = applied[j].file /\ m = applied[i].n
        <3>1. Has(applied[j].file, m)
            BY <2>1, <2>2, <2>5 DEF LogInv, Gapless
        <3>2. PICK e \in Log(applied, nqch) : e.file = applied[j].file /\ e.n = m
            BY <3>1 DEF Has
        <3>3. PICK b \in 0 .. Len(nqch) :
                 \E i \in 1 .. Len(Batch(applied, nqch, b)) : e = Batch(applied, nqch, b)[i]
            BY <2>1, InLog
        <3>4. PICK i \in 1 .. Len(Batch(applied, nqch, b)) : e = Batch(applied, nqch, b)[i]
            BY <3>3
        <3>5. Len(nqch) \in Nat /\ Len(Batch(applied, nqch, b)) \in Nat
            BY <2>1, BatchTyped
        <3>6. m < applied[j].n /\ m \in Int
            BY <2>3
        <3>7. ~Before(0, j, b, i)
            <4> SUFFICES ASSUME Before(0, j, b, i) PROVE FALSE
                OBVIOUS
            <4>1. applied[j].n < e.n
                BY <2>1, <2>2, <3>2, <3>4 DEF LogInv, Ascending
            <4> QED BY <2>3, <3>2, <3>6, <4>1
        <3>8. b = 0 /\ i <= j
            BY <2>2, <3>5, <3>7 DEF Before
        <3>9. i # j
            BY <2>2, <2>3, <3>2, <3>4, <3>6, <3>8
        <3>10. i \in 1 .. j - 1
            BY <2>2, <3>5, <3>8, <3>9
        <3>11. e = applied[i]
            BY <2>2, <3>4, <3>8
        <3> QED BY <3>2, <3>10, <3>11
    <2> QED BY <2>4, <2>5
<1> QED BY <1>1, LoaderInitially, LoaderStep, PTL DEF Spec

(* LoadData returns nil only when every nquad of every file was applied, and *)
(* once, whatever failed in whichever goroutine.                             *)
THEOREM NilIsLoaded == Spec => []NilMeansLoaded
<1>1. LoaderInv /\ Closing => NilMeansLoaded
    <2> SUFFICES ASSUME LoaderInv, Closing, main = "nil",
                        NEW f \in File, NEW n \in DOMAIN SubjectsOf[f]
                 PROVE  \E i \in DOMAIN applied :
                           \A j \in DOMAIN applied :
                              applied[j].file = f /\ applied[j].n = n <=> j = i
        BY DEF NilMeansLoaded, Closing
    <2>1. LogInv /\ FilesInv /\ applied \in Seq(Quad) /\ nqch \in Seq(Seq(Quad))
        BY DEF LoaderInv, LogInv, LogTyped
    <2>2. nqch = << >> /\ ~procErr /\ Processed(f)
        BY DEF Closing
    <2>3. Complete(file[f])
        BY <2>2 DEF procErr, Processed, Complete
    <2>4. n \in 1 .. Len(SubjectsOf[f])
        BY LoaderConstants, LenProperties
    <2>5. Has(f, n)
        BY <2>1, <2>3, <2>4 DEF LogInv, WholeFiles
    <2>6. PICK e \in Log(applied, nqch) : e.file = f /\ e.n = n
        BY <2>5 DEF Has
    <2>7. PICK b \in 0 .. Len(nqch) :
                 \E i \in 1 .. Len(Batch(applied, nqch, b)) : e = Batch(applied, nqch, b)[i]
        BY <2>1, InLog
    <2>8. b = 0 /\ Batch(applied, nqch, b) = applied /\ DOMAIN applied = 1 .. Len(applied)
        <3>1. Len(nqch) = 0
            BY <2>2
        <3> QED BY <2>1, <2>7, <3>1, LenProperties DEF Batch
    <2>9. PICK i \in 1 .. Len(applied) : e = applied[i]
        BY <2>7, <2>8
    <2>10. ASSUME NEW j \in DOMAIN applied, NEW k \in DOMAIN applied,
                  applied[j].file = applied[k].file, j < k
           PROVE  applied[j].n < applied[k].n
        <3>1. /\ 0 \in 0 .. Len(nqch) /\ Batch(applied, nqch, 0) = applied
              /\ j \in 1 .. Len(applied) /\ k \in 1 .. Len(applied)
            BY <2>1, AppliedLogged
        <3>2. Before(0, j, 0, k)
            BY <2>10 DEF Before
        <3> QED BY <2>1, <2>10, <3>1, <3>2 DEF LogInv, Ascending
    <2>11. ASSUME NEW j \in DOMAIN applied, applied[j].file = f, applied[j].n = n PROVE j = i
        <3>1. i \in DOMAIN applied /\ applied[i].file = f /\ applied[i].n = n
            BY <2>6, <2>8, <2>9
        <3>2. n \in Int /\ i \in Int /\ j \in Int
            BY <2>1, <2>4, <2>8, LenProperties
        <3>3. ~(n < n)
            BY <3>2
        <3>4. ~(i < j) /\ ~(j < i)
            BY <2>10, <2>11, <3>1, <3>3
        <3> QED BY <3>2, <3>4
    <2> QED BY <2>6, <2>8, <2>9, <2>11
<1> QED BY <1>1, ClosingInitially, ClosingStep, LoaderInitially, LoaderStep, PTL DEF Spec
=============================================================================
