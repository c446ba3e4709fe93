------------------------------ MODULE LiveLoader ------------------------------
(* live.go: LoadData.  Up to maxRoutines data files are processed at a time; *)
(* in each one goroutine parses and one maps blank nodes to UIDs and sends   *)
(* batches to nqch, from which a single goroutine mutates.  Errgroups cancel *)
(* contexts; a goroutine sees that only where it selects on Done().  The     *)
(* chunker (external) hands nquads over through a channel of its own, nqbuf. *)
EXTENDS Integers, Sequences, FiniteSets

CONSTANTS
    File,             \* the data files, numbered as they were found
    Name,             \* blank node names
    SubjectsOf,       \* each file's nquads, by subject
    maxRoutines,      \* 4 in live.go
    batchSize,        \* 1000
    numBatchesInBuf,  \* 100
    NqchSize,         \* 10000
    NqbufSize,        \* capacity of the chunker's channel
    Faults            \* what may go wrong: "chunk" (its format is unknown, or it cannot
                      \* be read or parsed), "lease", "mutate", "cancel"

ASSUME LoaderConstants ==
    /\ File \subseteq Nat /\ File # {}     \* without files LoadData starts nothing: an error
    /\ SubjectsOf \in [File -> Seq(Name)]
    /\ {maxRoutines, batchSize, numBatchesInBuf, NqchSize, NqbufSize} \subseteq Nat \ {0}
    /\ Faults \subseteq {"chunk", "lease", "mutate", "cancel"}

(* An nquad, the n-th of its file, once its subject has a UID. *)
Quad == [file : File, n : Nat, uid : Nat]
NoUID == 0

VARIABLES
    file,         \* each file's two goroutines, with what is local to them
    blankNodes,   \* the UID of each name
    leased,       \* UIDs leased so far
    nqch, nqchClosed,
    mutator,      \* the mutating goroutine: "run", "done", or "failed" with its last batch
    applied,      \* the nquads handed to Mutate so far, in order
    rootErr,      \* the outer errgroup, rootG, has an error
    cancelled,    \* the caller cancelled inCtx
    reporting,    \* a goroutine of rootG is about to return procG's error
    main          \* LoadData: "wait", "close", "mutations", or its result

uids == <<blankNodes, leased>>
vars == <<file, blankNodes, leased, nqch, nqchClosed, mutator, applied, rootErr, cancelled, reporting, main>>

Queued == [parser |-> "queued", parsed |-> 0, nqbuf |-> << >>, flushed |-> FALSE,
           mapper |-> "queued", current |-> 0, buffer |-> << >>, failed |-> FALSE]

Init ==
    /\ file = [f \in File |-> Queued]
    /\ blankNodes = [n \in Name |-> NoUID]
    /\ leased = 0
    /\ nqch = << >> /\ nqchClosed = FALSE
    /\ mutator = "run"
    /\ applied = << >>
    /\ rootErr = FALSE /\ cancelled = FALSE /\ reporting = FALSE
    /\ main = "wait"

Processed(f) == file[f].parser = "done" /\ file[f].mapper = "done"
InProgress == {f \in File : file[f].parser # "queued" /\ ~Processed(f)}

(* An errgroup has the error of a goroutine that ended with one; its context *)
(* is done from then on, and so are the contexts made from that one.         *)
procErr == \E f \in File : Processed(f) /\ file[f].failed
rootDone == cancelled \/ rootErr
fileDone(f) == rootDone \/ procErr \/ file[f].failed

FileOnly(f, r) ==
    /\ file' = [file EXCEPT ![f] = r]
    /\ UNCHANGED <<nqch, nqchClosed, mutator, applied, rootErr, cancelled, reporting, main>>

-----------------------------------------------------------------------------
(* processFile, the goroutine that chunks and parses.                        *)

Start(f) ==
    /\ file[f].parser = "queued"
    /\ \A g \in File : g < f => file[g].parser # "queued"
    /\ Cardinality(InProgress) < maxRoutines
    /\ FileOnly(f, [file[f] EXCEPT !.parser = "chunk", !.mapper = "take"])
    /\ UNCHANGED uids

(* The early return of processFile. *)
UnknownFormat(f) ==
    /\ "chunk" \in Faults
    /\ file[f].parser = "queued"
    /\ \A g \in File : g < f => file[g].parser # "queued"
    /\ Cardinality(InProgress) < maxRoutines
    /\ FileOnly(f, [file[f] EXCEPT !.parser = "done", !.mapper = "done", !.failed = TRUE])
    /\ UNCHANGED uids

ParserFails(f) == FileOnly(f, [file[f] EXCEPT !.parser = "done", !.failed = TRUE])

Chunk(f) ==
    /\ file[f].parser = "chunk"
    /\ \/ (fileDone(f) \/ "chunk" \in Faults) /\ ParserFails(f)
       \/ /\ ~fileDone(f)
          /\ FileOnly(f, [file[f] EXCEPT
                             !.parser = IF file[f].parsed < Len(SubjectsOf[f]) THEN "parse" ELSE "flush"])
    /\ UNCHANGED uids

(* Parse blocks while nqbuf is full; it does not look at the context.  The  *)
(* end of the file is found with the last nquad or after it.                *)
Parse(f) ==
    /\ file[f].parser = "parse"
    /\ Len(file[f].nqbuf) < NqbufSize
    /\ \E next \in IF file[f].parsed + 1 = Len(SubjectsOf[f]) THEN {"chunk", "flush"} ELSE {"chunk"} :
          FileOnly(f, [file[f] EXCEPT !.parser = next,
                                      !.parsed = @ + 1,
                                      !.nqbuf = Append(@, file[f].parsed + 1)])
    /\ UNCHANGED uids

FlushLeftOpen(f) ==                                       \* mutant of Flush
    /\ file[f].parser = "flush"
    /\ FileOnly(f, [file[f] EXCEPT !.parser = "done"])
    /\ UNCHANGED uids

Flush(f) ==
    /\ file[f].parser = "flush"
    /\ FileOnly(f, [file[f] EXCEPT !.parser = "done", !.flushed = TRUE])
    /\ UNCHANGED uids

-----------------------------------------------------------------------------
(* processFile, the goroutine that maps blank nodes and sends batches.       *)

MapperFails(f) == FileOnly(f, [file[f] EXCEPT !.mapper = "done", !.failed = TRUE])

(* select: of what is ready anything may be taken. *)
Take(f) ==
    /\ file[f].mapper = "take"
    /\ \/ fileDone(f) /\ MapperFails(f)
       \/ /\ file[f].nqbuf # << >>
          /\ FileOnly(f, [file[f] EXCEPT !.mapper = "lookup",
                                         !.current = Head(file[f].nqbuf),
                                         !.nqbuf = Tail(@)])
       \/ /\ file[f].nqbuf = << >> /\ file[f].flushed
          /\ FileOnly(f, [file[f] EXCEPT !.mapper = "last"])
    /\ UNCHANGED uids

Subject(f) == SubjectsOf[f][file[f].current]
Known(f) == blankNodes[Subject(f)] # NoUID

(* The nquad with its UID joins the buffer, which is drained when full. *)
Buffer(f, uid) ==
    LET quad == [file |-> f, n |-> file[f].current, uid |-> uid]
        full == Len(file[f].buffer) + 1 >= numBatchesInBuf * batchSize
    IN  FileOnly(f, [file[f] EXCEPT !.buffer = Append(@, quad),
                                    !.mapper = IF full THEN "drain" ELSE "take"])

(* uid: looked up under the read lock; if it is not there, again under the   *)
(* lock, and leased and noted before the lock is released.                   *)
Lookup(f) ==
    /\ file[f].mapper = "lookup"
    /\ IF Known(f)
         THEN Buffer(f, blankNodes[Subject(f)])
         ELSE FileOnly(f, [file[f] EXCEPT !.mapper = "assign"])
    /\ UNCHANGED uids

LeaseUID(f) ==
    /\ leased' = leased + 1
    /\ blankNodes' = [blankNodes EXCEPT ![Subject(f)] = leased']
    /\ Buffer(f, leased')

AssignUnchecked(f) == file[f].mapper = "assign" /\ LeaseUID(f)      \* mutant of Assign

Assign(f) ==
    /\ file[f].mapper = "assign"
    /\ \/ Known(f) /\ Buffer(f, blankNodes[Subject(f)]) /\ UNCHANGED uids
       \/ ~Known(f) /\ LeaseUID(f)
       \/ ~Known(f) /\ "lease" \in Faults /\ MapperFails(f) /\ UNCHANGED uids

(* drain: a plain send, which blocks while nqch is full.  At the end of the  *)
(* file what is left is sent, and only then.                                 *)
DrainFromEnd(f) ==                                        \* mutant of Drain
    /\ file[f].mapper \in {"drain", "last"}
    /\ file[f].buffer # << >>
    /\ Len(nqch) < NqchSize
    /\ LET left == Len(file[f].buffer)
           sz == IF left < batchSize THEN left ELSE batchSize
       IN  /\ nqch' = Append(nqch, SubSeq(file[f].buffer, left - sz + 1, left))
           /\ file' = [file EXCEPT ![f].buffer = SubSeq(@, 1, left - sz)]
    /\ UNCHANGED <<uids, nqchClosed, mutator, applied, rootErr, cancelled, reporting, main>>

Drain(f) ==
    /\ file[f].mapper \in {"drain", "last"}
    /\ file[f].buffer # << >>
    /\ Len(nqch) < NqchSize
    /\ LET left == Len(file[f].buffer)
           sz == IF left < batchSize THEN left ELSE batchSize
       IN  /\ nqch' = Append(nqch, SubSeq(file[f].buffer, 1, sz))
           /\ file' = [file EXCEPT ![f].buffer = SubSeq(@, sz + 1, left)]
    /\ UNCHANGED <<uids, nqchClosed, mutator, applied, rootErr, cancelled, reporting, main>>

Drained(f) ==
    /\ file[f].mapper \in {"drain", "last"}
    /\ file[f].buffer = << >>
    /\ FileOnly(f, [file[f] EXCEPT !.mapper = IF @ = "last" THEN "done" ELSE "take"])
    /\ UNCHANGED uids

-----------------------------------------------------------------------------
(* The goroutine of rootG that mutates: select takes what is ready.  A batch *)
(* that it received is gone from nqch even if Mutate then fails.             *)
Mutate ==
    /\ mutator = "run"
    /\ \/ /\ rootDone
          /\ mutator' = "done" /\ rootErr' = TRUE
          /\ UNCHANGED <<nqch, applied>>
       \/ /\ nqch # << >>
          /\ nqch' = Tail(nqch)
          /\ applied' = applied \o Head(nqch)
          /\ \/ UNCHANGED <<mutator, rootErr>>
             \/ /\ rootDone \/ "mutate" \in Faults
                /\ mutator' = "failed" /\ rootErr' = TRUE
       \/ /\ nqch = << >> /\ nqchClosed
          /\ mutator' = "done"
          /\ UNCHANGED <<nqch, applied, rootErr>>
    /\ UNCHANGED <<file, uids, nqchClosed, cancelled, reporting, main>>

-----------------------------------------------------------------------------
(* LoadData itself: procG.Wait, its error left to a goroutine of rootG that  *)
(* returns it, close(nqch), rootG.Wait.                                      *)
WaitForStarts ==                                          \* mutant of WaitForFiles
    /\ main = "wait" /\ \A f \in File : file[f].parser # "queued"
    /\ main' = "close" /\ reporting' = procErr
    /\ UNCHANGED <<rootErr, nqchClosed>>

WaitForFiles ==
    /\ main = "wait" /\ \A f \in File : Processed(f)
    /\ main' = "close" /\ reporting' = procErr
    /\ UNCHANGED <<rootErr, nqchClosed>>

ReportNothing ==                                          \* mutant of ReportError
    reporting /\ reporting' = FALSE /\ UNCHANGED <<rootErr, nqchClosed, main>>

ReportError ==
    reporting /\ reporting' = FALSE /\ rootErr' = TRUE /\ UNCHANGED <<nqchClosed, main>>

CloseNqch ==
    main = "close" /\ main' = "mutations" /\ nqchClosed' = TRUE /\ UNCHANGED <<rootErr, reporting>>

WaitForMutations ==
    /\ main = "mutations" /\ mutator # "run" /\ ~reporting
    /\ main' = IF rootErr THEN "error" ELSE "nil"
    /\ UNCHANGED <<rootErr, nqchClosed, reporting>>

LoadData ==
    /\ WaitForFiles \/ CloseNqch \/ WaitForMutations
    /\ UNCHANGED <<file, uids, nqch, mutator, applied, cancelled>>

Report == ReportError /\ UNCHANGED <<file, uids, nqch, mutator, applied, cancelled>>

CancelInCtx ==
    /\ "cancel" \in Faults
    /\ ~cancelled
    /\ cancelled' = TRUE
    /\ UNCHANGED <<file, uids, nqch, nqchClosed, mutator, applied, rootErr, reporting, main>>

Returned == main \in {"nil", "error"}

ParserStep(f) == Start(f) \/ UnknownFormat(f) \/ Chunk(f) \/ Parse(f) \/ Flush(f)
MapperStep(f) == Take(f) \/ Lookup(f) \/ Assign(f) \/ Drain(f) \/ Drained(f)

Next ==
    \/ \E f \in File : ParserStep(f) \/ MapperStep(f)
    \/ Mutate
    \/ LoadData
    \/ Report
    \/ CancelInCtx
    \/ Returned /\ UNCHANGED vars

(* Every goroutine that can go on is scheduled; nothing makes the caller     *)
(* cancel.                                                                   *)
Spec ==
    /\ Init
    /\ [][Next]_vars
    /\ \A f \in File : WF_vars(ParserStep(f)) /\ WF_vars(MapperStep(f))
    /\ WF_vars(Mutate) /\ WF_vars(LoadData) /\ WF_vars(Report)
-----------------------------------------------------------------------------
(* LoadData returns nil only when every nquad of every file was applied, and *)
(* applied once, whatever failed on the way and in whichever goroutine.      *)
NilMeansLoaded ==
    main = "nil" =>
        /\ mutator # "failed"
        /\ \A f \in File : \A n \in DOMAIN SubjectsOf[f] :
              \E i \in DOMAIN applied :
                 \A j \in DOMAIN applied : applied[j].file = f /\ applied[j].n = n <=> j = i

(* A blank node is the same node in every file and in every batch, and two   *)
(* names are two nodes, although the files are mapped concurrently.          *)
SubjectOf(quad) == SubjectsOf[quad.file][quad.n]
OneNodePerName ==
    \A i, j \in DOMAIN applied :
        SubjectOf(applied[i]) = SubjectOf(applied[j]) <=> applied[i].uid = applied[j].uid

(* The nquads of one file are applied in the file's order, so that of two    *)
(* values for one predicate the later one stays: before an nquad come those  *)
(* that are before it in its file, and no other of that file.                *)
AppliedInOrder ==
    \A j \in DOMAIN applied :
        {applied[i].n : i \in {k \in 1 .. j - 1 : applied[k].file = applied[j].file}}
            = 1 .. applied[j].n - 1

(* Nobody sends on nqch after it was closed, which would panic.              *)
NoSendOnClosed == nqchClosed => \A f \in File : Processed(f)

(* LoadData returns, as long as nothing goes wrong: no cycle of full         *)
(* channels, waiting groups and file slots holds it up.                      *)
LoadsToTheEnd == <>(Returned \/ rootDone \/ \E f \in File : file[f].failed)

(* LoadData returns whatever happens: an error cancels the goroutines        *)
(* (live.go, the comment on the context tree).                               *)
LoadReturns == <>Returned
=============================================================================
