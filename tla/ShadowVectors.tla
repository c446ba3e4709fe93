----------------------------- MODULE ShadowVectors -----------------------------
(* The text of one record with a dgraph:"embedding" field and the shadow     *)
(* vector beside it: Update through process (mutate.go, embedding.go) under  *)
(* WithRetry, and the two calls that write the text without a vector,        *)
(* ClientTxn's staged writes and GetOrInsert.  On a cluster (external) a     *)
(* call is a transaction; on the embedded engine each of its mutations is    *)
(* final.                                                                    *)
EXTENDS Retry

CONSTANTS
    Writer,
    Text,       \* the texts
    Short,      \* those that get no vector: empty, or below the threshold
    NoText,     \* the record is not there, or an omitempty field is not set
    NoVector

ASSUME ShadowConstants == Short \subseteq Text /\ NoText \notin Text /\ NoVector \notin Text

VARIABLES
    embedded,
    policy,
    text, vector,
    kind, input,    \* each writer's call and its text
    pc, attempt,
    outcome,        \* what its last call has returned
    overtaken,      \* the open transactions another has committed a text under
    bare,           \* ghost: the text was written without its vector
    crowded         \* ghost: the calls that were not alone

settings == <<embedded, policy>>
record == <<text, vector, bare>>
call == <<kind, input, crowded>>
vars == <<settings, record, call, pc, attempt, outcome, overtaken>>

(* provider.Embed, or the deletion of the vector. *)
VectorOf(t) == IF t \in Short \cup {NoText} THEN NoVector ELSE t

Init ==
    /\ embedded \in BOOLEAN
    /\ policy \in Policies
    /\ embedded => policy = CHOOSE p \in Policies : TRUE    \* it aborts nothing: any will do
    /\ text = NoText /\ vector = NoVector /\ bare = FALSE
    /\ kind = [w \in Writer |-> "update"]
    /\ input = [w \in Writer |-> NoText]
    /\ pc = [w \in Writer |-> "idle"]
    /\ attempt = [w \in Writer |-> 0]
    /\ outcome = [w \in Writer |-> "none"]
    /\ overtaken = {}
    /\ crowded = {}

Goto(w, s) == pc' = [pc EXCEPT ![w] = s]

Ends(w, result) ==
    /\ Goto(w, "idle")
    /\ outcome' = [outcome EXCEPT ![w] = result]

Active == {w \in Writer : pc[w] # "idle"}

(* One call of WithRetry, of a function that makes one write.                *)
Begin(w) ==
    /\ pc[w] = "idle"
    /\ \E k \in {"update", "stage", "ensure"}, t \in Text \cup {NoText} :
          /\ k = "ensure" => t # NoText
          /\ kind' = [kind EXCEPT ![w] = k]
          /\ input' = [input EXCEPT ![w] = t]
    /\ Goto(w, "write")
    /\ attempt' = [attempt EXCEPT ![w] = 0]
    /\ outcome' = [outcome EXCEPT ![w] = "none"]
    /\ crowded' = IF Active = {} THEN crowded \ {w} ELSE crowded \cup Active \cup {w}
    /\ UNCHANGED <<settings, record, overtaken>>

SetText(w) ==
    IF input[w] = NoText THEN UNCHANGED record
    ELSE text' = input[w] /\ bare' = TRUE /\ UNCHANGED vector

SetVector(w) == vector' = VectorOf(input[w]) /\ bare' = FALSE /\ UNCHANGED text

-----------------------------------------------------------------------------
(* The mutation with the text: on a cluster it waits for the commit.  An     *)
(* update goes on to its vector; GetOrInsert is over if the record is there, *)
(* and with its one request on the embedded engine.                          *)
Write(w) ==
    /\ pc[w] = "write"
    /\ \/ /\ kind[w] = "ensure" /\ text # NoText
          /\ Ends(w, "ok") /\ UNCHANGED record
       \/ /\ kind[w] = "ensure" => text = NoText
          /\ IF embedded THEN SetText(w) ELSE UNCHANGED record
          /\ IF kind[w] = "ensure" /\ embedded THEN Ends(w, "ok")
             ELSE /\ Goto(w, IF kind[w] = "update" THEN "inject" ELSE "commit")
                  /\ UNCHANGED outcome
       \/ Ends(w, "error") /\ UNCHANGED record
    /\ overtaken' = overtaken \ {w}
    /\ UNCHANGED <<settings, call, attempt>>

(* injectShadowVectors: nothing for a field that is not set; else the        *)
(* embedding, which can fail, and the mutation with the vector.              *)
InjectUnset(w) ==                                         \* mutant of Inject
    /\ pc[w] = "inject"
    /\ \/ /\ IF embedded THEN SetVector(w) ELSE UNCHANGED record
          /\ Goto(w, "commit") /\ UNCHANGED outcome
       \/ Ends(w, "error") /\ UNCHANGED record
    /\ UNCHANGED <<settings, call, attempt, overtaken>>

Inject(w) ==
    /\ pc[w] = "inject"
    /\ \/ /\ IF embedded /\ input[w] # NoText THEN SetVector(w) ELSE UNCHANGED record
          /\ Goto(w, "commit") /\ UNCHANGED outcome
       \/ input[w] # NoText /\ Ends(w, "error") /\ UNCHANGED record
    /\ UNCHANGED <<settings, call, attempt, overtaken>>

(* What a commit on the cluster writes, and whom it overtakes.               *)
LandShortKept(w) ==                                       \* mutant of Land
    IF input[w] = NoText THEN UNCHANGED <<record, overtaken>>
    ELSE /\ text' = input[w]
         /\ vector' = IF kind[w] = "update" /\ input[w] \notin Short THEN input[w] ELSE vector
         /\ bare' = (kind[w] # "update")
         /\ overtaken' = overtaken \cup {v \in Writer \ {w} : pc[v] \in {"inject", "commit"}}

Land(w) ==
    IF input[w] = NoText THEN UNCHANGED <<record, overtaken>>
    ELSE /\ text' = input[w]
         /\ vector' = IF kind[w] = "update" THEN VectorOf(input[w]) ELSE vector
         /\ bare' = (kind[w] # "update")
         /\ overtaken' = overtaken \cup {v \in Writer \ {w} : pc[v] \in {"inject", "commit"}}

(* The commit is an empty mutation on the embedded engine.  On a cluster it  *)
(* lands, unless the transaction was overtaken; its answer may be lost.      *)
Commit(w) ==
    /\ pc[w] = "commit"
    /\ \/ /\ embedded \/ w \notin overtaken \/ input[w] = NoText
          /\ IF embedded THEN UNCHANGED <<record, overtaken>> ELSE Land(w)
          /\ \E result \in {"ok", "error"} : Ends(w, result)
       \/ Ends(w, "error") /\ UNCHANGED <<record, overtaken>>
    /\ UNCHANGED <<settings, call, attempt>>

(* An abort, for a conflict or for reasons of the cluster's own: WithRetry   *)
(* waits and tries again, MaxRetries times.                                  *)
AbortForever(w) ==                                        \* mutant of Abort
    /\ pc[w] = "commit" /\ ~embedded
    /\ Goto(w, "write")
    /\ UNCHANGED <<settings, record, call, attempt, outcome, overtaken>>

Abort(w) ==
    /\ pc[w] = "commit" /\ ~embedded
    /\ IF attempt[w] < maxRetries(policy)
         THEN Goto(w, "backoff") /\ UNCHANGED outcome
         ELSE Ends(w, "aborted")
    /\ UNCHANGED <<settings, record, call, attempt, overtaken>>

(* The wait ends, or the caller's context does. *)
Wait(w) ==
    /\ pc[w] = "backoff"
    /\ \/ /\ Goto(w, "write")
          /\ attempt' = [attempt EXCEPT ![w] = @ + 1]
          /\ UNCHANGED outcome
       \/ Ends(w, "error") /\ UNCHANGED attempt
    /\ UNCHANGED <<settings, record, call, overtaken>>

Step(w) == Write(w) \/ Inject(w) \/ Commit(w) \/ Abort(w) \/ Wait(w)

Next == \E w \in Writer : Begin(w) \/ Step(w)

Spec == Init /\ [][Next]_vars /\ \A w \in Writer : WF_vars(Step(w))
-----------------------------------------------------------------------------
(* On a cluster the vector is that of the text in every state a reader can   *)
(* see, with any number of writers and whatever fails, unless the text came  *)
(* from a call that writes none (embedding.go: the shadow vector is          *)
(* maintained; process: the vectors are injected before the commit).         *)
ClusterAgrees == ~embedded /\ ~bare => vector = VectorOf(text)

(* On either backend an Update that no other write overlaps leaves, when it  *)
(* returns nil, its own text with the vector of that text; and one whose     *)
(* field is not set leaves both as they were (embedding.go: a partial update *)
(* must not wipe the vector of an earlier one).                              *)
AloneAgrees ==
    [][\A w \in Writer \ crowded :
          pc[w] # "idle" /\ kind[w] = "update" =>
             IF input[w] = NoText THEN UNCHANGED <<text, vector>>
             ELSE pc[w] = "commit" /\ outcome'[w] = "ok" =>
                     text' = input[w] /\ vector' = VectorOf(input[w])]_vars

(* WithRetry gives an abort to its caller only after the policy's last       *)
(* retry; each delay is at most the cap, and at least what the exponential   *)
(* backoff without overflow would be, for policies that are far enough from  *)
(* the largest duration.                                                     *)
RetriesBackOff ==
    \A w \in Writer :
        /\ outcome[w] = "aborted" => attempt[w] = maxRetries(policy)
        /\ pc[w] = "backoff" =>
              \A d \in delay(policy, attempt[w]) :
                  /\ d <= policy.MaxDelay
                  /\ Sane(policy) => d >= Backoff(policy, attempt[w])

(* Every call returns, however often it is aborted.                          *)
WritesReturn == \A w \in Writer : pc[w] # "idle" ~> pc[w] = "idle"

(* When no call is under way and the last ones returned nil, the vector is   *)
(* that of the text.                                                         *)
TextHasItsVector ==
    (\A w \in Writer : pc[w] = "idle" /\ outcome[w] = "ok") /\ ~bare => vector = VectorOf(text)
=============================================================================
