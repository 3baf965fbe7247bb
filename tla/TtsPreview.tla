----------------------------- MODULE TtsPreview -----------------------------
(***************************************************************************)
(* POST /campaigns/tts-preview next to requests that only query the        *)
(* database. A session takes a connection of the engine's pool with its    *)
(* first statement and keeps it until get_session ends it: a preview keeps *)
(* its connection while the vendor synthesises.                            *)
(***************************************************************************)
EXTENDS Naturals, FiniteSets

CONSTANTS Previews,  \* tts-preview requests
          Queries,   \* requests with one short transaction
          PoolSize   \* connections of the engine's pool, overflow included

Users == Previews \cup Queries

VARIABLES
    pc,         \* where each request stands
    result,     \* the status of its answer, 0 while there is none
    conns,      \* the requests that hold a connection
    providers,  \* the previews whose TTS provider is built and not asked to close
    pcm,        \* the previews that have received audio
    broken      \* history: the previews whose synthesis raised

vars == <<pc, result, conns, providers, pcm, broken>>

Init ==
    /\ pc = [r \in Users |-> "idle"]
    /\ result = [r \in Users |-> 0]
    /\ conns = {} /\ providers = {} /\ pcm = {} /\ broken = {}

GoTo(r, step) == pc' = [pc EXCEPT ![r] = step]
Answers(r, code) == result' = [result EXCEPT ![r] = code]

-----------------------------------------------------------------------------
\* The schema refuses an empty or long text before the handler runs.
Refuse(r) ==
    /\ pc[r] = "idle" /\ r \in Previews
    /\ GoTo(r, "done") /\ Answers(r, 422)
    /\ UNCHANGED <<conns, providers, pcm, broken>>

\* The first statement asks the pool for a connection.
Ask(r) ==
    /\ pc[r] = "idle"
    /\ GoTo(r, "waiting")
    /\ UNCHANGED <<result, conns, providers, pcm, broken>>

\* The connection: CredentialStore.from_db reads the credentials, or the query
\* of a short request runs.
CheckOut(r) ==
    /\ pc[r] = "waiting"
    /\ Cardinality(conns) < PoolSize
    /\ conns' = conns \cup {r}
    /\ IF r \in Previews THEN GoTo(r, "building") /\ UNCHANGED result
                         ELSE GoTo(r, "ending") /\ Answers(r, 200)
    /\ UNCHANGED <<providers, pcm, broken>>

\* The pool's timeout: TimeoutError, a 500.
PoolTimeout(r) ==
    /\ pc[r] = "waiting"
    /\ Cardinality(conns) = PoolSize
    /\ GoTo(r, "done") /\ Answers(r, 500)
    /\ UNCHANGED <<conns, providers, pcm, broken>>

\* No TTS credential is configured, a 400, or from_db or build_volcengine_tts
\* raises anything else, a 500.
BuildFails(r) ==
    /\ pc[r] = "building"
    /\ \E code \in {400, 500} : Answers(r, code)
    /\ GoTo(r, "ending")
    /\ UNCHANGED <<conns, providers, pcm, broken>>

Build(r) ==
    /\ pc[r] = "building"
    /\ providers' = providers \cup {r}
    /\ GoTo(r, "streaming")
    /\ UNCHANGED <<result, conns, pcm, broken>>

Chunk(r) ==
    /\ pc[r] = "streaming"
    /\ pcm' = pcm \cup {r}
    /\ UNCHANGED <<pc, result, conns, providers, broken>>

\* The stream ends: aclose is awaited next.
StreamEnds(r) ==
    /\ pc[r] = "streaming"
    /\ GoTo(r, "closing")
    /\ UNCHANGED <<result, conns, providers, pcm, broken>>

\* Mutant: aclose is called after the try statement, not in its finally.
FailedTo == "ending"

Finally == "closing"

\* ProviderInvalidRequest, ProviderError or anything else, the latter a 500;
\* the finally clause closes the provider all the same.
StreamFails(r) ==
    /\ pc[r] = "streaming"
    /\ \E code \in {400, 500, 502} : Answers(r, code)
    /\ broken' = broken \cup {r}
    /\ GoTo(r, Finally)
    /\ UNCHANGED <<conns, providers, pcm>>

\* Mutant: audio that came before an error is answered.
AudioFirst(r) == IF r \in pcm THEN 200 ELSE IF result[r] # 0 THEN result[r] ELSE 502

\* The exception's status, 502 without audio, or the WAV.
Outcome(r) == IF result[r] # 0 THEN result[r] ELSE IF r \in pcm THEN 200 ELSE 502

\* aclose, then the answer.
Close(r) ==
    /\ pc[r] = "closing"
    /\ providers' = providers \ {r}
    /\ Answers(r, Outcome(r))
    /\ GoTo(r, "ending")
    /\ UNCHANGED <<conns, pcm, broken>>

\* aclose raises: a 500 in place of the WAV or of the exception before it.
CloseRaises(r) ==
    /\ pc[r] = "closing"
    /\ providers' = providers \ {r}
    /\ Answers(r, 500)
    /\ GoTo(r, "ending")
    /\ UNCHANGED <<conns, pcm, broken>>

\* get_session commits or rolls back, the connection returns to the pool.
End(r) ==
    /\ pc[r] = "ending"
    /\ conns' = conns \ {r}
    /\ GoTo(r, "done")
    /\ UNCHANGED <<result, providers, pcm, broken>>

Next ==
    \E r \in Users :
        \/ Refuse(r) \/ Ask(r) \/ CheckOut(r) \/ PoolTimeout(r) \/ BuildFails(r) \/ Build(r)
        \/ Chunk(r) \/ StreamEnds(r) \/ StreamFails(r) \/ Close(r) \/ CloseRaises(r) \/ End(r)

Spec == Init /\ [][Next]_vars

-----------------------------------------------------------------------------
(* Properties.                                                             *)

\* A request that has been answered has no connection of the pool and no
\* provider that was not asked to close (what aclose frees when it raises is
\* the vendor library's affair), and no connection is taken beyond the pool,
\* however previews fail.
NothingLeaks ==
    /\ \A r \in Users : pc[r] = "done" => r \notin conns \cup providers
    /\ Cardinality(conns) <= PoolSize

\* A WAV answer is the whole synthesis: some audio came and the stream did not
\* raise, though the audio of a failed stream is at hand.
WavIsWhole ==
    \A r \in Previews : result[r] = 200 => r \in pcm /\ r \notin broken
=============================================================================
