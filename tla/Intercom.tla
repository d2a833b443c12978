------------------------------ MODULE Intercom ------------------------------
(***************************************************************************)
(* The communication of frontend and backend over Redis: queues for        *)
(* requests, a string key per response, and values that are too large for  *)
(* Redis split into chunks (storage/redis_interface.py).  A client is a    *)
(* request of the frontend (intercom/front_end_binding.py); a listener is  *)
(* a process of the backend (intercom/back_end_binding.py), one for each   *)
(* kind of request, that is never started again.                           *)
(*                                                                         *)
(* A call of Redis is a step.  A message is split if it is large; what is  *)
(* stored under its key or in its queue is then the list of its chunk keys.*)
(***************************************************************************)
EXTENDS Integers, Sequences, FiniteSets, SequencesExt

CONSTANTS
    Clients,       \* requests of the frontend
    Tasks,         \* kinds of requests without a response (an analysis task, ...)
    Queries,       \* kinds of requests with a response (a download, the logs, ...)
    Searches,      \* the queries whose client asks again after a timeout
    ChunkKeys,     \* keys for chunks (10000 of them in the code)
    Chunks,        \* chunks of a message that is split
    MaxFaults,     \* bound: exceptions in listeners
    None           \* no value

Kinds == Tasks \cup Queries

ASSUME IntercomConstants ==
    /\ IsFiniteSet(Clients) /\ IsFiniteSet(ChunkKeys) /\ Tasks \cap Queries = {}
    /\ Searches \subseteq Queries
    /\ Chunks \in Nat /\ Chunks > 1 /\ MaxFaults \in Nat
    /\ Clients \cap Kinds = {}

VARIABLES
    kind,          \* the kind of each client's request
    large,         \* messages that have to be split
    chunk,         \* the chunk keys of Redis: None or a piece of a message
    queue,         \* the queue of each kind
    string,        \* the keys for responses: None or a stored message
    client,        \* per client: its step and what it got
    listener,      \* per kind: its step and the client whose request it has
    writer,        \* per process: the message it splits, a key it found free, its keys
    reader,        \* per process: the chunk keys still to read, the pieces read
    faults,        \* exceptions so far
    clash,         \* a chunk was overwritten by another process
    answered       \* history: the answer that was stored for each client

vars == <<kind, large, chunk, queue, string, client, listener, writer, reader, faults, clash,
          answered>>

\* A message is the request or the response of a client.
Request(c) == <<"request", c>>
Response(c) == <<"response", c>>
Messages == {"request", "response"} \X Clients
Processes == Clients \cup Kinds

\* None is no key, client, answer, piece of a message or stored response.
ASSUME NoneAssumption ==
    /\ None \notin ChunkKeys \cup Clients \cup {"full", "empty"}
    /\ None \notin Messages \X (1 .. Chunks)
    /\ None \notin [msg : Messages, keys : Seq(ChunkKeys), answer : {"full", "empty"}]

NoWrite == [key |-> None, keys |-> <<>>]
NoRead == [left |-> <<>>, got |-> <<>>]

Init ==
    /\ kind \in [Clients -> Kinds]
    /\ large \in SUBSET {m \in Messages : m[1] = "request" \/ kind[m[2]] \in Queries}
    /\ chunk = [k \in ChunkKeys |-> None]
    /\ queue = [k \in Kinds |-> <<>>]
    /\ string = [c \in Clients |-> None]
    /\ client = [c \in Clients |-> [step |-> "start", result |-> None]]
    /\ listener = [k \in Kinds |-> [step |-> "poll", of |-> None, answer |-> None]]
    /\ writer = [p \in Processes |-> NoWrite]
    /\ reader = [p \in Processes |-> NoRead]
    /\ faults = 0
    /\ clash = FALSE
    /\ answered = [c \in Clients |-> None]

\* The pieces of a message, and the value stored for it.
Pieces(msg) == [i \in 1 .. Chunks |-> <<msg, i>>]
Inline(msg) == [msg |-> msg, keys |-> <<>>]
Split(msg, keys) == [msg |-> msg, keys |-> keys]

-----------------------------------------------------------------------------
(* _store_chunks: for each chunk a key that is not in use, then the chunk. *)

\* Mutant: always the same key is tried.
FindFirstKey(p) ==
    /\ writer[p].key = None /\ Len(writer[p].keys) < Chunks
    /\ LET k == CHOOSE k \in ChunkKeys : TRUE IN
         /\ chunk[k] = None
         /\ writer' = [writer EXCEPT ![p].key = k]

FindFreeKey(p) ==
    /\ writer[p].key = None /\ Len(writer[p].keys) < Chunks
    /\ \E k \in ChunkKeys :
         /\ chunk[k] = None
         /\ writer' = [writer EXCEPT ![p].key = k]

SetChunk(p, msg) ==
    /\ writer[p].key # None
    /\ LET k == writer[p].key IN
         /\ chunk' = [chunk EXCEPT ![k] = <<msg, Len(writer[p].keys) + 1>>]
         /\ clash' = (clash \/ chunk[k] # None)
         /\ writer' = [writer EXCEPT ![p] = [key |-> None, keys |-> Append(@.keys, k)]]

\* Splitting is done, or not necessary; the value to be stored.
Ready(p, msg) == IF msg \in large THEN Len(writer[p].keys) = Chunks ELSE TRUE
Value(p, msg) == IF msg \in large THEN Split(msg, writer[p].keys) ELSE Inline(msg)

(* _combine_chunks: the chunks are read and deleted one after the other. *)
\* Mutant: the chunks are not deleted.
ReadChunk(p) ==
    /\ reader[p].left # <<>>
    /\ LET k == Head(reader[p].left) IN
         /\ reader' = [reader EXCEPT ![p] = [left |-> Tail(@.left), got |-> Append(@.got, chunk[k])]]
         /\ chunk' = chunk

PopChunk(p) ==
    /\ reader[p].left # <<>>
    /\ LET k == Head(reader[p].left) IN
         /\ reader' = [reader EXCEPT ![p] = [left |-> Tail(@.left), got |-> Append(@.got, chunk[k])]]
         /\ chunk' = [chunk EXCEPT ![k] = None]

\* Whether the value can be unpickled.  Without a chunk it cannot; what comes of a mixture
\* of two messages depends on their sizes.
Whole(p, msg) == (msg \notin large) \/ reader[p].got = Pieces(msg)
Unpickled(p, msg) ==
    CASE Whole(p, msg)                                  -> {TRUE}
      [] ~Whole(p, msg) /\ None \in ToSet(reader[p].got)  -> {FALSE}
      [] OTHER                                          -> BOOLEAN

-----------------------------------------------------------------------------
(* The frontend *)

AtClient(c, step) == client[c].step = step

ClientSplits(c) ==
    /\ AtClient(c, "start") /\ Request(c) \in large
    /\ \/ FindFreeKey(c) /\ UNCHANGED <<chunk, clash>>
       \/ SetChunk(c, Request(c))
    /\ UNCHANGED <<kind, large, queue, string, client, listener, reader, faults, answered>>

\* _add_to_redis_queue; a request without a response is done.
Push(c) ==
    /\ AtClient(c, "start") /\ Ready(c, Request(c))
    /\ queue' = [queue EXCEPT ![kind[c]] = Append(@, Value(c, Request(c)))]
    /\ writer' = [writer EXCEPT ![c] = NoWrite]
    /\ client' = [client EXCEPT ![c].step = IF kind[c] \in Queries THEN "wait" ELSE "sent"]
    /\ UNCHANGED <<kind, large, chunk, string, listener, reader, faults, clash, answered>>

\* _response_listener: redis.get deletes the key it reads.
Poll(c) ==
    /\ AtClient(c, "wait") /\ string[c] # None
    /\ string' = [string EXCEPT ![c] = None]
    /\ reader' = [reader EXCEPT ![c] = [left |-> string[c].keys, got |-> <<>>]]
    /\ client' = [client EXCEPT ![c] = [step |-> "read", result |-> string[c].answer]]
    /\ UNCHANGED <<kind, large, chunk, queue, listener, writer, faults, clash, answered>>

ClientPops(c) ==
    /\ AtClient(c, "read") /\ PopChunk(c)
    /\ UNCHANGED <<kind, large, queue, string, client, listener, writer, faults, clash, answered>>

\* An empty answer is taken for none: it is gone, and the client waits on.  Pieces
\* that do not fit are an exception.
Receive(c) ==
    /\ AtClient(c, "read") /\ reader[c].left = <<>>
    /\ \E ok \in Unpickled(c, Response(c)) :
         client' = [client EXCEPT ![c] =
                      IF ~ok THEN [step |-> "error", result |-> None]
                      ELSE IF @.result = "empty" THEN [step |-> "wait", result |-> None]
                      ELSE [step |-> "done", result |-> @.result]]
    /\ reader' = [reader EXCEPT ![c] = NoRead]
    /\ UNCHANGED <<kind, large, chunk, queue, string, listener, writer, faults, clash, answered>>

\* Mutant: the response is thrown away at the timeout.
TimeOutForGood(c) ==
    /\ AtClient(c, "wait")
    /\ client' = [client EXCEPT ![c] = [step |-> "timeout", result |-> None]]
    /\ string' = [string EXCEPT ![c] = None]
    /\ (string[c] # None => string[c].keys = <<>>)
    /\ UNCHANGED <<kind, large, chunk, queue, listener, writer, reader, faults, clash, answered>>

TimeOut(c) ==
    /\ AtClient(c, "wait")
    /\ client' = [client EXCEPT ![c] = [step |-> "timeout", result |-> None]]
    /\ UNCHANGED <<kind, large, chunk, queue, string, listener, writer, reader, faults, clash, answered>>

\* get_binary_search_result: the page that waits for a search polls again.
AskAgain(c) ==
    /\ AtClient(c, "timeout") /\ kind[c] \in Searches
    /\ client' = [client EXCEPT ![c].step = "wait"]
    /\ UNCHANGED <<kind, large, chunk, queue, string, listener, writer, reader, faults, clash, answered>>

-----------------------------------------------------------------------------
(* A listener of the backend *)

AtListener(k, step) == listener[k].step = step

\* A RedisError is caught and get_next_task gives None: as long as nothing was
\* popped the state stays as it is, and the listener polls again.  A connection
\* that breaks between the pop and its answer is not modelled.
GetNextTask(k) ==
    /\ AtListener(k, "poll") /\ queue[k] # <<>>
    /\ queue' = [queue EXCEPT ![k] = Tail(@)]
    /\ reader' = [reader EXCEPT ![k] = [left |-> Head(queue[k]).keys, got |-> <<>>]]
    /\ listener' = [listener EXCEPT ![k] = [step |-> "read", of |-> Head(queue[k]).msg[2], answer |-> None]]
    /\ UNCHANGED <<kind, large, chunk, string, client, writer, faults, clash, answered>>

ListenerPops(k) ==
    /\ AtListener(k, "read") /\ PopChunk(k)
    /\ UNCHANGED <<kind, large, queue, string, client, listener, writer, faults, clash, answered>>

\* post_processing.  A value that cannot be put together ends the process, and so
\* does any other exception: only a RedisError of the queue is caught.
Process(k, answer) ==
    /\ AtListener(k, "read") /\ reader[k].left = <<>>
    /\ \E ok \in Unpickled(k, Request(listener[k].of)) :
         /\ listener' = [listener EXCEPT ![k] =
                           IF ~ok THEN [@ EXCEPT !.step = "dead"]
                           ELSE IF k \in Tasks THEN [step |-> "poll", of |-> None, answer |-> None]
                           ELSE [@ EXCEPT !.step = "respond", !.answer = answer]]
         /\ client' = IF ok /\ k \in Tasks
                        THEN [client EXCEPT ![listener[k].of].step = "taken"] ELSE client
    /\ reader' = [reader EXCEPT ![k] = NoRead]
    /\ UNCHANGED <<kind, large, chunk, queue, string, writer, faults, clash, answered>>

Fail(k) ==
    /\ AtListener(k, "read") /\ reader[k].left = <<>> /\ faults < MaxFaults
    /\ faults' = faults + 1
    /\ listener' = [listener EXCEPT ![k].step = "dead"]
    /\ reader' = [reader EXCEPT ![k] = NoRead]
    /\ UNCHANGED <<kind, large, chunk, queue, string, client, writer, clash, answered>>

ListenerSplits(k) ==
    /\ AtListener(k, "respond") /\ Response(listener[k].of) \in large
    /\ \/ FindFreeKey(k) /\ UNCHANGED <<chunk, clash>>
       \/ SetChunk(k, Response(listener[k].of))
    /\ UNCHANGED <<kind, large, queue, string, client, listener, reader, faults, answered>>

SetResponse(k) ==
    /\ AtListener(k, "respond") /\ Ready(k, Response(listener[k].of))
    /\ LET value == Value(k, Response(listener[k].of)) IN
         string' = [string EXCEPT ![listener[k].of] =
                      [msg |-> value.msg, keys |-> value.keys, answer |-> listener[k].answer]]
    /\ answered' = [answered EXCEPT ![listener[k].of] = listener[k].answer]
    /\ writer' = [writer EXCEPT ![k] = NoWrite]
    /\ listener' = [listener EXCEPT ![k] = [step |-> "poll", of |-> None, answer |-> None]]
    /\ UNCHANGED <<kind, large, chunk, queue, client, reader, faults, clash>>

\* An empty answer is small.
Answers(k) == IF listener[k].of # None /\ Response(listener[k].of) \in large
                THEN {"full"} ELSE {"full", "empty"}

ClientStep(c) ==
    ClientSplits(c) \/ Push(c) \/ Poll(c) \/ ClientPops(c) \/ Receive(c) \/ TimeOut(c)
ListenerStep(k) ==
    \/ GetNextTask(k) \/ ListenerPops(k) \/ ListenerSplits(k) \/ SetResponse(k)
    \/ \E answer \in Answers(k) : Process(k, answer)

Next ==
    \/ \E c \in Clients : ClientStep(c) \/ AskAgain(c)
    \/ \E k \in Kinds : ListenerStep(k) \/ Fail(k)

\* The requests of the frontend and the listeners go on if they can.
Fairness ==
    /\ \A c \in Clients : WF_vars(ClientStep(c)) /\ WF_vars(AskAgain(c)) /\ SF_vars(Poll(c))
    /\ \A k \in Kinds : WF_vars(ListenerStep(k))

Spec == Init /\ [][Next]_vars /\ Fairness

-----------------------------------------------------------------------------
(* Properties *)

\* The type of the state.
TypeOK ==
    /\ kind \in [Clients -> Kinds] /\ large \subseteq Messages
    /\ \A k \in ChunkKeys : chunk[k] = None \/ chunk[k] \in Messages \X (1 .. Chunks)
    /\ \A c \in Clients :
         /\ client[c].step \in {"start", "sent", "taken", "wait", "read", "done", "timeout", "error"}
         /\ client[c].result \in {None, "full", "empty"}
    /\ \A k \in Kinds : /\ listener[k].step \in {"poll", "read", "respond", "dead"}
                        /\ listener[k].of \in Clients \cup {None}
    /\ faults \in 0 .. MaxFaults /\ clash \in BOOLEAN

\* The chunk keys that a value in a queue, a stored response, a writer or a reader holds.
Holders ==
    (UNION {{ToSet(queue[k][i].keys) : i \in DOMAIN queue[k]} : k \in Kinds})
    \cup {ToSet(string[c].keys) : c \in {d \in Clients : string[d] # None}}
    \cup {ToSet(writer[p].keys) : p \in Processes}
    \cup {ToSet(reader[p].left) : p \in Processes}

\* The keys of a message are all different, and a value is not forgotten in Redis: a
\* chunk is stored exactly as long as something refers to it (_store_chunks and
\* _combine_chunks).  And only an exception in the work of a listener ends it for good,
\* and nothing makes a request fail.  All this unless two writers find the same key
\* free, and one overwrites the chunk of the other (_get_new_chunk_key checks a key in
\* one call and uses it in another).
ChunksKept ==
    /\ TypeOK
    /\ ~clash => /\ {k \in ChunkKeys : chunk[k] # None} = UNION Holders
                 /\ \A c \in Clients : client[c].step # "error"
                 /\ Cardinality({k \in Kinds : listener[k].step = "dead"}) <= faults

\* _response_listener deletes the answer as it reads it: an answer with content is not
\* lost by this, it is still stored or the client has it.
FullAnswerNotLost ==
    \A c \in Clients :
        (answered[c] = "full" /\ ~clash)
          => \/ string[c] # None /\ string[c].answer = "full" /\ string[c].msg = Response(c)
             \/ client[c].step = "read"
             \/ client[c].step = "done" /\ client[c].result = "full"

\* A request is answered or times out, and a task in a queue is taken, unless the
\* listener of its kind is dead: no process waits for ever for a chunk key.
EveryRequestEnds ==
    \A c \in Clients :
        client[c].step \in {"start", "sent"}
          ~> \/ client[c].step \in {"taken", "done", "timeout", "error"}
             \/ listener[kind[c]].step = "dead"
=============================================================================
