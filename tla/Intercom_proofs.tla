--------------------------- MODULE Intercom_proofs ---------------------------
(***************************************************************************)
(* The frontend's two ways to the data.                                    *)
(*   The intercom: no chunk is lost and no answer with content, for any    *)
(* number of clients, of listeners, of chunk keys and of chunks.           *)
(*   The pages that only read: what was stored throughout a request is     *)
(* served, and no page shows what was never stored, for any images, files, *)
(* plugins, results and comparisons, whatever is written in between.       *)
(***************************************************************************)
EXTENDS Intercom, Pages, FiniteSetTheorems, WellFoundedInduction, TLAPS

(***************************************************************************)
(* The inductive invariant, in three parts: the types, the way of a        *)
(* request, and, as long as no chunk was overwritten, the chunks.          *)
(***************************************************************************)
Outcomes == {None, "full", "empty"}
ChunkValues == (Messages \X (1 .. Chunks)) \cup {None}
QueueValues == [msg : Messages, keys : Seq(ChunkKeys)]
StringValues == [msg : Messages, keys : Seq(ChunkKeys), answer : {"full", "empty"}]
ClientStates ==
    [step : {"start", "sent", "taken", "wait", "read", "done", "timeout", "error"},
     result : Outcomes]
ListenerStates ==
    [step : {"poll", "read", "respond", "dead"}, of : Clients \cup {None}, answer : Outcomes]
WriterStates == [key : ChunkKeys \cup {None}, keys : Seq(ChunkKeys)]
ReaderStates == [left : Seq(ChunkKeys), got : Seq(ChunkValues)]

TypeInv ==
    /\ kind \in [Clients -> Kinds] /\ large \in SUBSET Messages
    /\ chunk \in [ChunkKeys -> ChunkValues]
    /\ queue \in [Kinds -> Seq(QueueValues)]
    /\ string \in [Clients -> StringValues \cup {None}]
    /\ client \in [Clients -> ClientStates]
    /\ listener \in [Kinds -> ListenerStates]
    /\ writer \in [Processes -> WriterStates]
    /\ reader \in [Processes -> ReaderStates]
    /\ faults \in 0 .. MaxFaults /\ clash \in BOOLEAN
    /\ answered \in [Clients -> Outcomes]
    /\ \A p \in Processes : /\ Len(writer[p].keys) <= Chunks
                            /\ writer[p].key # None => Len(writer[p].keys) < Chunks
    /\ \A k \in Kinds : /\ listener[k].step = "poll" <=> listener[k].of = None
                        /\ listener[k].step = "respond" => listener[k].answer # None

\* A request waits in the queue of its kind.
Queued(c) == \E n \in DOMAIN queue[kind[c]] : queue[kind[c]][n].msg = Request(c)

\* A listener has only requests of its kind, and answers only queries.
QueueFlow ==
    \A k \in Kinds :
        /\ \A n \in DOMAIN queue[k] : \E c \in Clients : queue[k][n].msg = Request(c) /\ kind[c] = k
        /\ \A m, n \in DOMAIN queue[k] : queue[k][m].msg = queue[k][n].msg => m = n
        /\ listener[k].of # None => kind[listener[k].of] = k
        /\ listener[k].step = "respond" => k \in Queries

\* A request is with its client, in the queue or with the listener, and answered once.
ClientFlow ==
    \A c \in Clients :
        /\ client[c].step = "start" => ~Queued(c) /\ listener[kind[c]].of # c
        /\ Queued(c) => listener[kind[c]].of # c
        /\ answered[c] # None => /\ client[c].step # "start" /\ ~Queued(c)
                                 /\ listener[kind[c]].of # c /\ kind[c] \in Queries
        /\ string[c] # None => string[c].msg = Response(c) /\ string[c].answer = answered[c]
        /\ client[c].step \in {"read", "done"} =>
             string[c] = None /\ client[c].result = answered[c] /\ answered[c] # None
        /\ kind[c] \in Tasks => client[c].step \in {"start", "sent", "taken"}

\* Chunk i of a message is stored under a key that a writer, a reader, the message of a
\* client in the queue or the response to it has at the place of the chunk.
WriterHolds(p, i, k) == i \in 1 .. Len(writer[p].keys) /\ writer[p].keys[i] = k

ReaderHolds(p, i, k) ==
    \E j \in 1 .. Len(reader[p].left) : i = Len(reader[p].got) + j /\ reader[p].left[j] = k

QueueHolds(c, i, k) ==
    \E n \in DOMAIN queue[kind[c]] :
        /\ queue[kind[c]][n].msg = Request(c)
        /\ i \in 1 .. Len(queue[kind[c]][n].keys) /\ queue[kind[c]][n].keys[i] = k

StringHolds(c, i, k) ==
    string[c] # None /\ i \in 1 .. Len(string[c].keys) /\ string[c].keys[i] = k

HoldsRequest(c, i, k) ==
    \/ client[c].step = "start" /\ WriterHolds(c, i, k)
    \/ QueueHolds(c, i, k)
    \/ /\ listener[kind[c]].step = "read" /\ listener[kind[c]].of = c
       /\ ReaderHolds(kind[c], i, k)

HoldsResponse(c, i, k) ==
    \/ /\ listener[kind[c]].step = "respond" /\ listener[kind[c]].of = c
       /\ WriterHolds(kind[c], i, k)
    \/ StringHolds(c, i, k)
    \/ client[c].step = "read" /\ ReaderHolds(c, i, k)

ChunkInv ==
    \A c \in Clients : \A i \in 1 .. Chunks : \A k \in ChunkKeys :
        /\ chunk[k] = <<Request(c), i>> <=> HoldsRequest(c, i, k)
        /\ chunk[k] = <<Response(c), i>> <=> HoldsResponse(c, i, k)

\* A list of keys is as long as the message needs.
KeysFit(msg, keys) == IF msg \in large THEN Len(keys) = Chunks ELSE keys = <<>>

\* What a reader read and what it has to read are the message.
ReaderFits(p, msg) ==
    /\ IF msg \in large THEN Len(reader[p].got) + Len(reader[p].left) = Chunks
                        ELSE reader[p].left = <<>>
    /\ \A j \in DOMAIN reader[p].got : reader[p].got[j] = <<msg, j>>

ClientFits(c) ==
    /\ client[c].step # "start" \/ Request(c) \notin large => writer[c] = NoWrite
    /\ IF client[c].step = "read" THEN ReaderFits(c, Response(c)) ELSE reader[c] = NoRead

ListenerFits(k) ==
    /\ listener[k].step # "respond" \/ Response(listener[k].of) \notin large
         => writer[k] = NoWrite
    /\ IF listener[k].step = "read" THEN ReaderFits(k, Request(listener[k].of))
                                    ELSE reader[k] = NoRead

LengthInv ==
    /\ \A k \in Kinds : \A n \in DOMAIN queue[k] : KeysFit(queue[k][n].msg, queue[k][n].keys)
    /\ \A c \in Clients : string[c] # None => KeysFit(Response(c), string[c].keys)
    /\ \A c \in Clients : ClientFits(c)
    /\ \A k \in Kinds : ListenerFits(k)

Dead == {k \in Kinds : listener[k].step = "dead"}

OutcomeInv ==
    /\ \A c \in Clients : client[c].step # "error"
    /\ \A c \in Clients : answered[c] = "full" =>
         string[c] # None \/ client[c].step \in {"read", "done"}
    /\ IsFiniteSet(Dead) /\ Cardinality(Dead) <= faults

KeptInv == ~clash => ChunkInv /\ LengthInv /\ OutcomeInv


(***************************************************************************)
(* The steps that split a message and put it together.                     *)
(***************************************************************************)
LEMMA ProcessesFacts == Clients \subseteq Processes /\ Kinds \subseteq Processes
    BY DEF Processes

LEMMA FindFreeKeyTypes ==
    ASSUME TypeInv, NEW p \in Processes, FindFreeKey(p)
    PROVE  /\ writer' \in [Processes -> WriterStates]
           /\ \A q \in Processes : Len(writer'[q].keys) <= Chunks
                                   /\ (writer'[q].key # None => Len(writer'[q].keys) < Chunks)
           /\ \A q \in Processes : writer'[q].keys = writer[q].keys
           /\ \A q \in Processes : q # p => writer'[q] = writer[q]
<1>1. PICK k \in ChunkKeys : writer' = [writer EXCEPT ![p].key = k]
    BY DEF FindFreeKey
<1>2. Len(writer[p].keys) < Chunks
    BY DEF FindFreeKey
<1>3. /\ writer \in [Processes -> WriterStates]
      /\ \A q \in Processes : Len(writer[q].keys) <= Chunks
                              /\ (writer[q].key # None => Len(writer[q].keys) < Chunks)
    BY DEF TypeInv
<1> QED
    BY <1>1, <1>2, <1>3 DEF WriterStates

LEMMA SetChunkTypes ==
    ASSUME TypeInv, NEW p \in Processes, NEW msg \in Messages, SetChunk(p, msg)
    PROVE  /\ writer' \in [Processes -> WriterStates]
           /\ \A q \in Processes : Len(writer'[q].keys) <= Chunks
                                   /\ (writer'[q].key # None => Len(writer'[q].keys) < Chunks)
           /\ chunk' \in [ChunkKeys -> ChunkValues]
           /\ clash' \in BOOLEAN
           /\ writer[p].key \in ChunkKeys /\ Len(writer[p].keys) + 1 \in 1 .. Chunks
           /\ writer'[p].keys = Append(writer[p].keys, writer[p].key)
           /\ \A q \in Processes : q # p => writer'[q] = writer[q]
<1> DEFINE k == writer[p].key
           n == Len(writer[p].keys) + 1
<1>1. writer[p] \in WriterStates /\ k # None /\ k \in ChunkKeys /\ writer[p].keys \in Seq(ChunkKeys)
    BY DEF TypeInv, SetChunk, WriterStates
<1>2. Len(writer[p].keys) \in Nat /\ Len(writer[p].keys) < Chunks /\ Chunks \in Nat
    BY <1>1, IntercomConstants DEF TypeInv
<1>3. n \in 1 .. Chunks
    BY <1>2
<1>4. writer' = [writer EXCEPT ![p] = [key |-> None, keys |-> Append(writer[p].keys, k)]]
    BY DEF SetChunk
<1>5. Append(writer[p].keys, k) \in Seq(ChunkKeys) /\ Len(Append(writer[p].keys, k)) = n
    BY <1>1
<1>6. [key |-> None, keys |-> Append(writer[p].keys, k)] \in WriterStates
    BY <1>5 DEF WriterStates
<1>7. writer' \in [Processes -> WriterStates]
    BY <1>4, <1>6 DEF TypeInv
<1>8. writer'[p] = [key |-> None, keys |-> Append(writer[p].keys, k)]
    BY <1>4 DEF TypeInv
<1>9. \A q \in Processes : q # p => writer'[q] = writer[q]
    BY <1>4 DEF TypeInv
<1>10. \A q \in Processes : Len(writer'[q].keys) <= Chunks
                            /\ (writer'[q].key # None => Len(writer'[q].keys) < Chunks)
  <2> SUFFICES ASSUME NEW q \in Processes
               PROVE  Len(writer'[q].keys) <= Chunks
                      /\ (writer'[q].key # None => Len(writer'[q].keys) < Chunks)
      OBVIOUS
  <2>1. CASE q = p
      BY <2>1, <1>8, <1>5, <1>3, <1>2
  <2>2. CASE q # p
      BY <2>2, <1>9 DEF TypeInv
  <2> QED
      BY <2>1, <2>2
<1>11. chunk' = [chunk EXCEPT ![k] = <<msg, n>>]
    BY DEF SetChunk
<1>12. chunk' \in [ChunkKeys -> ChunkValues]
    BY <1>11, <1>3 DEF TypeInv, ChunkValues
<1> QED
    BY <1>1, <1>3, <1>7, <1>8, <1>9, <1>10, <1>12 DEF SetChunk, TypeInv

LEMMA PopChunkTypes ==
    ASSUME TypeInv, NEW p \in Processes, PopChunk(p)
    PROVE  /\ reader' \in [Processes -> ReaderStates]
           /\ chunk' \in [ChunkKeys -> ChunkValues]
           /\ Head(reader[p].left) \in ChunkKeys
           /\ reader[p].left \in Seq(ChunkKeys) /\ reader[p].left # <<>>
           /\ chunk' = [chunk EXCEPT ![Head(reader[p].left)] = None]
           /\ reader'[p] = [left |-> Tail(reader[p].left),
                            got |-> Append(reader[p].got, chunk[Head(reader[p].left)])]
           /\ \A q \in Processes : q # p => reader'[q] = reader[q]
<1> DEFINE k == Head(reader[p].left)
           r == [left |-> Tail(reader[p].left), got |-> Append(reader[p].got, chunk[k])]
<1>1. reader[p] \in ReaderStates /\ reader[p].left \in Seq(ChunkKeys) /\ reader[p].left # <<>>
      /\ reader[p].got \in Seq(ChunkValues)
    BY DEF TypeInv, ReaderStates, PopChunk
<1>2. k \in ChunkKeys /\ Tail(reader[p].left) \in Seq(ChunkKeys)
    BY <1>1
<1>3. chunk[k] \in ChunkValues
    BY <1>2 DEF TypeInv
<1>4. Append(reader[p].got, chunk[k]) \in Seq(ChunkValues)
    BY <1>1, <1>3
<1>5. r \in ReaderStates
    BY <1>2, <1>4 DEF ReaderStates
<1>6. reader' = [reader EXCEPT ![p] = r] /\ chunk' = [chunk EXCEPT ![k] = None]
    BY DEF PopChunk
<1>7. reader' \in [Processes -> ReaderStates] /\ chunk' \in [ChunkKeys -> ChunkValues]
    BY <1>5, <1>6 DEF TypeInv, ChunkValues
<1> QED
    BY <1>1, <1>2, <1>6, <1>7 DEF TypeInv

LEMMA ValueTypes ==
    ASSUME TypeInv, NEW p \in Processes, NEW msg \in Messages
    PROVE  /\ Value(p, msg) \in QueueValues
           /\ Value(p, msg).msg = msg
           /\ Value(p, msg).keys = IF msg \in large THEN writer[p].keys ELSE <<>>
<1>1. writer[p].keys \in Seq(ChunkKeys)
    BY DEF TypeInv, WriterStates
<1> QED
    BY <1>1 DEF Value, Split, Inline, QueueValues

LEMMA NoStates ==
    /\ NoWrite \in WriterStates /\ NoRead \in ReaderStates
    /\ NoWrite.key = None /\ NoWrite.keys = <<>> /\ NoRead.left = <<>> /\ NoRead.got = <<>>
    BY DEF NoWrite, NoRead, WriterStates, ReaderStates

LEMMA MessagesFacts ==
    ASSUME NEW c \in Clients
    PROVE  Request(c) \in Messages /\ Response(c) \in Messages
    BY DEF Request, Response, Messages

(***************************************************************************)
(* Every step keeps the types, whether a chunk was overwritten or not.     *)
(***************************************************************************)
LEMMA InitTypes == Init => TypeInv
<1> SUFFICES ASSUME Init PROVE TypeInv
    OBVIOUS
<1>1. <<>> \in Seq(QueueValues) /\ <<>> \in Seq(ChunkKeys) /\ <<>> \in Seq(ChunkValues)
    OBVIOUS
<1>2. [step |-> "start", result |-> None] \in ClientStates
    BY DEF ClientStates, Outcomes
<1>3. [step |-> "poll", of |-> None, answer |-> None] \in ListenerStates
    BY DEF ListenerStates, Outcomes
<1>4. large \in SUBSET Messages
    BY DEF Init
<1>5. Len(<<>>) = 0 /\ 0 <= Chunks /\ 0 \in 0 .. MaxFaults
    BY IntercomConstants
<1> QED
    BY <1>1, <1>2, <1>3, <1>4, <1>5, NoStates DEF Init, TypeInv, ChunkValues, Outcomes

LEMMA ClientTypes ==
    ASSUME TypeInv, NEW c \in Clients, ClientStep(c) \/ AskAgain(c)
    PROVE  TypeInv'
<1>1. CASE ClientSplits(c)
  <2>1. CASE FindFreeKey(c) /\ UNCHANGED <<chunk, clash>>
      BY <1>1, <2>1, FindFreeKeyTypes, ProcessesFacts DEF ClientSplits, TypeInv
  <2>2. CASE SetChunk(c, Request(c))
      BY <1>1, <2>2, SetChunkTypes, ProcessesFacts, MessagesFacts DEF ClientSplits, TypeInv
  <2> QED
      BY <1>1, <2>1, <2>2 DEF ClientSplits
<1>2. CASE Push(c)
  <2> DEFINE v == Value(c, Request(c))
  <2>1. v \in QueueValues /\ kind[c] \in Kinds
      BY ValueTypes, ProcessesFacts, MessagesFacts DEF TypeInv
  <2>2. queue' = [queue EXCEPT ![kind[c]] = Append(queue[kind[c]], v)]
      BY <1>2 DEF Push
  <2>3. Append(queue[kind[c]], v) \in Seq(QueueValues)
      BY <2>1 DEF TypeInv
  <2>4. queue' \in [Kinds -> Seq(QueueValues)]
      BY <2>2, <2>3 DEF TypeInv
  <2>5. writer' \in [Processes -> WriterStates]
        /\ \A q \in Processes : writer'[q] = NoWrite \/ writer'[q] = writer[q]
      BY <1>2, NoStates DEF Push, TypeInv
  <2>6. client' \in [Clients -> ClientStates]
      BY <1>2 DEF Push, TypeInv, ClientStates
  <2>7. Len(<<>>) = 0 /\ 0 <= Chunks
      BY IntercomConstants
  <2> QED
      BY <1>2, <2>4, <2>5, <2>6, <2>7, NoStates DEF Push, TypeInv
<1>3. CASE Poll(c)
  <2>1. string[c] \in StringValues
      BY <1>3 DEF Poll, TypeInv
  <2>2. [left |-> string[c].keys, got |-> <<>>] \in ReaderStates
      BY <2>1 DEF StringValues, ReaderStates
  <2>3. [step |-> "read", result |-> string[c].answer] \in ClientStates
      BY <2>1 DEF StringValues, ClientStates, Outcomes
  <2>4. reader' \in [Processes -> ReaderStates] /\ client' \in [Clients -> ClientStates]
      BY <1>3, <2>2, <2>3, ProcessesFacts DEF Poll, TypeInv
  <2>5. string' \in [Clients -> StringValues \cup {None}]
      BY <1>3 DEF Poll, TypeInv
  <2> QED
      BY <1>3, <2>4, <2>5 DEF Poll, TypeInv
<1>4. CASE ClientPops(c)
    BY <1>4, PopChunkTypes, ProcessesFacts DEF ClientPops, TypeInv
<1>5. CASE Receive(c)
  <2>1. reader' \in [Processes -> ReaderStates]
      BY <1>5, NoStates DEF Receive, TypeInv
  <2>2. client[c].result \in Outcomes
      BY DEF TypeInv, ClientStates
  <2>3. client' \in [Clients -> ClientStates]
    <3>1. PICK s \in {[step |-> "error", result |-> None], [step |-> "wait", result |-> None],
                      [step |-> "done", result |-> client[c].result]} :
              client' = [client EXCEPT ![c] = s]
        BY <1>5 DEF Receive
    <3>2. s \in ClientStates
        BY <2>2 DEF ClientStates, Outcomes
    <3> QED
        BY <3>1, <3>2 DEF TypeInv
  <2> QED
      BY <1>5, <2>1, <2>3 DEF Receive, TypeInv
<1>6. CASE TimeOut(c)
  <2>1. client' \in [Clients -> ClientStates]
      BY <1>6 DEF TimeOut, TypeInv, ClientStates, Outcomes
  <2> QED
      BY <1>6, <2>1 DEF TimeOut, TypeInv
<1>7. CASE AskAgain(c)
  <2>1. client' \in [Clients -> ClientStates]
      BY <1>7 DEF AskAgain, TypeInv, ClientStates
  <2> QED
      BY <1>7, <2>1 DEF AskAgain, TypeInv
<1> QED
    BY <1>1, <1>2, <1>3, <1>4, <1>5, <1>6, <1>7 DEF ClientStep

LEMMA ListenerFacts ==
    ASSUME TypeInv, NEW k \in Kinds, listener[k].step # "poll"
    PROVE  listener[k].of \in Clients
    BY DEF TypeInv, ListenerStates

LEMMA QueueFacts ==
    ASSUME TypeInv, NEW k \in Kinds, NEW n \in DOMAIN queue[k]
    PROVE  queue[k][n] \in QueueValues /\ queue[k][n].msg[2] \in Clients
<1>1. queue[k][n] \in QueueValues
    BY DEF TypeInv
<1> QED
    BY <1>1 DEF QueueValues, Messages

LEMMA ListenerTypes ==
    ASSUME TypeInv, NEW k \in Kinds, ListenerStep(k) \/ Fail(k)
    PROVE  TypeInv'
<1>1. CASE GetNextTask(k)
  <2>1. 1 \in DOMAIN queue[k] /\ Head(queue[k]) = queue[k][1]
        /\ Tail(queue[k]) \in Seq(QueueValues)
      BY <1>1 DEF GetNextTask, TypeInv
  <2>2. Head(queue[k]) \in QueueValues /\ Head(queue[k]).msg[2] \in Clients
      BY <2>1, QueueFacts
  <2>3. [left |-> Head(queue[k]).keys, got |-> <<>>] \in ReaderStates
      BY <2>2 DEF QueueValues, ReaderStates
  <2>4. [step |-> "read", of |-> Head(queue[k]).msg[2], answer |-> None] \in ListenerStates
      BY <2>2 DEF ListenerStates, Outcomes
  <2>5. queue' \in [Kinds -> Seq(QueueValues)] /\ reader' \in [Processes -> ReaderStates]
      BY <1>1, <2>1, <2>3, ProcessesFacts DEF GetNextTask, TypeInv
  <2>6. listener' = [listener EXCEPT ![k] =
                       [step |-> "read", of |-> Head(queue[k]).msg[2], answer |-> None]]
      BY <1>1 DEF GetNextTask
  <2>7. listener' \in [Kinds -> ListenerStates]
      BY <2>4, <2>6 DEF TypeInv
  <2>8. \A kk \in Kinds : listener'[kk].step = "poll" <=> listener'[kk].of = None
      BY <2>2, <2>6, NoneAssumption DEF TypeInv
  <2> QED
      BY <1>1, <2>5, <2>7, <2>8 DEF GetNextTask, TypeInv
<1>2. CASE ListenerPops(k)
    BY <1>2, PopChunkTypes, ProcessesFacts DEF ListenerPops, TypeInv
<1>3. CASE ListenerSplits(k)
  <2>1. Response(listener[k].of) \in Messages
      BY <1>3, ListenerFacts, MessagesFacts DEF ListenerSplits, AtListener
  <2>2. CASE FindFreeKey(k) /\ UNCHANGED <<chunk, clash>>
      BY <1>3, <2>2, FindFreeKeyTypes, ProcessesFacts DEF ListenerSplits, TypeInv
  <2>3. CASE SetChunk(k, Response(listener[k].of))
      BY <1>3, <2>1, <2>3, SetChunkTypes, ProcessesFacts DEF ListenerSplits, TypeInv
  <2> QED
      BY <1>3, <2>2, <2>3 DEF ListenerSplits
<1>4. CASE SetResponse(k)
  <2> DEFINE c == listener[k].of
             v == Value(k, Response(c))
             s == [msg |-> v.msg, keys |-> v.keys, answer |-> listener[k].answer]
  <2>1. c \in Clients /\ listener[k].answer \in Outcomes
      BY <1>4, ListenerFacts DEF SetResponse, AtListener, TypeInv, ListenerStates
  <2>2. v \in QueueValues
      BY <2>1, ValueTypes, MessagesFacts, ProcessesFacts
  <2>3. listener[k].answer \in {"full", "empty"}
      BY <1>4, <2>1 DEF SetResponse, AtListener, TypeInv, Outcomes
  <2>4. s \in StringValues
      BY <2>2, <2>3 DEF QueueValues, StringValues
  <2>5. string' = [string EXCEPT ![c] = s]
      BY <1>4 DEF SetResponse
  <2>6. string' \in [Clients -> StringValues \cup {None}]
      BY <2>1, <2>4, <2>5 DEF TypeInv
  <2>7. writer' \in [Processes -> WriterStates]
        /\ \A q \in Processes : writer'[q] = NoWrite \/ writer'[q] = writer[q]
      BY <1>4, NoStates DEF SetResponse, TypeInv
  <2>8. Len(<<>>) = 0 /\ 0 <= Chunks
      BY IntercomConstants
  <2>9. [step |-> "poll", of |-> None, answer |-> None] \in ListenerStates
      BY DEF ListenerStates, Outcomes
  <2>10. listener' = [listener EXCEPT ![k] = [step |-> "poll", of |-> None, answer |-> None]]
      BY <1>4 DEF SetResponse
  <2>11. answered' \in [Clients -> Outcomes]
      BY <1>4, <2>1 DEF SetResponse, TypeInv
  <2> QED
      BY <1>4, <2>6, <2>7, <2>8, <2>9, <2>10, <2>11, NoStates DEF SetResponse, TypeInv
<1>5. ASSUME NEW answer \in Answers(k), Process(k, answer)
      PROVE  TypeInv'
  <2> DEFINE c == listener[k].of
  <2>1. c \in Clients /\ answer \in {"full", "empty"} /\ listener[k].step = "read"
      BY <1>5, ListenerFacts DEF Process, AtListener, Answers
  <2>2. reader' \in [Processes -> ReaderStates]
      BY <1>5, NoStates DEF Process, TypeInv
  <2>3. PICK s \in {[listener[k] EXCEPT !.step = "dead"],
                    [step |-> "poll", of |-> None, answer |-> None],
                    [listener[k] EXCEPT !.step = "respond", !.answer = answer]} :
            listener' = [listener EXCEPT ![k] = s]
      BY <1>5 DEF Process
  <2>4. listener[k] \in ListenerStates
      BY DEF TypeInv
  <2>5. s \in ListenerStates /\ (s.step = "poll" <=> s.of = None)
        /\ (s.step = "respond" => s.answer # None)
    <3>1. CASE s = [listener[k] EXCEPT !.step = "dead"]
      <4>1. s \in ListenerStates /\ s.step = "dead" /\ s.of = c
          BY <2>4, <3>1 DEF ListenerStates
      <4> QED
          BY <4>1, <2>1, NoneAssumption
    <3>2. CASE s = [step |-> "poll", of |-> None, answer |-> None]
        BY <3>2 DEF ListenerStates, Outcomes
    <3>3. CASE s = [listener[k] EXCEPT !.step = "respond", !.answer = answer]
      <4>1. /\ s.step = "respond" /\ s.of = c /\ s.answer = answer
            /\ s = [step |-> "respond", of |-> c, answer |-> answer]
          BY <2>4, <3>3 DEF ListenerStates
      <4> QED
          BY <4>1, <2>1, NoneAssumption DEF ListenerStates, Outcomes
    <3> QED
        BY <2>3, <3>1, <3>2, <3>3
  <2>7. client' \in [Clients -> ClientStates]
    <3>1. CASE client' = client
        BY <3>1 DEF TypeInv
    <3>2. CASE client' = [client EXCEPT ![c].step = "taken"]
        BY <3>2, <2>1 DEF TypeInv, ClientStates
    <3> QED
        BY <1>5, <3>1, <3>2 DEF Process
  <2> QED
      BY <1>5, <2>2, <2>3, <2>5, <2>7 DEF Process, TypeInv
<1>6. CASE Fail(k)
  <2>1. reader' \in [Processes -> ReaderStates]
      BY <1>6, NoStates DEF Fail, TypeInv
  <2>2. listener' \in [Kinds -> ListenerStates] /\ listener[k].step # "poll"
    <3>1. listener \in [Kinds -> ListenerStates] /\ listener[k] \in ListenerStates
        BY DEF TypeInv
    <3>2. listener[k].step # "poll" /\ listener' = [listener EXCEPT ![k].step = "dead"]
        BY <1>6 DEF Fail, AtListener
    <3>3. [listener[k] EXCEPT !.step = "dead"] \in ListenerStates
        BY <3>1 DEF ListenerStates
    <3> QED
        BY <3>1, <3>2, <3>3
  <2>3. faults' \in 0 .. MaxFaults
      BY <1>6, IntercomConstants DEF Fail, TypeInv
  <2> QED
      BY <1>6, <2>1, <2>2, <2>3 DEF Fail, TypeInv
<1> QED
    BY <1>1, <1>2, <1>3, <1>4, <1>5, <1>6 DEF ListenerStep

(***************************************************************************)
(* A request is in one place: with its client, in the queue of its kind or *)
(* with the listener, in this order.                                       *)
(***************************************************************************)
LEMMA MessagesDiffer ==
    /\ \A c, d \in Clients : Request(c) = Request(d) => c = d
    /\ \A c, d \in Clients : Response(c) = Response(d) => c = d
    /\ \A c, d \in Clients : Request(c) # Response(d)
    /\ \A c \in Clients : Request(c)[2] = c
    BY DEF Request, Response

LEMMA QueuedAfterPush ==
    ASSUME TypeInv, NEW c \in Clients, Push(c)
    PROVE  /\ \A d \in Clients : Queued(d)' <=> Queued(d) \/ d = c
           /\ kind' = kind
           /\ \A k \in Kinds : k # kind[c] => queue'[k] = queue[k]
           /\ queue'[kind[c]] = Append(queue[kind[c]], Value(c, Request(c)))
           /\ queue[kind[c]] \in Seq(QueueValues)
           /\ Value(c, Request(c)).msg = Request(c)
<1> DEFINE q == queue[kind[c]]
           v == Value(c, Request(c))
<1>1. kind[c] \in Kinds /\ q \in Seq(QueueValues) /\ kind' = kind
    BY DEF TypeInv, Push
<1>2. v.msg = Request(c)
    BY ValueTypes, ProcessesFacts, MessagesFacts
<1>3. queue'[kind[c]] = Append(q, v)
    BY <1>1 DEF Push, TypeInv
<1>4. \A k \in Kinds : k # kind[c] => queue'[k] = queue[k]
    BY DEF Push, TypeInv
<1>5. ASSUME NEW d \in Clients PROVE Queued(d)' <=> Queued(d) \/ d = c
  <2>1. kind[d] \in Kinds
      BY DEF TypeInv
  <2>2. CASE kind[d] # kind[c]
    <3>1. queue'[kind'[d]] = queue[kind[d]] /\ d # c
        BY <1>1, <1>4, <2>1, <2>2
    <3> QED
        BY <3>1 DEF Queued
  <2>3. CASE kind[d] = kind[c]
    <3>1. Queued(d)' <=> \E n \in 1 .. Len(q) + 1 : Append(q, v)[n].msg = Request(d)
      <4>1. DOMAIN Append(q, v) = 1 .. Len(q) + 1
          BY <1>1
      <4> QED
          BY <1>1, <1>3, <2>3, <4>1 DEF Queued
    <3>2. \A n \in 1 .. Len(q) : Append(q, v)[n] = q[n]
        BY <1>1
    <3>3. Append(q, v)[Len(q) + 1] = v /\ Len(q) \in Nat
        BY <1>1
    <3>4. Queued(d) <=> \E n \in 1 .. Len(q) : q[n].msg = Request(d)
        BY <1>1, <2>3 DEF Queued
    <3>5. v.msg = Request(d) <=> d = c
        BY <1>2, MessagesDiffer
    <3> HIDE DEF q, v
    <3> QED
        BY <3>1, <3>2, <3>3, <3>4, <3>5
  <2> QED
      BY <2>2, <2>3
<1> QED
    BY <1>1, <1>2, <1>3, <1>4, <1>5

LEMMA QueuedAfterGet ==
    ASSUME TypeInv, QueueFlow, NEW k \in Kinds, GetNextTask(k)
    PROVE  \E c \in Clients :
             /\ Head(queue[k]).msg = Request(c) /\ kind[c] = k /\ Queued(c)
             /\ queue[k] \in Seq(QueueValues) /\ queue[k] # <<>>
             /\ queue'[k] = Tail(queue[k]) /\ \A kk \in Kinds : kk # k => queue'[kk] = queue[kk]
             /\ \A d \in Clients : Queued(d)' <=> Queued(d) /\ d # c
             /\ listener' = [listener EXCEPT ![k] = [step |-> "read", of |-> c, answer |-> None]]
             /\ listener[k].step = "poll" /\ listener[k].of = None
<1> DEFINE q == queue[k]
<1>1. q \in Seq(QueueValues) /\ q # <<>> /\ kind' = kind /\ queue'[k] = Tail(q)
      /\ \A kk \in Kinds : kk # k => queue'[kk] = queue[kk]
    BY DEF TypeInv, GetNextTask
<1>2. 1 \in DOMAIN q /\ Head(q) = q[1] /\ Len(Tail(q)) = Len(q) - 1 /\ Len(q) \in Nat
      /\ Len(q) >= 1 /\ \A n \in 1 .. Len(q) - 1 : Tail(q)[n] = q[n + 1]
    BY <1>1
<1>3. PICK c \in Clients : q[1].msg = Request(c) /\ kind[c] = k
    BY <1>2 DEF QueueFlow
<1>4. \A m, n \in 1 .. Len(q) : q[m].msg = q[n].msg => m = n
    BY <1>1 DEF QueueFlow
<1>5. ASSUME NEW d \in Clients PROVE Queued(d)' <=> Queued(d) /\ d # c
  <2>1. CASE kind[d] # k
    <3>1. kind[d] \in Kinds
        BY DEF TypeInv
    <3> QED
        BY <1>1, <1>3, <2>1, <3>1 DEF Queued
  <2>2. CASE kind[d] = k
    <3>1. Queued(d)' <=> \E n \in 1 .. Len(q) - 1 : Tail(q)[n].msg = Request(d)
      <4>1. DOMAIN Tail(q) = 1 .. Len(q) - 1
          BY <1>1, <1>2
      <4> QED
          BY <1>1, <2>2, <4>1 DEF Queued
    <3>2. Queued(d)' <=> \E n \in 1 .. Len(q) - 1 : q[n + 1].msg = Request(d)
        BY <3>1, <1>2
    <3>3. Queued(d) <=> \E n \in 1 .. Len(q) : q[n].msg = Request(d)
        BY <1>1, <2>2 DEF Queued
    <3>4. q[1].msg = Request(d) <=> d = c
        BY <1>3, MessagesDiffer
    <3> HIDE DEF q
    <3>5. ASSUME NEW n \in 1 .. Len(q), q[n].msg = Request(d), d # c
          PROVE  n - 1 \in 1 .. Len(q) - 1 /\ q[(n - 1) + 1].msg = Request(d)
        BY <3>4, <3>5, <1>2
    <3>6. ASSUME NEW n \in 1 .. Len(q) - 1, q[n + 1].msg = Request(d)
          PROVE  n + 1 \in 1 .. Len(q) /\ d # c
        BY <3>4, <3>6, <1>2, <1>4
    <3> QED
        BY <3>2, <3>3, <3>5, <3>6
  <2> QED
      BY <2>1, <2>2
<1>6. Queued(c)
    BY <1>1, <1>2, <1>3 DEF Queued
<1>7. listener' = [listener EXCEPT ![k] = [step |-> "read", of |-> c, answer |-> None]]
  <2>1. Head(queue[k]).msg[2] = c
      BY <1>2, <1>3, MessagesDiffer
  <2> QED
      BY <2>1 DEF GetNextTask
<1>8. listener[k].step = "poll" /\ listener[k].of = None
    BY DEF GetNextTask, AtListener, TypeInv
<1> QED
    BY <1>1, <1>2, <1>3, <1>5, <1>6, <1>7, <1>8

FlowInv == QueueFlow /\ ClientFlow

LEMMA InitFlow == Init => FlowInv
<1> SUFFICES ASSUME Init PROVE FlowInv
    OBVIOUS
<1>1. \A c \in Clients : kind[c] \in Kinds /\ ~Queued(c)
    BY DEF Init, Queued
<1>2. QueueFlow
    BY DEF Init, QueueFlow
<1>3. ClientFlow
    BY <1>1, NoneAssumption DEF Init, ClientFlow
<1> QED
    BY <1>2, <1>3 DEF FlowInv

\* Steps that only read and write chunks.
LEMMA ChunkStepFlow ==
    ASSUME FlowInv, UNCHANGED <<kind, queue, string, client, listener, answered>>
    PROVE  FlowInv'
    BY DEF FlowInv, QueueFlow, ClientFlow, Queued

\* Steps of a client that leave the queues alone.
LEMMA ClientStepFlow ==
    ASSUME TypeInv, FlowInv, NEW c \in Clients, NEW s \in ClientStates,
           UNCHANGED <<kind, queue, listener, answered>>,
           client' = [client EXCEPT ![c] = s],
           string' = string \/ string' = [string EXCEPT ![c] = None],
           s.step \in {"wait", "timeout", "error", "read", "done"},
           client[c].step # "start", kind[c] \notin Tasks,
           s.step \in {"read", "done"} =>
             string'[c] = None /\ s.result = answered[c] /\ answered[c] # None
    PROVE  FlowInv'
<1>1. QueueFlow'
    BY DEF FlowInv, QueueFlow
<1>2. \A d \in Clients : Queued(d)' <=> Queued(d)
    BY DEF Queued
<1>3. client'[c] = s /\ \A d \in Clients : d # c => client'[d] = client[d]
    BY DEF TypeInv
<1>4. \A d \in Clients : string'[d] = string[d] \/ string'[d] = None
    BY DEF TypeInv
<1>5. ClientFlow'
    BY <1>2, <1>3, <1>4 DEF FlowInv, ClientFlow
<1> QED
    BY <1>1, <1>5 DEF FlowInv

LEMMA PushFlow ==
    ASSUME TypeInv, FlowInv, NEW c \in Clients, Push(c)
    PROVE  FlowInv'
<1> DEFINE q == queue[kind[c]]
           v == Value(c, Request(c))
<1>1. /\ \A d \in Clients : Queued(d)' <=> Queued(d) \/ d = c
      /\ kind' = kind
      /\ \A k \in Kinds : k # kind[c] => queue'[k] = queue[k]
      /\ queue'[kind[c]] = Append(q, v)
      /\ q \in Seq(QueueValues)
      /\ v.msg = Request(c)
    BY QueuedAfterPush
<1>2. UNCHANGED <<listener, answered, string>> /\ client[c].step = "start"
    BY DEF Push, AtClient
<1>3. ~Queued(c) /\ listener[kind[c]].of # c /\ answered[c] = None
    BY <1>2 DEF FlowInv, ClientFlow
<1>4. QueueFlow'
  <2> SUFFICES ASSUME NEW k \in Kinds
               PROVE  /\ \A n \in DOMAIN queue'[k] :
                           \E d \in Clients : queue'[k][n].msg = Request(d) /\ kind[d] = k
                      /\ \A m, n \in DOMAIN queue'[k] :
                           queue'[k][m].msg = queue'[k][n].msg => m = n
      BY <1>1, <1>2 DEF FlowInv, QueueFlow
  <2>1. CASE k # kind[c]
      BY <1>1, <2>1 DEF FlowInv, QueueFlow
  <2>2. CASE k = kind[c]
    <3>1. \A n \in 1 .. Len(q) : q[n].msg # Request(c)
        BY <1>1, <1>3 DEF Queued
    <3>2. /\ DOMAIN Append(q, v) = 1 .. Len(q) + 1 /\ Len(q) \in Nat
          /\ Append(q, v)[Len(q) + 1] = v /\ \A n \in 1 .. Len(q) : Append(q, v)[n] = q[n]
        BY <1>1
    <3>3. /\ \A n \in 1 .. Len(q) : \E d \in Clients : q[n].msg = Request(d) /\ kind[d] = k
          /\ \A m, n \in 1 .. Len(q) : q[m].msg = q[n].msg => m = n
        BY <1>1, <2>2 DEF FlowInv, QueueFlow
    <3> HIDE DEF q, v
    <3>4. \A n \in 1 .. Len(q) + 1 : n \in 1 .. Len(q) \/ n = Len(q) + 1
        BY <3>2
    <3>5. queue'[k] = Append(q, v) /\ v.msg = Request(c)
        BY <1>1, <2>2
    <3>6. ASSUME NEW n \in 1 .. Len(q) + 1
          PROVE  \E d \in Clients : Append(q, v)[n].msg = Request(d) /\ kind[d] = k
        BY <2>2, <3>2, <3>3, <3>4, <3>5
    <3>7. ASSUME NEW m \in 1 .. Len(q) + 1, NEW n \in 1 .. Len(q) + 1,
                 Append(q, v)[m].msg = Append(q, v)[n].msg
          PROVE  m = n
        BY <3>1, <3>2, <3>3, <3>4, <3>5, <3>7
    <3> QED
        BY <3>2, <3>5, <3>6, <3>7
  <2> QED
      BY <2>1, <2>2
<1>5. ClientFlow'
  <2>1. client' = [client EXCEPT ![c].step = IF kind[c] \in Queries THEN "wait" ELSE "sent"]
      BY DEF Push
  <2>2. /\ \A d \in Clients : d # c => client'[d] = client[d]
        /\ client'[c].step \in {"wait", "sent"} /\ (kind[c] \in Tasks => client'[c].step = "sent")
      BY <2>1, IntercomConstants DEF TypeInv, ClientStates
  <2> QED
      BY <1>1, <1>2, <1>3, <2>2 DEF FlowInv, ClientFlow
<1> QED
    BY <1>4, <1>5 DEF FlowInv

LEMMA ClientStepsFlow ==
    ASSUME TypeInv, FlowInv, NEW c \in Clients, ClientStep(c) \/ AskAgain(c)
    PROVE  FlowInv'
<1>0. client[c] \in ClientStates /\ client[c].result \in Outcomes
    BY DEF TypeInv, ClientStates
<1>1. client[c].step \in {"wait", "read", "timeout"} => kind[c] \notin Tasks
    BY DEF FlowInv, ClientFlow
<1>2. CASE ClientSplits(c) \/ ClientPops(c)
    BY <1>2, ChunkStepFlow DEF ClientSplits, ClientPops
<1>3. CASE Push(c)
    BY <1>3, PushFlow
<1>4. CASE Poll(c)
  <2> DEFINE s == [step |-> "read", result |-> string[c].answer]
  <2>1. string[c] \in StringValues /\ string[c] # None /\ client[c].step = "wait"
      BY <1>4 DEF Poll, AtClient, TypeInv
  <2>2. s \in ClientStates /\ string[c].answer # None
      BY <2>1, NoneAssumption DEF StringValues, ClientStates, Outcomes
  <2>3. string[c].answer = answered[c] /\ s.result = answered[c]
      BY <2>1 DEF FlowInv, ClientFlow
  <2>4. /\ UNCHANGED <<kind, queue, listener, answered>> /\ client' = [client EXCEPT ![c] = s]
        /\ string' = [string EXCEPT ![c] = None] /\ string'[c] = None
      BY <1>4 DEF Poll, TypeInv
  <2> QED
      BY <1>1, <2>1, <2>2, <2>3, <2>4, ClientStepFlow
<1>5. CASE Receive(c)
  <2>1. PICK s \in {[step |-> "error", result |-> None], [step |-> "wait", result |-> None],
                    [step |-> "done", result |-> client[c].result]} :
            client' = [client EXCEPT ![c] = s]
      BY <1>5 DEF Receive
  <2>2. s \in ClientStates /\ s.step \in {"wait", "error", "done"}
        /\ (s.step = "done" => s.result = client[c].result)
      BY <1>0, <2>1 DEF ClientStates, Outcomes
  <2>3. client[c].step = "read" /\ UNCHANGED <<kind, queue, listener, answered, string>>
      BY <1>5 DEF Receive, AtClient
  <2>4. string[c] = None /\ client[c].result = answered[c] /\ answered[c] # None
      BY <2>3 DEF FlowInv, ClientFlow
  <2> QED
      BY <1>1, <2>1, <2>2, <2>3, <2>4, ClientStepFlow
<1>6. CASE TimeOut(c)
  <2> DEFINE s == [step |-> "timeout", result |-> None]
  <2>1. s \in ClientStates /\ client[c].step = "wait" /\ client' = [client EXCEPT ![c] = s]
        /\ UNCHANGED <<kind, queue, listener, answered, string>>
      BY <1>6 DEF TimeOut, AtClient, ClientStates, Outcomes
  <2> QED
      BY <1>1, <2>1, ClientStepFlow
<1>7. CASE AskAgain(c)
  <2> DEFINE s == [step |-> "wait", result |-> client[c].result]
  <2>1. s \in ClientStates /\ client[c].step = "timeout"
        /\ UNCHANGED <<kind, queue, listener, answered, string>>
      BY <1>0, <1>7 DEF AskAgain, AtClient, ClientStates
  <2>2. client' = [client EXCEPT ![c] = s]
    <3>1. [client[c] EXCEPT !.step = "wait"] = s
        BY <1>0 DEF ClientStates
    <3>2. client' = [client EXCEPT ![c] = [client[c] EXCEPT !.step = "wait"]]
        BY <1>7 DEF AskAgain
    <3> QED
        BY <3>1, <3>2
  <2> QED
      BY <1>1, <2>1, <2>2, ClientStepFlow
<1> QED
    BY <1>2, <1>3, <1>4, <1>5, <1>6, <1>7 DEF ClientStep

LEMMA GetFlow ==
    ASSUME TypeInv, FlowInv, NEW k \in Kinds, GetNextTask(k)
    PROVE  FlowInv'
<1> DEFINE q == queue[k]
<1>1. PICK c \in Clients :
             /\ Head(q).msg = Request(c) /\ kind[c] = k /\ Queued(c)
             /\ q \in Seq(QueueValues) /\ q # <<>>
             /\ queue'[k] = Tail(q) /\ \A kk \in Kinds : kk # k => queue'[kk] = queue[kk]
             /\ \A d \in Clients : Queued(d)' <=> Queued(d) /\ d # c
             /\ listener' = [listener EXCEPT ![k] = [step |-> "read", of |-> c, answer |-> None]]
             /\ listener[k].step = "poll" /\ listener[k].of = None
    BY QueuedAfterGet DEF FlowInv
<1>2. UNCHANGED <<kind, string, answered, client>>
    BY DEF GetNextTask
<1>3. listener'[k].of = c /\ listener'[k].step = "read"
      /\ \A kk \in Kinds : kk # k => listener'[kk] = listener[kk]
    BY <1>1 DEF TypeInv
<1>4. QueueFlow'
  <2> SUFFICES ASSUME NEW kk \in Kinds
               PROVE  /\ \A n \in DOMAIN queue'[kk] :
                           \E d \in Clients : queue'[kk][n].msg = Request(d) /\ kind[d] = kk
                      /\ \A m, n \in DOMAIN queue'[kk] :
                           queue'[kk][m].msg = queue'[kk][n].msg => m = n
      BY <1>1, <1>2, <1>3 DEF FlowInv, QueueFlow
  <2>1. CASE kk # k
      BY <1>1, <2>1 DEF FlowInv, QueueFlow
  <2>2. CASE kk = k
    <3>1. /\ DOMAIN Tail(q) = 1 .. Len(q) - 1 /\ Len(q) \in Nat
          /\ \A n \in 1 .. Len(q) - 1 : Tail(q)[n] = q[n + 1]
        BY <1>1
    <3>2. /\ \A n \in 1 .. Len(q) : \E d \in Clients : q[n].msg = Request(d) /\ kind[d] = k
          /\ \A m, n \in 1 .. Len(q) : q[m].msg = q[n].msg => m = n
        BY <1>1 DEF FlowInv, QueueFlow
    <3> HIDE DEF q
    <3>3. \A n \in 1 .. Len(q) - 1 : n + 1 \in 1 .. Len(q) /\ n \in Int
        BY <3>1
    <3>4. queue'[kk] = Tail(q)
        BY <1>1, <2>2
    <3>5. ASSUME NEW n \in 1 .. Len(q) - 1
          PROVE  \E d \in Clients : Tail(q)[n].msg = Request(d) /\ kind[d] = kk
        BY <2>2, <3>1, <3>2, <3>3
    <3>6. ASSUME NEW m \in 1 .. Len(q) - 1, NEW n \in 1 .. Len(q) - 1,
                 Tail(q)[m].msg = Tail(q)[n].msg
          PROVE  m = n
      <4>1. m + 1 = n + 1
          BY <3>1, <3>2, <3>3, <3>6
      <4> QED
          BY <4>1, <3>3
    <3> QED
        BY <3>1, <3>4, <3>5, <3>6
  <2> QED
      BY <2>1, <2>2
<1>5. ClientFlow'
  <2> SUFFICES ASSUME NEW d \in Clients
               PROVE  /\ client[d].step = "start" => ~Queued(d)' /\ listener'[kind[d]].of # d
                      /\ Queued(d)' => listener'[kind[d]].of # d
                      /\ answered[d] # None => ~Queued(d)' /\ listener'[kind[d]].of # d
      BY <1>2 DEF FlowInv, ClientFlow
  <2>1. kind[d] \in Kinds
      BY DEF TypeInv
  <2>2. CASE d = c
      BY <1>1, <2>2 DEF FlowInv, ClientFlow
  <2>3. CASE d # c
    <3>1. kind[d] = k => listener'[kind[d]].of # d
        BY <1>3, <2>3
    <3>2. kind[d] # k => listener'[kind[d]] = listener[kind[d]]
        BY <1>3, <2>1
    <3> QED
        BY <1>1, <3>1, <3>2, <2>3 DEF FlowInv, ClientFlow
  <2> QED
      BY <2>2, <2>3
<1> QED
    BY <1>4, <1>5 DEF FlowInv

LEMMA SetResponseFlow ==
    ASSUME TypeInv, FlowInv, NEW k \in Kinds, SetResponse(k)
    PROVE  FlowInv'
<1> DEFINE c == listener[k].of
           v == Value(k, Response(c))
           s == [msg |-> v.msg, keys |-> v.keys, answer |-> listener[k].answer]
<1>1. listener[k].step = "respond" /\ c \in Clients /\ UNCHANGED <<kind, queue, client>>
    BY ListenerFacts DEF SetResponse, AtListener
<1>2. listener[k].answer # None /\ listener[k].answer \in Outcomes /\ c # None
    BY <1>1, NoneAssumption DEF TypeInv, ListenerStates
<1>3. kind[c] = k /\ k \in Queries /\ k \notin Tasks
    BY <1>1, <1>2, IntercomConstants DEF FlowInv, QueueFlow
<1>4. /\ string' = [string EXCEPT ![c] = s]
      /\ answered' = [answered EXCEPT ![c] = listener[k].answer]
      /\ listener' = [listener EXCEPT ![k] = [step |-> "poll", of |-> None, answer |-> None]]
    BY DEF SetResponse
<1>5. /\ string'[c] = s /\ answered'[c] = listener[k].answer
      /\ \A d \in Clients : d # c => string'[d] = string[d] /\ answered'[d] = answered[d]
      /\ listener'[k].of = None /\ listener'[k].step = "poll"
      /\ \A kk \in Kinds : kk # k => listener'[kk] = listener[kk]
    BY <1>1, <1>4 DEF TypeInv
<1>6. s.msg = Response(c) /\ s.answer = listener[k].answer
    BY <1>1, ValueTypes, MessagesFacts, ProcessesFacts
<1> HIDE DEF s, v
<1>7. QueueFlow'
    BY <1>1, <1>5 DEF FlowInv, QueueFlow
<1>8. \A d \in Clients : (Queued(d)' <=> Queued(d)) /\ kind[d] \in Kinds
    BY <1>1 DEF Queued, TypeInv
<1>9. /\ client[c].step \notin {"start", "read", "done"}
      /\ ~Queued(c)
    BY <1>1, <1>3 DEF FlowInv, ClientFlow
<1>10. ClientFlow'
  <2> SUFFICES ASSUME NEW d \in Clients
               PROVE  /\ client[d].step = "start" => ~Queued(d) /\ listener'[kind[d]].of # d
                      /\ Queued(d) => listener'[kind[d]].of # d
                      /\ answered'[d] # None => /\ client[d].step # "start" /\ ~Queued(d)
                                                /\ listener'[kind[d]].of # d /\ kind[d] \in Queries
                      /\ string'[d] # None => string'[d].msg = Response(d) /\ string'[d].answer = answered'[d]
                      /\ client[d].step \in {"read", "done"} =>
                           string'[d] = None /\ client[d].result = answered'[d] /\ answered'[d] # None
                      /\ kind[d] \in Tasks => client[d].step \in {"start", "sent", "taken"}
      BY <1>1, <1>8 DEF ClientFlow
  <2>1. listener[kind[d]].of # d => listener'[kind[d]].of # d
      BY <1>5, <1>8, NoneAssumption
  <2>2. CASE d = c
    <3>1. listener'[kind[d]].of # d
        BY <1>3, <1>5, <2>2, NoneAssumption
    <3> QED
        BY <1>3, <1>5, <1>6, <1>9, <2>2, <3>1
  <2>3. CASE d # c
      BY <1>5, <2>1, <2>3 DEF FlowInv, ClientFlow
  <2> QED
      BY <2>2, <2>3
<1> QED
    BY <1>7, <1>10 DEF FlowInv

\* A listener ends its work on a request, or starts to respond.
MovesTo(k, answer, s) ==
    /\ listener' = [listener EXCEPT ![k] = s]
    /\ s.of \in {listener[k].of, None} /\ s.step \in {"dead", "poll", "respond"}
    /\ s.step = "respond" => k \notin Tasks
    /\ s.step = "dead" /\ Process(k, answer) => ~Whole(k, Request(listener[k].of))

LEMMA ListenerMoves ==
    ASSUME TypeInv, NEW k \in Kinds, NEW answer, Process(k, answer) \/ Fail(k)
    PROVE  \E s : MovesTo(k, answer, s)
<1> DEFINE c == listener[k].of
<1>0. listener[k] \in ListenerStates
    BY DEF TypeInv
<1>1. CASE Process(k, answer)
  <2>1. PICK ok \in Unpickled(k, Request(c)) :
            listener' = [listener EXCEPT ![k] =
                IF ~ok THEN [listener[k] EXCEPT !.step = "dead"]
                ELSE IF k \in Tasks THEN [step |-> "poll", of |-> None, answer |-> None]
                ELSE [listener[k] EXCEPT !.step = "respond", !.answer = answer]]
      BY <1>1 DEF Process
  <2>2. ok \in BOOLEAN /\ (Whole(k, Request(c)) => ok)
      BY <2>1 DEF Unpickled
  <2> DEFINE s == IF ~ok THEN [listener[k] EXCEPT !.step = "dead"]
                  ELSE IF k \in Tasks THEN [step |-> "poll", of |-> None, answer |-> None]
                  ELSE [listener[k] EXCEPT !.step = "respond", !.answer = answer]
  <2>3. /\ s.of \in {c, None} /\ s.step \in {"dead", "poll", "respond"}
        /\ s.step = "respond" => k \notin Tasks
        /\ s.step = "dead" => ~ok
      BY <1>0, <2>2 DEF ListenerStates
  <2> HIDE DEF s
  <2>4. listener' = [listener EXCEPT ![k] = s]
      BY <2>1 DEF s
  <2>5. MovesTo(k, answer, s)
      BY <2>2, <2>3, <2>4 DEF MovesTo
  <2> QED
      BY <2>5
<1>2. CASE Fail(k)
  <2> DEFINE s == [listener[k] EXCEPT !.step = "dead"]
  <2>1. s.of = c /\ s.step = "dead"
      BY <1>0 DEF ListenerStates
  <2>2. listener' = [listener EXCEPT ![k] = s]
      BY <1>2 DEF Fail
  <2>3. listener[k].step = "read" /\ \A x : Process(k, x) => faults' = faults
      BY <1>2 DEF Fail, AtListener, Process
  <2>4. faults' = faults + 1 /\ faults \in Int
      BY <1>2 DEF Fail, TypeInv
  <2>5. ~Process(k, answer)
      BY <2>3, <2>4
  <2>6. MovesTo(k, answer, s)
      BY <2>1, <2>2, <2>5 DEF MovesTo
  <2> QED
      BY <2>6
<1> QED
    BY <1>1, <1>2

LEMMA ProcessFlow ==
    ASSUME TypeInv, FlowInv, NEW k \in Kinds, NEW answer, Process(k, answer) \/ Fail(k)
    PROVE  FlowInv'
<1> DEFINE c == listener[k].of
<1>1. listener[k].step = "read" /\ c \in Clients /\ UNCHANGED <<kind, queue, string, answered>>
    BY ListenerFacts DEF Process, Fail, AtListener
<1>2. c # None /\ kind[c] = k
    BY <1>1, NoneAssumption DEF FlowInv, QueueFlow
<1>3. answered[c] = None /\ client[c].step \notin {"start", "read", "done"}
    BY <1>1, <1>2 DEF FlowInv, ClientFlow
<1>4. \E s : /\ listener' = [listener EXCEPT ![k] = s] /\ s.of \in {c, None}
             /\ s.step = "respond" => k \notin Tasks
    BY ListenerMoves DEF MovesTo
<1>5. /\ listener'[k].of \in {c, None} /\ (listener'[k].step = "respond" => k \in Queries)
      /\ \A kk \in Kinds : kk # k => listener'[kk] = listener[kk]
    BY <1>4 DEF TypeInv, Kinds
<1>6. QueueFlow'
    BY <1>1, <1>2, <1>5 DEF FlowInv, QueueFlow
<1>7. /\ \A d \in Clients : d # c => client'[d] = client[d]
      /\ client'[c] = client[c] \/ client'[c].step = "taken"
      /\ client'[c] # client[c] => k \in Tasks
  <2>1. client' = client \/ (k \in Tasks /\ client' = [client EXCEPT ![c].step = "taken"])
      BY DEF Process, Fail
  <2>2. client[c] \in ClientStates
      BY <1>1 DEF TypeInv
  <2>3. [client[c] EXCEPT !.step = "taken"].step = "taken"
      BY <2>2 DEF ClientStates
  <2> QED
      BY <1>1, <2>1, <2>3 DEF TypeInv
<1>8. \A d \in Clients : /\ Queued(d)' <=> Queued(d)
                         /\ listener[kind[d]].of # d => listener'[kind[d]].of # d
  <2> SUFFICES ASSUME NEW d \in Clients
               PROVE  /\ Queued(d)' <=> Queued(d)
                      /\ listener[kind[d]].of # d => listener'[kind[d]].of # d
      OBVIOUS
  <2>1. kind[d] \in Kinds
      BY DEF TypeInv
  <2> QED
      BY <1>1, <1>5, <2>1, NoneAssumption DEF Queued
<1>9. ClientFlow'
  <2> SUFFICES ASSUME NEW d \in Clients
               PROVE  /\ client'[d].step = "start" => ~Queued(d) /\ listener'[kind[d]].of # d
                      /\ Queued(d) => listener'[kind[d]].of # d
                      /\ answered[d] # None => /\ client'[d].step # "start" /\ ~Queued(d)
                                               /\ listener'[kind[d]].of # d /\ kind[d] \in Queries
                      /\ string[d] # None => string[d].msg = Response(d) /\ string[d].answer = answered[d]
                      /\ client'[d].step \in {"read", "done"} =>
                           string[d] = None /\ client'[d].result = answered[d] /\ answered[d] # None
                      /\ kind[d] \in Tasks => client'[d].step \in {"start", "sent", "taken"}
      BY <1>1, <1>8 DEF ClientFlow
  <2>1. CASE d = c
      BY <1>1, <1>2, <1>3, <1>7, <1>8, <2>1 DEF FlowInv, ClientFlow
  <2>2. CASE d # c
      BY <1>7, <1>8, <2>2 DEF FlowInv, ClientFlow
  <2> QED
      BY <2>1, <2>2
<1> QED
    BY <1>6, <1>9 DEF FlowInv

LEMMA ListenerStepsFlow ==
    ASSUME TypeInv, FlowInv, NEW k \in Kinds, ListenerStep(k) \/ Fail(k)
    PROVE  FlowInv'
<1>1. CASE ListenerPops(k) \/ ListenerSplits(k)
    BY <1>1, ChunkStepFlow DEF ListenerPops, ListenerSplits
<1> QED
    BY <1>1, GetFlow, SetResponseFlow, ProcessFlow DEF ListenerStep

(***************************************************************************)
(* The chunks: what is stored under the keys are the chunks of the         *)
(* messages that somebody holds.                                           *)
(***************************************************************************)
LEMMA NothingOverwritten ==
    ASSUME TypeInv, [Next]_vars, ~clash'
    PROVE  ~clash
<1>1. CASE UNCHANGED vars
    BY <1>1 DEF vars
<1>2. ASSUME NEW c \in Clients, ClientStep(c) \/ AskAgain(c) PROVE ~clash
    BY <1>2 DEF ClientStep, AskAgain, ClientSplits, Push, Poll, ClientPops, Receive, TimeOut, SetChunk
<1>3. ASSUME NEW k \in Kinds, ListenerStep(k) \/ Fail(k) PROVE ~clash
    BY <1>3 DEF ListenerStep, Fail, GetNextTask, ListenerPops, Process, ListenerSplits, SetResponse, SetChunk
<1> QED
    BY <1>1, <1>2, <1>3 DEF Next

\* Nobody holds other keys than before.
LEMMA ChunksStay ==
    ASSUME ChunkInv, chunk' = chunk,
           \A c \in Clients : \A i \in 1 .. Chunks : \A k \in ChunkKeys :
               /\ HoldsRequest(c, i, k)' <=> HoldsRequest(c, i, k)
               /\ HoldsResponse(c, i, k)' <=> HoldsResponse(c, i, k)
    PROVE  ChunkInv'
    BY DEF ChunkInv, Request, Response

\* A chunk of a message is stored under a free key.
Added(key, msg, n) ==
    /\ chunk[key] = None /\ chunk' = [chunk EXCEPT ![key] = <<msg, n>>]
    /\ \A c \in Clients, i \in 1 .. Chunks, k \in ChunkKeys :
         /\ HoldsRequest(c, i, k)'
              <=> HoldsRequest(c, i, k) \/ (Request(c) = msg /\ i = n /\ k = key)
         /\ HoldsResponse(c, i, k)'
              <=> HoldsResponse(c, i, k) \/ (Response(c) = msg /\ i = n /\ k = key)

LEMMA ChunkAdded ==
    ASSUME TypeInv, ChunkInv, NEW key \in ChunkKeys, NEW msg \in Messages, NEW n \in 1 .. Chunks,
           Added(key, msg, n)
    PROVE  ChunkInv'
<1> SUFFICES ASSUME NEW c \in Clients, NEW i \in 1 .. Chunks, NEW k \in ChunkKeys
             PROVE  /\ chunk'[k] = <<Request(c), i>> <=> HoldsRequest(c, i, k)'
                    /\ chunk'[k] = <<Response(c), i>> <=> HoldsResponse(c, i, k)'
    BY DEF ChunkInv, Request, Response
<1>1. /\ chunk[k] = <<Request(c), i>> <=> HoldsRequest(c, i, k)
      /\ chunk[k] = <<Response(c), i>> <=> HoldsResponse(c, i, k)
    BY DEF ChunkInv
<1>2. CASE k # key
    BY <1>1, <1>2 DEF TypeInv, Added
<1>3. CASE k = key
  <2>1. chunk'[k] = <<msg, n>>
      BY <1>3 DEF TypeInv, Added
  <2>2. ~HoldsRequest(c, i, k) /\ ~HoldsResponse(c, i, k)
    <3>1. <<Request(c), i>> # None /\ <<Response(c), i>> # None
        BY NoneAssumption, MessagesFacts
    <3> QED
        BY <1>1, <1>3, <3>1 DEF Added
  <2> QED
      BY <1>3, <2>1, <2>2 DEF Added
<1> QED
    BY <1>2, <1>3

\* A chunk that somebody holds is deleted, and nobody holds it any longer.
Removed(key) ==
    /\ chunk' = [chunk EXCEPT ![key] = None]
    /\ \A c \in Clients, i \in 1 .. Chunks, k \in ChunkKeys :
         /\ HoldsRequest(c, i, k)' <=> HoldsRequest(c, i, k) /\ k # key
         /\ HoldsResponse(c, i, k)' <=> HoldsResponse(c, i, k) /\ k # key

LEMMA ChunkRemoved ==
    ASSUME TypeInv, ChunkInv, NEW key \in ChunkKeys, Removed(key)
    PROVE  ChunkInv'
<1> SUFFICES ASSUME NEW c \in Clients, NEW i \in 1 .. Chunks, NEW k \in ChunkKeys
             PROVE  /\ chunk'[k] = <<Request(c), i>> <=> HoldsRequest(c, i, k)'
                    /\ chunk'[k] = <<Response(c), i>> <=> HoldsResponse(c, i, k)'
    BY DEF ChunkInv, Request, Response
<1>1. /\ chunk[k] = <<Request(c), i>> <=> HoldsRequest(c, i, k)
      /\ chunk[k] = <<Response(c), i>> <=> HoldsResponse(c, i, k)
    BY DEF ChunkInv
<1>2. CASE k # key
    BY <1>1, <1>2 DEF TypeInv, Removed
<1>3. CASE k = key
  <2>1. chunk'[k] = None
      BY <1>3 DEF TypeInv, Removed
  <2>2. <<Request(c), i>> # None /\ <<Response(c), i>> # None
      BY NoneAssumption, MessagesFacts
  <2> QED
      BY <1>3, <2>1, <2>2 DEF Removed
<1> QED
    BY <1>2, <1>3

LEMMA Apart ==
    /\ \A c \in Clients, k \in Kinds : c # k
    /\ \A k \in Tasks : k \notin Queries
    BY IntercomConstants

LEMMA WriterHoldsMore ==
    ASSUME TypeInv, NEW p \in Processes, NEW msg \in Messages, SetChunk(p, msg)
    PROVE  /\ \A i, k : WriterHolds(p, i, k)'
                <=> WriterHolds(p, i, k) \/ (i = Len(writer[p].keys) + 1 /\ k = writer[p].key)
           /\ \A q \in Processes : \A i, k : q # p => (WriterHolds(q, i, k)' <=> WriterHolds(q, i, k))
<1> DEFINE s == writer[p].keys
           key == writer[p].key
<1>1. writer'[p].keys = Append(s, key) /\ \A q \in Processes : q # p => writer'[q] = writer[q]
    BY SetChunkTypes
<1>2. s \in Seq(ChunkKeys) /\ key \in ChunkKeys
    BY SetChunkTypes DEF TypeInv, WriterStates
<1>3. /\ Len(Append(s, key)) = Len(s) + 1 /\ Len(s) \in Nat
      /\ Append(s, key)[Len(s) + 1] = key /\ \A i \in 1 .. Len(s) : Append(s, key)[i] = s[i]
    BY <1>2
<1>4. \A i : i \in 1 .. Len(s) + 1 <=> i \in 1 .. Len(s) \/ i = Len(s) + 1
    BY <1>3
<1>5. \A i, k : WriterHolds(p, i, k)' <=> i \in 1 .. Len(Append(s, key)) /\ Append(s, key)[i] = k
    BY <1>1 DEF WriterHolds
<1>6. \A i, k : WriterHolds(p, i, k) <=> i \in 1 .. Len(s) /\ s[i] = k
    BY DEF WriterHolds
<1>7. Len(s) + 1 \notin 1 .. Len(s)
    BY <1>3
<1> HIDE DEF s, key
<1>8. \A i, k : WriterHolds(p, i, k)' <=> WriterHolds(p, i, k) \/ (i = Len(s) + 1 /\ k = key)
    BY <1>3, <1>4, <1>5, <1>6, <1>7
<1>9. \A q \in Processes : \A i, k : q # p => (WriterHolds(q, i, k)' <=> WriterHolds(q, i, k))
    BY <1>1 DEF WriterHolds
<1> QED
    BY <1>8, <1>9 DEF s, key

LEMMA WriterHoldsSame ==
    ASSUME TypeInv, NEW p \in Processes, FindFreeKey(p)
    PROVE  \A q \in Processes : \A i, k : WriterHolds(q, i, k)' <=> WriterHolds(q, i, k)
    BY FindFreeKeyTypes DEF WriterHolds

LEMMA ClientSplitsChunks ==
    ASSUME TypeInv, FlowInv, ChunkInv, NEW c \in Clients, ClientSplits(c), ~clash'
    PROVE  ChunkInv'
<1>1. client[c].step = "start" /\ UNCHANGED <<kind, queue, string, client, listener, reader>>
    BY DEF ClientSplits, AtClient
<1>2. \A p, i, k : ReaderHolds(p, i, k)' <=> ReaderHolds(p, i, k)
    BY <1>1 DEF ReaderHolds
<1>3. \A d, i, k : /\ QueueHolds(d, i, k)' <=> QueueHolds(d, i, k)
                   /\ StringHolds(d, i, k)' <=> StringHolds(d, i, k)
    BY <1>1 DEF QueueHolds, StringHolds
<1>4. \A d \in Clients : kind[d] \in Kinds /\ kind[d] # c
    BY Apart DEF TypeInv
<1>5. CASE FindFreeKey(c) /\ UNCHANGED <<chunk, clash>>
  <2>1. \A q \in Processes : \A i, k : WriterHolds(q, i, k)' <=> WriterHolds(q, i, k)
      BY <1>5, WriterHoldsSame, ProcessesFacts
  <2>2. \A d \in Clients : \A i, k : /\ HoldsRequest(d, i, k)' <=> HoldsRequest(d, i, k)
                                     /\ HoldsResponse(d, i, k)' <=> HoldsResponse(d, i, k)
      BY <1>1, <1>2, <1>3, <1>4, <2>1, ProcessesFacts DEF HoldsRequest, HoldsResponse
  <2> QED
      BY <1>5, <2>2, ChunksStay
<1>6. CASE SetChunk(c, Request(c))
  <2> DEFINE n == Len(writer[c].keys) + 1
             key == writer[c].key
  <2>1. /\ \A i, k : WriterHolds(c, i, k)' <=> WriterHolds(c, i, k) \/ (i = n /\ k = key)
        /\ \A q \in Processes : \A i, k : q # c => (WriterHolds(q, i, k)' <=> WriterHolds(q, i, k))
      BY <1>6, WriterHoldsMore, ProcessesFacts, MessagesFacts
  <2>2. key \in ChunkKeys /\ n \in 1 .. Chunks
      BY <1>6, SetChunkTypes, ProcessesFacts, MessagesFacts
  <2>3. chunk[key] = None /\ chunk' = [chunk EXCEPT ![key] = <<Request(c), n>>]
      BY <1>6 DEF SetChunk, TypeInv
  <2> HIDE DEF n, key
  <2>4. \A d \in Clients : \A i, k :
          /\ HoldsRequest(d, i, k)'
               <=> HoldsRequest(d, i, k) \/ (Request(d) = Request(c) /\ i = n /\ k = key)
          /\ HoldsResponse(d, i, k)'
               <=> HoldsResponse(d, i, k) \/ (Response(d) = Request(c) /\ i = n /\ k = key)
      BY <1>1, <1>2, <1>3, <1>4, <2>1, ProcessesFacts, MessagesDiffer DEF HoldsRequest, HoldsResponse
  <2>5. Added(key, Request(c), n)
      BY <2>3, <2>4 DEF Added
  <2> QED
      BY <2>2, <2>5, ChunkAdded, MessagesFacts
<1> QED
    BY <1>5, <1>6 DEF ClientSplits

LEMMA ListenerSplitsChunks ==
    ASSUME TypeInv, FlowInv, ChunkInv, NEW kd \in Kinds, ListenerSplits(kd), ~clash'
    PROVE  ChunkInv'
<1> DEFINE c == listener[kd].of
<1>1. listener[kd].step = "respond" /\ UNCHANGED <<kind, queue, string, client, listener, reader>>
    BY DEF ListenerSplits, AtListener
<1>2. \A p, i, k : ReaderHolds(p, i, k)' <=> ReaderHolds(p, i, k)
    BY <1>1 DEF ReaderHolds
<1>3. \A d, i, k : /\ QueueHolds(d, i, k)' <=> QueueHolds(d, i, k)
                   /\ StringHolds(d, i, k)' <=> StringHolds(d, i, k)
    BY <1>1 DEF QueueHolds, StringHolds
<1>4. \A d \in Clients : kind[d] \in Kinds /\ d # kd
    BY Apart DEF TypeInv
<1>5. c \in Clients /\ kind[c] = kd
    BY <1>1, ListenerFacts, NoneAssumption DEF FlowInv, QueueFlow
<1>6. CASE FindFreeKey(kd) /\ UNCHANGED <<chunk, clash>>
  <2>1. \A q \in Processes : \A i, k : WriterHolds(q, i, k)' <=> WriterHolds(q, i, k)
      BY <1>6, WriterHoldsSame, ProcessesFacts
  <2>2. \A d \in Clients : \A i, k : /\ HoldsRequest(d, i, k)' <=> HoldsRequest(d, i, k)
                                     /\ HoldsResponse(d, i, k)' <=> HoldsResponse(d, i, k)
      BY <1>1, <1>2, <1>3, <1>4, <2>1, ProcessesFacts DEF HoldsRequest, HoldsResponse
  <2> QED
      BY <1>6, <2>2, ChunksStay
<1>7. CASE SetChunk(kd, Response(c))
  <2> DEFINE n == Len(writer[kd].keys) + 1
             key == writer[kd].key
  <2>1. /\ \A i, k : WriterHolds(kd, i, k)' <=> WriterHolds(kd, i, k) \/ (i = n /\ k = key)
        /\ \A q \in Processes : \A i, k : q # kd => (WriterHolds(q, i, k)' <=> WriterHolds(q, i, k))
      BY <1>5, <1>7, WriterHoldsMore, ProcessesFacts, MessagesFacts
  <2>2. key \in ChunkKeys /\ n \in 1 .. Chunks
      BY <1>5, <1>7, SetChunkTypes, ProcessesFacts, MessagesFacts
  <2>3. chunk[key] = None /\ chunk' = [chunk EXCEPT ![key] = <<Response(c), n>>]
      BY <1>7 DEF SetChunk, TypeInv
  <2> HIDE DEF n, key, c
  <2>4. \A d \in Clients : \A i, k :
          /\ HoldsRequest(d, i, k)'
               <=> HoldsRequest(d, i, k) \/ (Request(d) = Response(c) /\ i = n /\ k = key)
          /\ HoldsResponse(d, i, k)'
               <=> HoldsResponse(d, i, k) \/ (Response(d) = Response(c) /\ i = n /\ k = key)
    <3> SUFFICES ASSUME NEW d \in Clients, NEW i, NEW k
                 PROVE  /\ HoldsRequest(d, i, k)' <=> HoldsRequest(d, i, k)
                        /\ HoldsResponse(d, i, k)'
                             <=> HoldsResponse(d, i, k) \/ (d = c /\ i = n /\ k = key)
        BY <1>5, MessagesDiffer
    <3>1. HoldsRequest(d, i, k)' <=> HoldsRequest(d, i, k)
        BY <1>1, <1>2, <1>3, <1>4, <2>1, ProcessesFacts DEF HoldsRequest
    <3>2. kind[d] = kd => (listener[kind[d]].of = d <=> d = c)
        BY DEF c
    <3>3. kind[d] # kd => d # c
        BY <1>5
    <3>4. HoldsResponse(d, i, k)' <=> HoldsResponse(d, i, k) \/ (d = c /\ i = n /\ k = key)
      <4>1. CASE kind[d] = kd
          BY <1>1, <1>2, <1>3, <2>1, <3>2, <4>1 DEF HoldsResponse
      <4>2. CASE kind[d] # kd
          BY <1>1, <1>2, <1>3, <1>4, <2>1, <3>3, <4>2, ProcessesFacts DEF HoldsResponse
      <4> QED
          BY <4>1, <4>2
    <3> QED
        BY <3>1, <3>4
  <2>5. Added(key, Response(c), n)
      BY <2>3, <2>4 DEF Added
  <2> QED
      BY <1>5, <2>2, <2>5, ChunkAdded, MessagesFacts
<1> QED
    BY <1>6, <1>7 DEF ListenerSplits

LEMMA ReaderHoldsLess ==
    ASSUME TypeInv, NEW p \in Processes, PopChunk(p)
    PROVE  /\ \A i, k : ReaderHolds(p, i, k)'
                          <=> ReaderHolds(p, i, k) /\ i # Len(reader[p].got) + 1
           /\ \A k : ReaderHolds(p, Len(reader[p].got) + 1, k) <=> k = Head(reader[p].left)
           /\ \A q \in Processes : \A i, k : q # p => (ReaderHolds(q, i, k)' <=> ReaderHolds(q, i, k))
           /\ Len(reader[p].got) \in Nat
<1> DEFINE s == reader[p].left
           g == reader[p].got
           h == chunk[Head(s)]
<1>1. s \in Seq(ChunkKeys) /\ s # <<>> /\ reader'[p] = [left |-> Tail(s), got |-> Append(g, h)]
      /\ \A q \in Processes : q # p => reader'[q] = reader[q]
    BY PopChunkTypes
<1>2. g \in Seq(ChunkValues) /\ h \in ChunkValues
    BY PopChunkTypes DEF TypeInv, ReaderStates
<1>3. /\ Head(s) = s[1] /\ Len(s) \in Nat /\ Len(s) >= 1 /\ Len(Tail(s)) = Len(s) - 1
      /\ \A j \in 1 .. Len(s) - 1 : Tail(s)[j] = s[j + 1]
    BY <1>1
<1>4. Len(Append(g, h)) = Len(g) + 1 /\ Len(g) \in Nat
    BY <1>2
<1>5. \A i, k : ReaderHolds(p, i, k)' <=>
          \E j \in 1 .. Len(Tail(s)) : i = Len(Append(g, h)) + j /\ Tail(s)[j] = k
    BY <1>1 DEF ReaderHolds
<1>6. \A i, k : ReaderHolds(p, i, k) <=> \E j \in 1 .. Len(s) : i = Len(g) + j /\ s[j] = k
    BY DEF ReaderHolds
<1>7. \A q \in Processes : \A i, k : q # p => (ReaderHolds(q, i, k)' <=> ReaderHolds(q, i, k))
    BY <1>1 DEF ReaderHolds
<1> HIDE DEF s, g, h
<1>8. \A i, k : ReaderHolds(p, i, k)' <=>
          \E j \in 1 .. Len(s) - 1 : i = Len(g) + 1 + j /\ s[j + 1] = k
    BY <1>3, <1>4, <1>5
<1>9. ASSUME NEW i, NEW k
      PROVE  ReaderHolds(p, i, k)' <=> ReaderHolds(p, i, k) /\ i # Len(g) + 1
  <2>1. ASSUME NEW j \in 1 .. Len(s) - 1, i = Len(g) + 1 + j, s[j + 1] = k
        PROVE  j + 1 \in 1 .. Len(s) /\ i = Len(g) + (j + 1) /\ i # Len(g) + 1
      BY <2>1, <1>3, <1>4
  <2>2. ASSUME NEW j \in 1 .. Len(s), i = Len(g) + j, s[j] = k, i # Len(g) + 1
        PROVE  j - 1 \in 1 .. Len(s) - 1 /\ i = Len(g) + 1 + (j - 1) /\ s[(j - 1) + 1] = k
    <3>1. j # 1
        BY <2>2
    <3> QED
        BY <2>2, <3>1, <1>3, <1>4
  <2> QED
      BY <1>6, <1>8, <2>1, <2>2
<1>10. ASSUME NEW k PROVE ReaderHolds(p, Len(g) + 1, k) <=> k = Head(s)
  <2>1. \A j \in 1 .. Len(s) : Len(g) + 1 = Len(g) + j <=> j = 1
      BY <1>3, <1>4
  <2>2. 1 \in 1 .. Len(s)
      BY <1>3
  <2> QED
      BY <1>3, <1>6, <2>1, <2>2
<1> QED
    BY <1>4, <1>7, <1>9, <1>10 DEF s, g, h

LEMMA PiecesDiffer ==
    ASSUME ChunkInv, NEW c \in Clients, NEW d \in Clients, NEW i \in 1 .. Chunks,
           NEW j \in 1 .. Chunks, NEW k \in ChunkKeys
    PROVE  /\ ~(HoldsRequest(c, i, k) /\ HoldsResponse(d, j, k))
           /\ HoldsRequest(c, i, k) /\ HoldsRequest(d, j, k) => c = d /\ i = j
           /\ HoldsResponse(c, i, k) /\ HoldsResponse(d, j, k) => c = d /\ i = j
    BY MessagesDiffer DEF ChunkInv

\* The next chunk of a reader is one of the message.
LEMMA NextChunk ==
    ASSUME TypeInv, NEW p \in Processes, NEW msg, ReaderFits(p, msg), PopChunk(p)
    PROVE  Len(reader[p].got) + 1 \in 1 .. Chunks
<1>1. reader[p].left \in Seq(ChunkKeys) /\ reader[p].left # <<>> /\ Len(reader[p].got) \in Nat
    BY PopChunkTypes, ReaderHoldsLess
<1>2. Len(reader[p].left) \in Nat /\ Len(reader[p].left) >= 1
    BY <1>1
<1>3. Len(reader[p].got) + Len(reader[p].left) = Chunks
    BY <1>1 DEF ReaderFits
<1>4. \A a, b \in Nat : b >= 1 /\ a + b = Chunks => a + 1 \in 1 .. Chunks
    BY IntercomConstants
<1> QED
    BY <1>1, <1>2, <1>3, <1>4

LEMMA ClientPopsChunks ==
    ASSUME TypeInv, FlowInv, ChunkInv, LengthInv, NEW c \in Clients, ClientPops(c)
    PROVE  ChunkInv'
<1> DEFINE key == Head(reader[c].left)
           n == Len(reader[c].got) + 1
<1>1. client[c].step = "read" /\ UNCHANGED <<kind, queue, string, client, listener, writer>>
      /\ PopChunk(c) /\ c \in Processes
    BY ProcessesFacts DEF ClientPops, AtClient
<1>2. /\ \A d, i, k : /\ QueueHolds(d, i, k)' <=> QueueHolds(d, i, k)
                      /\ StringHolds(d, i, k)' <=> StringHolds(d, i, k)
                      /\ WriterHolds(d, i, k)' <=> WriterHolds(d, i, k)
    BY <1>1 DEF QueueHolds, StringHolds, WriterHolds
<1>3. key \in ChunkKeys /\ chunk' = [chunk EXCEPT ![key] = None]
    BY <1>1, PopChunkTypes
<1>4. /\ \A i, k : ReaderHolds(c, i, k)' <=> ReaderHolds(c, i, k) /\ i # n
      /\ \A k : ReaderHolds(c, n, k) <=> k = key
      /\ \A q \in Processes : \A i, k : q # c => (ReaderHolds(q, i, k)' <=> ReaderHolds(q, i, k))
    BY <1>1, ReaderHoldsLess
<1>5. \A d \in Clients : kind[d] \in Kinds /\ kind[d] # c /\ kind[d] \in Processes
    BY Apart, ProcessesFacts DEF TypeInv
<1>6. n \in 1 .. Chunks
  <2>1. ReaderFits(c, Response(c))
      BY <1>1 DEF LengthInv, ClientFits
  <2> QED
      BY <1>1, <2>1, NextChunk
<1> HIDE DEF key, n
<1>7. string[c] = None /\ listener[kind[c]].of # c
    BY <1>1 DEF FlowInv, ClientFlow
<1>8. \A i, k : /\ HoldsResponse(c, i, k) <=> ReaderHolds(c, i, k)
                /\ HoldsResponse(c, i, k)' <=> ReaderHolds(c, i, k)'
    BY <1>1, <1>7 DEF HoldsResponse, StringHolds
<1>9. HoldsResponse(c, n, key)
    BY <1>4, <1>8
<1>10. Removed(key)
  <2> SUFFICES ASSUME NEW d \in Clients, NEW i \in 1 .. Chunks, NEW k \in ChunkKeys
               PROVE  /\ HoldsRequest(d, i, k)' <=> HoldsRequest(d, i, k) /\ k # key
                      /\ HoldsResponse(d, i, k)' <=> HoldsResponse(d, i, k) /\ k # key
      BY <1>3 DEF Removed
  <2>1. HoldsRequest(d, i, k) => k # key
      BY <1>3, <1>6, <1>9, PiecesDiffer
  <2>2. HoldsRequest(d, i, k)' <=> HoldsRequest(d, i, k)
      BY <1>1, <1>2, <1>4, <1>5 DEF HoldsRequest
  <2>3. CASE d # c
    <3>1. HoldsResponse(d, i, k) => k # key
        BY <1>3, <1>6, <1>9, <2>3, PiecesDiffer
    <3>2. HoldsResponse(d, i, k)' <=> HoldsResponse(d, i, k)
        BY <1>1, <1>2, <1>4, <1>5, <2>3, ProcessesFacts DEF HoldsResponse
    <3> QED
        BY <2>1, <2>2, <3>1, <3>2
  <2>4. CASE d = c
    <3>1. HoldsResponse(c, i, k)' <=> HoldsResponse(c, i, k) /\ i # n
        BY <1>4, <1>8
    <3>2. HoldsResponse(c, i, k) /\ k = key => i = n
        BY <1>3, <1>6, <1>9, PiecesDiffer
    <3>3. HoldsResponse(c, i, k) /\ i = n => k = key
        BY <1>4, <1>8
    <3> QED
        BY <2>1, <2>2, <2>4, <3>1, <3>2, <3>3
  <2> QED
      BY <2>3, <2>4
<1> QED
    BY <1>3, <1>10, ChunkRemoved

LEMMA ListenerPopsChunks ==
    ASSUME TypeInv, FlowInv, ChunkInv, LengthInv, NEW kd \in Kinds, ListenerPops(kd)
    PROVE  ChunkInv'
<1> DEFINE key == Head(reader[kd].left)
           n == Len(reader[kd].got) + 1
<1>1. listener[kd].step = "read" /\ UNCHANGED <<kind, queue, string, client, listener, writer>>
      /\ PopChunk(kd) /\ kd \in Processes
    BY ProcessesFacts DEF ListenerPops, AtListener
<1>c. PICK c \in Clients : c = listener[kd].of /\ kind[c] = kd
    BY <1>1, ListenerFacts, NoneAssumption DEF FlowInv, QueueFlow
<1>2. /\ \A d, i, k : /\ QueueHolds(d, i, k)' <=> QueueHolds(d, i, k)
                      /\ StringHolds(d, i, k)' <=> StringHolds(d, i, k)
                      /\ WriterHolds(d, i, k)' <=> WriterHolds(d, i, k)
    BY <1>1 DEF QueueHolds, StringHolds, WriterHolds
<1>3. key \in ChunkKeys /\ chunk' = [chunk EXCEPT ![key] = None]
    BY <1>1, PopChunkTypes
<1>4. /\ \A i, k : ReaderHolds(kd, i, k)' <=> ReaderHolds(kd, i, k) /\ i # n
      /\ \A k : ReaderHolds(kd, n, k) <=> k = key
      /\ \A q \in Processes : \A i, k : q # kd => (ReaderHolds(q, i, k)' <=> ReaderHolds(q, i, k))
    BY <1>1, ReaderHoldsLess
<1>5. \A d \in Clients : kind[d] \in Kinds /\ d # kd /\ kind[d] \in Processes /\ d \in Processes
    BY Apart, ProcessesFacts DEF TypeInv
<1>6. n \in 1 .. Chunks
  <2>1. ReaderFits(kd, Request(c))
      BY <1>1, <1>c DEF LengthInv, ListenerFits
  <2> QED
      BY <1>1, <2>1, NextChunk
<1>8. client[c].step # "start" /\ \A i, k : ~QueueHolds(c, i, k)
    BY <1>1, <1>c DEF FlowInv, ClientFlow, QueueHolds, Queued
<1>9. \A i, k : /\ HoldsRequest(c, i, k) <=> ReaderHolds(kd, i, k)
                /\ HoldsRequest(c, i, k)' <=> ReaderHolds(kd, i, k)'
    BY <1>1, <1>2, <1>c, <1>8 DEF HoldsRequest
<1> HIDE DEF key, n
<1>10. HoldsRequest(c, n, key)
    BY <1>4, <1>9
<1>11. Removed(key)
  <2> SUFFICES ASSUME NEW d \in Clients, NEW i \in 1 .. Chunks, NEW k \in ChunkKeys
               PROVE  /\ HoldsRequest(d, i, k)' <=> HoldsRequest(d, i, k) /\ k # key
                      /\ HoldsResponse(d, i, k)' <=> HoldsResponse(d, i, k) /\ k # key
      BY <1>3 DEF Removed
  <2>1. HoldsResponse(d, i, k) => k # key
      BY <1>3, <1>6, <1>c, <1>10, PiecesDiffer
  <2>2. HoldsResponse(d, i, k)' <=> HoldsResponse(d, i, k)
      BY <1>1, <1>2, <1>4, <1>5 DEF HoldsResponse
  <2>3. CASE d # c
    <3>1. HoldsRequest(d, i, k) => k # key
        BY <1>3, <1>6, <1>c, <1>10, <2>3, PiecesDiffer
    <3>2. HoldsRequest(d, i, k)' <=> HoldsRequest(d, i, k)
      <4>1. CASE kind[d] = kd
          BY <1>1, <1>2, <1>c, <2>3, <4>1 DEF HoldsRequest
      <4>2. CASE kind[d] # kd
          BY <1>1, <1>2, <1>4, <1>5, <4>2 DEF HoldsRequest
      <4> QED
          BY <4>1, <4>2
    <3> QED
        BY <2>1, <2>2, <3>1, <3>2
  <2>4. CASE d = c
    <3>1. HoldsRequest(c, i, k)' <=> HoldsRequest(c, i, k) /\ i # n
        BY <1>4, <1>9
    <3>2. HoldsRequest(c, i, k) /\ k = key => i = n
        BY <1>3, <1>6, <1>c, <1>10, PiecesDiffer
    <3>3. HoldsRequest(c, i, k) /\ i = n => k = key
        BY <1>4, <1>9
    <3> QED
        BY <2>1, <2>2, <2>4, <3>1, <3>2, <3>3
  <2> QED
      BY <2>3, <2>4
<1> QED
    BY <1>3, <1>11, ChunkRemoved

\* What a value in a queue, a response or a writer has.
KeysHold(keys, i, k) == i \in 1 .. Len(keys) /\ keys[i] = k

LEMMA PushChunks ==
    ASSUME TypeInv, FlowInv, ChunkInv, LengthInv, NEW c \in Clients, Push(c)
    PROVE  ChunkInv'
<1> DEFINE v == Value(c, Request(c))
           q == queue[kind[c]]
<1>1. client[c].step = "start" /\ UNCHANGED <<kind, chunk, string, listener, reader>>
      /\ c \in Processes
    BY ProcessesFacts DEF Push, AtClient
<1>2. /\ queue'[kind[c]] = Append(q, v) /\ q \in Seq(QueueValues) /\ v.msg = Request(c)
      /\ \A k \in Kinds : k # kind[c] => queue'[k] = queue[k]
    BY QueuedAfterPush
<1>3. \A d \in Clients : kind[d] \in Kinds /\ kind[d] # c /\ kind[d] \in Processes /\ d \in Processes
    BY Apart, ProcessesFacts DEF TypeInv
<1>4. /\ \A d \in Clients : d # c => client'[d] = client[d] /\ writer'[d] = writer[d]
      /\ \A d \in Clients : writer'[kind[d]] = writer[kind[d]]
      /\ client'[c].step \notin {"start", "read"}
  <2>1. client[c] \in ClientStates
      BY DEF TypeInv
  <2>2. [client[c] EXCEPT !.step = IF kind[c] \in Queries THEN "wait" ELSE "sent"].step
           \in {"wait", "sent"}
      BY <2>1 DEF ClientStates
  <2>3. client'[c].step \in {"wait", "sent"}
      BY <2>2 DEF Push, TypeInv
  <2> QED
      BY <1>3, <2>3 DEF Push, TypeInv
<1>5. v.keys = writer[c].keys
  <2>1. v.keys = IF Request(c) \in large THEN writer[c].keys ELSE <<>>
      BY <1>1, ValueTypes, MessagesFacts
  <2>2. Request(c) \notin large => writer[c] = NoWrite
      BY DEF LengthInv, ClientFits
  <2> QED
      BY <2>1, <2>2, NoStates
<1>6. ASSUME NEW d \in Clients, NEW i, NEW k
      PROVE  QueueHolds(d, i, k)' <=> QueueHolds(d, i, k) \/ (d = c /\ WriterHolds(c, i, k))
  <2>1. CASE kind[d] # kind[c]
    <3>1. queue'[kind'[d]] = queue[kind[d]] /\ d # c
        BY <1>1, <1>2, <1>3, <2>1
    <3> QED
        BY <3>1 DEF QueueHolds
  <2>2. CASE kind[d] = kind[c]
    <3>1. DOMAIN Append(q, v) = 1 .. Len(q) + 1 /\ DOMAIN q = 1 .. Len(q) /\ Len(q) \in Nat
          /\ Append(q, v)[Len(q) + 1] = v /\ \A n \in 1 .. Len(q) : Append(q, v)[n] = q[n]
        BY <1>2
    <3>2. queue'[kind'[d]] = Append(q, v)
        BY <1>1, <1>2, <2>2
    <3>3. QueueHolds(d, i, k)' <=> \E n \in 1 .. Len(q) + 1 :
                 Append(q, v)[n].msg = Request(d) /\ KeysHold(Append(q, v)[n].keys, i, k)
        BY <3>1, <3>2 DEF QueueHolds, KeysHold
    <3>4. QueueHolds(d, i, k) <=> \E n \in 1 .. Len(q) : q[n].msg = Request(d) /\ KeysHold(q[n].keys, i, k)
        BY <2>2, <3>1 DEF QueueHolds, KeysHold
    <3>5. v.msg = Request(d) <=> d = c
        BY <1>2, MessagesDiffer
    <3>6. KeysHold(v.keys, i, k) <=> WriterHolds(c, i, k)
        BY <1>5 DEF KeysHold, WriterHolds
    <3>7. \A n : n \in 1 .. Len(q) + 1 <=> n \in 1 .. Len(q) \/ n = Len(q) + 1
        BY <3>1
    <3> HIDE DEF q, v
    <3> QED
        BY <3>1, <3>3, <3>4, <3>5, <3>6, <3>7
  <2> QED
      BY <2>1, <2>2
<1>7. \A d, i, k : /\ StringHolds(d, i, k)' <=> StringHolds(d, i, k)
                   /\ ReaderHolds(d, i, k)' <=> ReaderHolds(d, i, k)
    BY <1>1 DEF StringHolds, ReaderHolds
<1>8. \A d \in Clients : \A i, k : /\ d # c => (WriterHolds(d, i, k)' <=> WriterHolds(d, i, k))
                                   /\ WriterHolds(kind[d], i, k)' <=> WriterHolds(kind[d], i, k)
    BY <1>1, <1>4 DEF WriterHolds
<1>9. \A d \in Clients : \A i, k : /\ HoldsRequest(d, i, k)' <=> HoldsRequest(d, i, k)
                                   /\ HoldsResponse(d, i, k)' <=> HoldsResponse(d, i, k)
  <2> SUFFICES ASSUME NEW d \in Clients, NEW i, NEW k
               PROVE  /\ HoldsRequest(d, i, k)' <=> HoldsRequest(d, i, k)
                      /\ HoldsResponse(d, i, k)' <=> HoldsResponse(d, i, k)
      OBVIOUS
  <2>1. CASE d = c
      BY <1>1, <1>4, <1>6, <1>7, <1>8, <2>1 DEF HoldsRequest, HoldsResponse
  <2>2. CASE d # c
      BY <1>1, <1>4, <1>6, <1>7, <1>8, <2>2 DEF HoldsRequest, HoldsResponse
  <2> QED
      BY <2>1, <2>2
<1> QED
    BY <1>1, <1>9, ChunksStay

LEMMA ReaderStarts ==
    ASSUME NEW p \in Processes, NEW keys \in Seq(ChunkKeys),
           reader'[p] = [left |-> keys, got |-> <<>>]
    PROVE  \A i, k : ReaderHolds(p, i, k)' <=> KeysHold(keys, i, k)
<1>1. \A i, k : ReaderHolds(p, i, k)'
                  <=> \E j \in 1 .. Len(keys) : i = Len(<<>>) + j /\ keys[j] = k
    BY DEF ReaderHolds
<1>2. Len(<<>>) = 0 /\ \A j \in 1 .. Len(keys) : 0 + j = j
    OBVIOUS
<1> QED
    BY <1>1, <1>2 DEF KeysHold

LEMMA PollChunks ==
    ASSUME TypeInv, FlowInv, ChunkInv, NEW c \in Clients, Poll(c)
    PROVE  ChunkInv'
<1> DEFINE keys == string[c].keys
<1>1. client[c].step = "wait" /\ string[c] # None /\ UNCHANGED <<kind, chunk, queue, listener, writer>>
      /\ c \in Processes
    BY ProcessesFacts DEF Poll, AtClient
<1>2. /\ \A d, i, k : /\ QueueHolds(d, i, k)' <=> QueueHolds(d, i, k)
                      /\ WriterHolds(d, i, k)' <=> WriterHolds(d, i, k)
    BY <1>1 DEF QueueHolds, WriterHolds
<1>3. \A d \in Clients : kind[d] \in Kinds /\ kind[d] # c /\ kind[d] \in Processes /\ d \in Processes
    BY Apart, ProcessesFacts DEF TypeInv
<1>4. keys \in Seq(ChunkKeys) /\ string[c] \in StringValues
    BY <1>1 DEF TypeInv, StringValues
<1>5. /\ reader'[c] = [left |-> keys, got |-> <<>>]
      /\ \A p \in Processes : p # c => reader'[p] = reader[p]
      /\ string'[c] = None /\ client'[c].step = "read"
      /\ \A d \in Clients : d # c => string'[d] = string[d] /\ client'[d] = client[d]
    BY <1>1 DEF Poll, TypeInv
<1>6. /\ \A i, k : ReaderHolds(c, i, k)' <=> KeysHold(keys, i, k)
      /\ \A p \in Processes : \A i, k : p # c => (ReaderHolds(p, i, k)' <=> ReaderHolds(p, i, k))
      /\ \A i, k : ~StringHolds(c, i, k)' /\ (StringHolds(c, i, k) <=> KeysHold(keys, i, k))
      /\ \A d \in Clients : \A i, k : d # c => (StringHolds(d, i, k)' <=> StringHolds(d, i, k))
  <2>1. \A i, k : ReaderHolds(c, i, k)' <=> KeysHold(keys, i, k)
      BY <1>1, <1>4, <1>5, ReaderStarts
  <2> QED
      BY <1>1, <1>5, <2>1 DEF ReaderHolds, StringHolds, KeysHold
<1>7. listener[kind[c]].of # c
  <2>1. answered[c] # None
      BY <1>1, <1>4, NoneAssumption DEF FlowInv, ClientFlow, StringValues
  <2> QED
      BY <2>1 DEF FlowInv, ClientFlow
<1> HIDE DEF keys
<1>8. \A d \in Clients : \A i, k : /\ HoldsRequest(d, i, k)' <=> HoldsRequest(d, i, k)
                                   /\ HoldsResponse(d, i, k)' <=> HoldsResponse(d, i, k)
  <2> SUFFICES ASSUME NEW d \in Clients, NEW i, NEW k
               PROVE  /\ HoldsRequest(d, i, k)' <=> HoldsRequest(d, i, k)
                      /\ HoldsResponse(d, i, k)' <=> HoldsResponse(d, i, k)
      OBVIOUS
  <2>1. CASE d = c
      BY <1>1, <1>2, <1>3, <1>5, <1>6, <1>7, <2>1 DEF HoldsRequest, HoldsResponse
  <2>2. CASE d # c
      BY <1>1, <1>2, <1>3, <1>5, <1>6, <2>2 DEF HoldsRequest, HoldsResponse
  <2> QED
      BY <2>1, <2>2
<1> QED
    BY <1>1, <1>8, ChunksStay

LEMMA GetChunks ==
    ASSUME TypeInv, FlowInv, ChunkInv, NEW kd \in Kinds, GetNextTask(kd)
    PROVE  ChunkInv'
<1> DEFINE q == queue[kd]
           keys == q[1].keys
<1>1. PICK c \in Clients :
             /\ Head(q).msg = Request(c) /\ kind[c] = kd /\ Queued(c)
             /\ q \in Seq(QueueValues) /\ q # <<>>
             /\ queue'[kd] = Tail(q) /\ \A kk \in Kinds : kk # kd => queue'[kk] = queue[kk]
             /\ \A d \in Clients : Queued(d)' <=> Queued(d) /\ d # c
             /\ listener' = [listener EXCEPT ![kd] = [step |-> "read", of |-> c, answer |-> None]]
             /\ listener[kd].step = "poll" /\ listener[kd].of = None
    BY QueuedAfterGet DEF FlowInv
<1>2. UNCHANGED <<kind, chunk, string, client, writer>> /\ kd \in Processes
    BY ProcessesFacts DEF GetNextTask
<1>3. \A d \in Clients : kind[d] \in Kinds /\ d # kd /\ kind[d] \in Processes /\ d \in Processes
    BY Apart, ProcessesFacts DEF TypeInv
<1>4. /\ Head(q) = q[1] /\ Len(q) \in Nat /\ Len(q) >= 1 /\ DOMAIN q = 1 .. Len(q)
      /\ DOMAIN Tail(q) = 1 .. Len(q) - 1 /\ \A n \in 1 .. Len(q) - 1 : Tail(q)[n] = q[n + 1]
    BY <1>1
<1>5. keys \in Seq(ChunkKeys)
  <2>1. q[1] \in QueueValues
      BY <1>1, <1>4
  <2> QED
      BY <2>1 DEF QueueValues
<1>6. /\ reader'[kd] = [left |-> keys, got |-> <<>>]
      /\ \A p \in Processes : p # kd => reader'[p] = reader[p]
    BY <1>2, <1>4 DEF GetNextTask, TypeInv
<1>7. /\ \A i, k : ReaderHolds(kd, i, k)' <=> KeysHold(keys, i, k)
      /\ \A p \in Processes : \A i, k : p # kd => (ReaderHolds(p, i, k)' <=> ReaderHolds(p, i, k))
  <2>1. \A i, k : ReaderHolds(kd, i, k)' <=> KeysHold(keys, i, k)
      BY <1>2, <1>5, <1>6, ReaderStarts
  <2> QED
      BY <1>6, <2>1 DEF ReaderHolds
<1>8. \A d, i, k : /\ StringHolds(d, i, k)' <=> StringHolds(d, i, k)
                   /\ WriterHolds(d, i, k)' <=> WriterHolds(d, i, k)
    BY <1>2 DEF StringHolds, WriterHolds
<1>9. listener'[kd].of = c /\ listener'[kd].step = "read"
      /\ \A kk \in Kinds : kk # kd => listener'[kk] = listener[kk]
    BY <1>1 DEF TypeInv
<1>10. \A m, n \in 1 .. Len(q) : q[m].msg = q[n].msg => m = n
    BY <1>1 DEF FlowInv, QueueFlow
<1>11. ASSUME NEW d \in Clients, NEW i, NEW k
       PROVE  /\ d # c => (QueueHolds(d, i, k)' <=> QueueHolds(d, i, k))
              /\ d = c => ~QueueHolds(d, i, k)' /\ (QueueHolds(d, i, k) <=> KeysHold(keys, i, k))
  <2>1. CASE kind[d] # kd
    <3>1. queue'[kind'[d]] = queue[kind[d]] /\ d # c
        BY <1>1, <1>2, <1>3, <2>1
    <3> QED
        BY <3>1 DEF QueueHolds
  <2>2. CASE kind[d] = kd
    <3>1. QueueHolds(d, i, k) <=>
            \E n \in 1 .. Len(q) : q[n].msg = Request(d) /\ KeysHold(q[n].keys, i, k)
        BY <1>4, <2>2 DEF QueueHolds, KeysHold
    <3>2. QueueHolds(d, i, k)' <=>
            \E n \in 1 .. Len(q) - 1 : Tail(q)[n].msg = Request(d) /\ KeysHold(Tail(q)[n].keys, i, k)
      <4>1. queue'[kind'[d]] = Tail(q)
          BY <1>1, <1>2, <2>2
      <4> QED
          BY <1>4, <4>1 DEF QueueHolds, KeysHold
    <3>3. q[1].msg = Request(d) <=> d = c
        BY <1>1, <1>4, MessagesDiffer
    <3>4. \A n \in 1 .. Len(q) : n # 1 => n - 1 \in 1 .. Len(q) - 1 /\ (n - 1) + 1 = n
        BY <1>4
    <3>5. \A n \in 1 .. Len(q) - 1 : n + 1 \in 1 .. Len(q) /\ n + 1 # 1 /\ 1 \in 1 .. Len(q)
        BY <1>4
    <3>6. 1 \in 1 .. Len(q)
        BY <1>4
    <3>7. CASE d # c
      <4>1. QueueHolds(d, i, k) => QueueHolds(d, i, k)'
        <5>1. SUFFICES ASSUME NEW n \in 1 .. Len(q), q[n].msg = Request(d), KeysHold(q[n].keys, i, k)
                       PROVE  QueueHolds(d, i, k)'
            BY <3>1
        <5>2. n # 1
            BY <3>3, <3>7, <5>1
        <5>3. n - 1 \in 1 .. Len(q) - 1 /\ Tail(q)[n - 1] = q[n]
            BY <1>4, <3>4, <5>2
        <5> HIDE DEF q
        <5> QED
            BY <3>2, <5>1, <5>3
      <4>2. QueueHolds(d, i, k)' => QueueHolds(d, i, k)
        <5> HIDE DEF q
        <5> QED
            BY <1>4, <3>1, <3>2, <3>5
      <4> QED
          BY <3>7, <4>1, <4>2
    <3>8. CASE d = c
      <4> HIDE DEF q
      <4>1. \A n \in 1 .. Len(q) : q[n].msg = Request(d) <=> n = 1
          BY <1>10, <3>3, <3>6, <3>8
      <4>2. QueueHolds(d, i, k) <=> KeysHold(q[1].keys, i, k)
          BY <3>1, <3>6, <4>1
      <4>3. ~QueueHolds(d, i, k)'
          BY <1>4, <3>2, <3>5, <4>1
      <4> QED
          BY <3>8, <4>2, <4>3
    <3> QED
        BY <3>7, <3>8
  <2> QED
      BY <2>1, <2>2
<1>12. client[c].step # "start"
    BY <1>1 DEF FlowInv, ClientFlow
<1> HIDE DEF q, keys
<1>13. \A d \in Clients : \A i, k : /\ HoldsRequest(d, i, k)' <=> HoldsRequest(d, i, k)
                                    /\ HoldsResponse(d, i, k)' <=> HoldsResponse(d, i, k)
  <2> SUFFICES ASSUME NEW d \in Clients, NEW i, NEW k
               PROVE  /\ HoldsRequest(d, i, k)' <=> HoldsRequest(d, i, k)
                      /\ HoldsResponse(d, i, k)' <=> HoldsResponse(d, i, k)
      OBVIOUS
  <2>1. CASE d = c
      BY <1>1, <1>2, <1>3, <1>7, <1>8, <1>9, <1>11, <1>12, <2>1 DEF HoldsRequest, HoldsResponse
  <2>2. CASE d # c /\ kind[d] = kd
      BY <1>1, <1>2, <1>3, <1>7, <1>8, <1>9, <1>11, <2>2 DEF HoldsRequest, HoldsResponse
  <2>3. CASE d # c /\ kind[d] # kd
      BY <1>1, <1>2, <1>3, <1>7, <1>8, <1>9, <1>11, <2>3 DEF HoldsRequest, HoldsResponse
  <2> QED
      BY <2>1, <2>2, <2>3
<1> QED
    BY <1>2, <1>13, ChunksStay

LEMMA SetResponseChunks ==
    ASSUME TypeInv, FlowInv, ChunkInv, LengthInv, NEW kd \in Kinds, SetResponse(kd)
    PROVE  ChunkInv'
<1>1. listener[kd].step = "respond" /\ UNCHANGED <<kind, chunk, queue, client, reader>>
      /\ kd \in Processes
    BY ProcessesFacts DEF SetResponse, AtListener
<1>2. PICK c \in Clients : c = listener[kd].of /\ kind[c] = kd
    BY <1>1, ListenerFacts, NoneAssumption DEF FlowInv, QueueFlow
<1> DEFINE v == Value(kd, Response(c))
           s == [msg |-> v.msg, keys |-> v.keys, answer |-> listener[kd].answer]
<1>3. \A d \in Clients : kind[d] \in Kinds /\ d # kd /\ kind[d] \in Processes /\ d \in Processes
    BY Apart, ProcessesFacts DEF TypeInv
<1>4. \A d, i, k : /\ QueueHolds(d, i, k)' <=> QueueHolds(d, i, k)
                   /\ ReaderHolds(d, i, k)' <=> ReaderHolds(d, i, k)
    BY <1>1 DEF QueueHolds, ReaderHolds
<1>5. /\ string'[c] = s /\ \A d \in Clients : d # c => string'[d] = string[d]
      /\ listener'[kd].step = "poll" /\ listener'[kd].of = None
      /\ \A kk \in Kinds : kk # kd => listener'[kk] = listener[kk]
      /\ \A p \in Processes : p # kd => writer'[p] = writer[p]
    BY <1>1, <1>2 DEF SetResponse, TypeInv
<1>6. s.keys = writer[kd].keys /\ s # None
  <2>1. v.keys = IF Response(c) \in large THEN writer[kd].keys ELSE <<>>
      BY <1>1, ValueTypes, MessagesFacts
  <2>2. Response(c) \notin large => writer[kd] = NoWrite
      BY <1>2 DEF LengthInv, ListenerFits
  <2>3. v \in QueueValues
      BY <1>1, ValueTypes, MessagesFacts
  <2>4. listener[kd].answer \in {"full", "empty"}
      BY <1>1 DEF TypeInv, ListenerStates, Outcomes
  <2>5. s \in StringValues
      BY <2>3, <2>4 DEF QueueValues, StringValues
  <2> QED
      BY <2>1, <2>2, <2>5, NoStates, NoneAssumption DEF StringValues
<1> HIDE DEF s
<1>7. /\ \A i, k : StringHolds(c, i, k)' <=> WriterHolds(kd, i, k)
      /\ \A d \in Clients : \A i, k : d # c => (StringHolds(d, i, k)' <=> StringHolds(d, i, k))
      /\ \A p \in Processes : \A i, k : p # kd => (WriterHolds(p, i, k)' <=> WriterHolds(p, i, k))
    BY <1>5, <1>6 DEF StringHolds, WriterHolds
<1>8. string[c] = None /\ client[c].step # "read"
  <2>1. answered[c] = None
      BY <1>2 DEF FlowInv, ClientFlow
  <2>2. string[c] # None => string[c].answer \in {"full", "empty"}
      BY DEF TypeInv, StringValues
  <2> QED
      BY <2>1, <2>2, NoneAssumption DEF FlowInv, ClientFlow
<1>9. \A d \in Clients : \A i, k : /\ HoldsRequest(d, i, k)' <=> HoldsRequest(d, i, k)
                                   /\ HoldsResponse(d, i, k)' <=> HoldsResponse(d, i, k)
  <2> SUFFICES ASSUME NEW d \in Clients, NEW i, NEW k
               PROVE  /\ HoldsRequest(d, i, k)' <=> HoldsRequest(d, i, k)
                      /\ HoldsResponse(d, i, k)' <=> HoldsResponse(d, i, k)
      OBVIOUS
  <2>1. HoldsRequest(d, i, k)' <=> HoldsRequest(d, i, k)
    <3>1. CASE kind[d] = kd
        BY <1>1, <1>3, <1>4, <1>5, <1>7, <3>1 DEF HoldsRequest
    <3>2. CASE kind[d] # kd
        BY <1>1, <1>3, <1>4, <1>5, <1>7, <3>2 DEF HoldsRequest
    <3> QED
        BY <3>1, <3>2
  <2>2. CASE d = c
    <3>1. ~StringHolds(d, i, k)
        BY <1>8, <2>2 DEF StringHolds
    <3>2. HoldsResponse(d, i, k) <=> WriterHolds(kd, i, k)
        BY <1>1, <1>2, <1>8, <2>2, <3>1 DEF HoldsResponse
    <3>3. HoldsResponse(d, i, k)' <=> WriterHolds(kd, i, k)
        BY <1>1, <1>2, <1>5, <1>7, <1>8, <2>2 DEF HoldsResponse
    <3> QED
        BY <2>1, <3>2, <3>3
  <2>3. CASE d # c
    <3>1. CASE kind[d] = kd
      <4>1. listener[kind[d]].of # d
          BY <1>2, <2>3, <3>1
      <4> QED
          BY <1>1, <1>3, <1>4, <1>5, <1>7, <2>1, <2>3, <3>1, <4>1 DEF HoldsResponse
    <3>2. CASE kind[d] # kd
        BY <1>1, <1>3, <1>4, <1>5, <1>7, <2>1, <2>3, <3>2 DEF HoldsResponse
    <3> QED
        BY <3>1, <3>2
  <2> QED
      BY <2>2, <2>3
<1> QED
    BY <1>1, <1>9, ChunksStay

\* Steps of a client after it read all chunks, or while it waits.
LEMMA ClientQuietChunks ==
    ASSUME TypeInv, ChunkInv, LengthInv, NEW c \in Clients,
           UNCHANGED <<kind, chunk, queue, string, listener, writer>>,
           client[c].step # "start", client'[c].step \notin {"start", "read"},
           \A d \in Clients : d # c => client'[d] = client[d],
           reader[c].left = <<>>,
           \A p \in Processes : p # c => reader'[p] = reader[p]
    PROVE  ChunkInv'
<1>1. \A d \in Clients : kind[d] \in Kinds /\ kind[d] # c /\ kind[d] \in Processes /\ d \in Processes
    BY Apart, ProcessesFacts DEF TypeInv
<1>2. \A d, i, k : /\ QueueHolds(d, i, k)' <=> QueueHolds(d, i, k)
                   /\ StringHolds(d, i, k)' <=> StringHolds(d, i, k)
                   /\ WriterHolds(d, i, k)' <=> WriterHolds(d, i, k)
    BY DEF QueueHolds, StringHolds, WriterHolds
<1>3. /\ \A i, k : ~ReaderHolds(c, i, k)
      /\ \A p \in Processes : \A i, k : p # c => (ReaderHolds(p, i, k)' <=> ReaderHolds(p, i, k))
    BY DEF ReaderHolds
<1>4. \A d \in Clients : \A i, k : /\ HoldsRequest(d, i, k)' <=> HoldsRequest(d, i, k)
                                   /\ HoldsResponse(d, i, k)' <=> HoldsResponse(d, i, k)
  <2> SUFFICES ASSUME NEW d \in Clients, NEW i, NEW k
               PROVE  /\ HoldsRequest(d, i, k)' <=> HoldsRequest(d, i, k)
                      /\ HoldsResponse(d, i, k)' <=> HoldsResponse(d, i, k)
      OBVIOUS
  <2>1. CASE d = c
      BY <1>1, <1>2, <1>3, <2>1 DEF HoldsRequest, HoldsResponse
  <2>2. CASE d # c
      BY <1>1, <1>2, <1>3, <2>2 DEF HoldsRequest, HoldsResponse
  <2> QED
      BY <2>1, <2>2
<1> QED
    BY <1>4, ChunksStay

\* A listener ends its work on a request, or starts to respond.
LEMMA ListenerQuietChunks ==
    ASSUME TypeInv, FlowInv, ChunkInv, LengthInv, NEW kd \in Kinds, NEW answer,
           Process(kd, answer) \/ Fail(kd)
    PROVE  ChunkInv'
<1>1. listener[kd].step = "read" /\ reader[kd].left = <<>>
      /\ UNCHANGED <<kind, chunk, queue, string, writer>>
    BY DEF Process, Fail, AtListener
<1>2. PICK c \in Clients : c = listener[kd].of /\ kind[c] = kd
    BY <1>1, ListenerFacts, NoneAssumption DEF FlowInv, QueueFlow
<1>3. \A d \in Clients : kind[d] \in Kinds /\ d # kd /\ kind[d] \in Processes /\ d \in Processes
    BY Apart, ProcessesFacts DEF TypeInv
<1>4. \A d, i, k : /\ QueueHolds(d, i, k)' <=> QueueHolds(d, i, k)
                   /\ StringHolds(d, i, k)' <=> StringHolds(d, i, k)
                   /\ WriterHolds(d, i, k)' <=> WriterHolds(d, i, k)
    BY <1>1 DEF QueueHolds, StringHolds, WriterHolds
<1>5. /\ \A kk \in Kinds : kk # kd => listener'[kk] = listener[kk]
      /\ listener'[kd].step # "read"
      /\ \A p \in Processes : p # kd => reader'[p] = reader[p]
  <2>1. PICK s : listener' = [listener EXCEPT ![kd] = s] /\ s.step \in {"dead", "poll", "respond"}
      BY ListenerMoves DEF MovesTo
  <2>2. reader' = [reader EXCEPT ![kd] = NoRead]
      BY DEF Process, Fail
  <2> QED
      BY <2>1, <2>2 DEF TypeInv
<1>6. /\ \A i, k : ~ReaderHolds(kd, i, k) /\ ~WriterHolds(kd, i, k)
      /\ \A p \in Processes : \A i, k : p # kd => (ReaderHolds(p, i, k)' <=> ReaderHolds(p, i, k))
  <2>1. writer[kd].keys = <<>>
      BY <1>1, NoStates DEF LengthInv, ListenerFits
  <2>2. \A i, k : ~ReaderHolds(kd, i, k)
      BY <1>1 DEF ReaderHolds
  <2>3. \A i, k : ~WriterHolds(kd, i, k)
      BY <2>1 DEF WriterHolds
  <2>4. \A p \in Processes : \A i, k : p # kd => (ReaderHolds(p, i, k)' <=> ReaderHolds(p, i, k))
      BY <1>5 DEF ReaderHolds
  <2> QED
      BY <2>2, <2>3, <2>4
<1>7. \A d \in Clients : (client'[d].step = "start" <=> client[d].step = "start")
                         /\ (client'[d].step = "read" <=> client[d].step = "read")
  <2>1. client' = client \/ client' = [client EXCEPT ![c].step = "taken"]
      BY <1>2 DEF Process, Fail
  <2>2. client[c] \in ClientStates
      BY DEF TypeInv
  <2>3. [client[c] EXCEPT !.step = "taken"].step = "taken"
      BY <2>2 DEF ClientStates
  <2>4. client[c].step \notin {"start", "read"}
      BY <1>1, <1>2 DEF FlowInv, ClientFlow
  <2> QED
      BY <2>1, <2>3, <2>4 DEF TypeInv
<1>8. \A d \in Clients : \A i, k : /\ HoldsRequest(d, i, k)' <=> HoldsRequest(d, i, k)
                                   /\ HoldsResponse(d, i, k)' <=> HoldsResponse(d, i, k)
  <2> SUFFICES ASSUME NEW d \in Clients, NEW i, NEW k
               PROVE  /\ HoldsRequest(d, i, k)' <=> HoldsRequest(d, i, k)
                      /\ HoldsResponse(d, i, k)' <=> HoldsResponse(d, i, k)
      OBVIOUS
  <2>1. CASE kind[d] = kd
      BY <1>1, <1>3, <1>4, <1>5, <1>6, <1>7, <2>1 DEF HoldsRequest, HoldsResponse
  <2>2. CASE kind[d] # kd
      BY <1>1, <1>3, <1>4, <1>5, <1>6, <1>7, <2>2 DEF HoldsRequest, HoldsResponse
  <2> QED
      BY <2>1, <2>2
<1> QED
    BY <1>1, <1>8, ChunksStay

(***************************************************************************)
(* The lengths: what is stored for a message has all of its keys, and a    *)
(* reader has read what it does not have to read any more.                 *)
(***************************************************************************)
LEMMA QueueFitsSame ==
    ASSUME LengthInv, UNCHANGED <<large, queue>>
    PROVE  \A k \in Kinds : \A n \in DOMAIN queue'[k] : KeysFit(queue[k][n].msg, queue[k][n].keys)'
    BY DEF LengthInv, KeysFit

LEMMA StringFitsSame ==
    ASSUME LengthInv, large' = large, NEW c,
           \A d \in Clients : d # c => string'[d] = string[d]
    PROVE  \A d \in Clients : d # c /\ string'[d] # None => KeysFit(Response(d), string[d].keys)'
    BY DEF LengthInv, KeysFit, Response

LEMMA ClientFitsSame ==
    ASSUME LengthInv, large' = large, NEW d \in Clients,
           client'[d].step = client[d].step, writer'[d] = writer[d], reader'[d] = reader[d]
    PROVE  ClientFits(d)'
    BY DEF LengthInv, ClientFits, ReaderFits, Request, Response

LEMMA ListenerFitsSame ==
    ASSUME LengthInv, large' = large, NEW k \in Kinds,
           listener'[k] = listener[k], writer'[k] = writer[k], reader'[k] = reader[k]
    PROVE  ListenerFits(k)'
    BY DEF LengthInv, ListenerFits, ReaderFits, Request, Response

\* A reader at its end has the whole message.
LEMMA ReadToTheEnd ==
    ASSUME TypeInv, NEW p \in Processes, NEW msg \in Messages, ReaderFits(p, msg),
           reader[p].left = <<>>
    PROVE  Whole(p, msg)
<1> DEFINE g == reader[p].got
<1>1. g \in Seq(ChunkValues)
    BY DEF TypeInv, ReaderStates
<1>2. CASE msg \in large
  <2>1. Len(g) = Chunks
    <3>1. Len(g) + Len(<<>>) = Chunks
        BY <1>2 DEF ReaderFits
    <3>2. Len(<<>>) = 0 /\ Len(g) \in Nat
        BY <1>1
    <3> HIDE DEF g
    <3> QED
        BY <3>1, <3>2
  <2>2. g = [j \in 1 .. Chunks |-> g[j]]
      BY <1>1, <2>1
  <2>3. \A j \in 1 .. Chunks : g[j] = <<msg, j>>
      BY <1>1, <2>1 DEF ReaderFits
  <2>4. g = Pieces(msg)
      BY <2>2, <2>3 DEF Pieces
  <2> QED
      BY <2>4 DEF Whole
<1>3. CASE msg \notin large
    BY <1>3 DEF Whole
<1> QED
    BY <1>2, <1>3

\* The next chunk of a reader is the one that follows those it has.
LEMMA PopFits ==
    ASSUME TypeInv, NEW p \in Processes, NEW msg \in Messages, ReaderFits(p, msg), PopChunk(p),
           large' = large,
           chunk[Head(reader[p].left)] = <<msg, Len(reader[p].got) + 1>>
    PROVE  ReaderFits(p, msg)'
<1> DEFINE s == reader[p].left
           g == reader[p].got
           h == chunk[Head(s)]
<1>1. s \in Seq(ChunkKeys) /\ s # <<>> /\ reader'[p] = [left |-> Tail(s), got |-> Append(g, h)]
    BY PopChunkTypes
<1>2. g \in Seq(ChunkValues) /\ h \in ChunkValues
    BY PopChunkTypes DEF TypeInv, ReaderStates
<1>3. /\ Len(s) \in Nat /\ Len(s) >= 1 /\ Len(Tail(s)) = Len(s) - 1
      /\ Len(Append(g, h)) = Len(g) + 1 /\ Len(g) \in Nat
      /\ Append(g, h)[Len(g) + 1] = h /\ \A j \in 1 .. Len(g) : Append(g, h)[j] = g[j]
      /\ DOMAIN Append(g, h) = 1 .. Len(g) + 1
    BY <1>1, <1>2
<1>4. msg \in large /\ Len(g) + Len(s) = Chunks
    BY <1>1 DEF ReaderFits
<1>5. \A j \in 1 .. Len(g) : g[j] = <<msg, j>>
    BY <1>2 DEF ReaderFits
<1>6. \A j \in 1 .. Len(g) + 1 : j \in 1 .. Len(g) \/ j = Len(g) + 1
    BY <1>3
<1>7. h = <<msg, Len(g) + 1>>
    OBVIOUS
<1> HIDE DEF g, s, h
<1>8. \A j \in DOMAIN Append(g, h) : Append(g, h)[j] = <<msg, j>>
    BY <1>3, <1>5, <1>6, <1>7
<1>9. Len(Append(g, h)) + Len(Tail(s)) = Chunks
  <2>1. \A a, b \in Nat : (a + 1) + (b - 1) = a + b
      OBVIOUS
  <2>2. Len(g) \in Nat /\ Len(s) \in Nat
      BY <1>3
  <2>3. (Len(g) + 1) + (Len(s) - 1) = Chunks
      BY <1>4, <2>1, <2>2
  <2>4. Len(Append(g, h)) = Len(g) + 1 /\ Len(Tail(s)) = Len(s) - 1
      BY <1>3
  <2> QED
      BY <2>3, <2>4
<1> QED
    BY <1>1, <1>4, <1>8, <1>9 DEF ReaderFits

LEMMA HeadOfRequest ==
    ASSUME TypeInv, FlowInv, ChunkInv, LengthInv, NEW kd \in Kinds, ListenerPops(kd)
    PROVE  /\ Request(listener[kd].of) \in Messages
           /\ chunk[Head(reader[kd].left)] = <<Request(listener[kd].of), Len(reader[kd].got) + 1>>
<1> DEFINE key == Head(reader[kd].left)
           n == Len(reader[kd].got) + 1
<1>1. listener[kd].step = "read" /\ PopChunk(kd) /\ kd \in Processes
    BY ProcessesFacts DEF ListenerPops, AtListener
<1>2. PICK c \in Clients : c = listener[kd].of /\ kind[c] = kd
    BY <1>1, ListenerFacts, NoneAssumption DEF FlowInv, QueueFlow
<1>3. ReaderHolds(kd, n, key)
    BY <1>1, ReaderHoldsLess
<1>4. HoldsRequest(c, n, key)
    BY <1>1, <1>2, <1>3 DEF HoldsRequest
<1>5. key \in ChunkKeys
    BY <1>1, PopChunkTypes
<1>6. n \in 1 .. Chunks
  <2>1. ReaderFits(kd, Request(c))
      BY <1>1, <1>2 DEF LengthInv, ListenerFits
  <2> QED
      BY <1>1, <2>1, NextChunk
<1> HIDE DEF key, n
<1>7. chunk[key] = <<Request(c), n>>
    BY <1>4, <1>5, <1>6 DEF ChunkInv
<1> QED
    BY <1>2, <1>7, MessagesFacts DEF key, n

LEMMA HeadOfResponse ==
    ASSUME TypeInv, FlowInv, ChunkInv, LengthInv, NEW c \in Clients, ClientPops(c)
    PROVE  chunk[Head(reader[c].left)] = <<Response(c), Len(reader[c].got) + 1>>
<1> DEFINE key == Head(reader[c].left)
           n == Len(reader[c].got) + 1
<1>1. client[c].step = "read" /\ PopChunk(c) /\ c \in Processes
    BY ProcessesFacts DEF ClientPops, AtClient
<1>2. ReaderHolds(c, n, key)
    BY <1>1, ReaderHoldsLess
<1>3. HoldsResponse(c, n, key)
    BY <1>1, <1>2 DEF HoldsResponse
<1>4. key \in ChunkKeys
    BY <1>1, PopChunkTypes
<1>5. n \in 1 .. Chunks
  <2>1. ReaderFits(c, Response(c))
      BY <1>1 DEF LengthInv, ClientFits
  <2> QED
      BY <1>1, <2>1, NextChunk
<1> HIDE DEF key, n
<1>6. chunk[key] = <<Response(c), n>>
    BY <1>3, <1>4, <1>5 DEF ChunkInv
<1> QED
    BY <1>6 DEF key, n

\* A step of a client that leaves the queues alone keeps the lengths if its own fit.
LEMMA ClientStepFits ==
    ASSUME TypeInv, LengthInv, NEW c \in Clients, UNCHANGED <<large, queue, listener>>,
           \A d \in Clients : d # c => string'[d] = string[d] /\ client'[d] = client[d],
           \A p \in Processes : p # c => writer'[p] = writer[p] /\ reader'[p] = reader[p],
           string'[c] \in {string[c], None}, ClientFits(c)'
    PROVE  LengthInv'
<1>1. \A k \in Kinds : \A n \in DOMAIN queue'[k] : KeysFit(queue[k][n].msg, queue[k][n].keys)'
    BY QueueFitsSame
<1>2. \A d \in Clients : string'[d] # None => KeysFit(Response(d), string[d].keys)'
    BY DEF LengthInv, KeysFit, Response
<1>3. ASSUME NEW d \in Clients PROVE ClientFits(d)'
  <2>1. CASE d = c
      BY <2>1 DEF ClientFits, ReaderFits, Request, Response
  <2>2. CASE d # c
      BY <2>2, ClientFitsSame, ProcessesFacts
  <2> QED
      BY <2>1, <2>2
<1>4. ASSUME NEW k \in Kinds PROVE ListenerFits(k)'
    BY ListenerFitsSame, ProcessesFacts, Apart
<1> QED
    BY <1>1, <1>2, <1>3, <1>4 DEF LengthInv

\* A step of a listener keeps the lengths if its own fit.
LEMMA ListenerStepFits ==
    ASSUME TypeInv, LengthInv, NEW k \in Kinds, large' = large,
           \A d \in Clients : client'[d].step = client[d].step
                              \/ (client[d].step \notin {"start", "read"}
                                  /\ client'[d].step \notin {"start", "read"}),
           \A kk \in Kinds : kk # k => listener'[kk] = listener[kk],
           \A p \in Processes : p # k => writer'[p] = writer[p] /\ reader'[p] = reader[p],
           ListenerFits(k)'
    PROVE  (\A d \in Clients : ClientFits(d)') /\ (\A kk \in Kinds : ListenerFits(kk)')
<1>1. ASSUME NEW d \in Clients PROVE ClientFits(d)'
  <2>1. writer'[d] = writer[d] /\ reader'[d] = reader[d]
      BY ProcessesFacts, Apart
  <2>2. CASE client'[d].step = client[d].step
      BY <2>1, <2>2, ClientFitsSame
  <2>3. CASE client[d].step \notin {"start", "read"} /\ client'[d].step \notin {"start", "read"}
    <3>1. writer[d] = NoWrite /\ reader[d] = NoRead
        BY <2>3 DEF LengthInv, ClientFits
    <3> QED
        BY <2>1, <2>3, <3>1 DEF ClientFits, NoWrite, NoRead
  <2> QED
      BY <2>2, <2>3
<1>2. ASSUME NEW kk \in Kinds PROVE ListenerFits(kk)'
  <2>1. CASE kk = k
      BY <2>1
  <2>2. CASE kk # k
      BY <2>2, ListenerFitsSame, ProcessesFacts
  <2> QED
      BY <2>1, <2>2
<1> QED
    BY <1>1, <1>2

LEMMA PushFits ==
    ASSUME TypeInv, LengthInv, NEW c \in Clients, Push(c)
    PROVE  LengthInv'
<1> DEFINE v == Value(c, Request(c))
           q == queue[kind[c]]
<1>1. client[c].step = "start" /\ UNCHANGED <<kind, large, string, listener, reader>> /\ c \in Processes
    BY ProcessesFacts DEF Push, AtClient
<1>2. /\ queue'[kind[c]] = Append(q, v) /\ q \in Seq(QueueValues) /\ v.msg = Request(c)
      /\ \A k \in Kinds : k # kind[c] => queue'[k] = queue[k]
    BY QueuedAfterPush
<1>3. KeysFit(v.msg, v.keys)
  <2>1. v.keys = IF Request(c) \in large THEN writer[c].keys ELSE <<>>
      BY <1>1, ValueTypes, MessagesFacts
  <2>2. Request(c) \in large => Len(writer[c].keys) = Chunks
      BY DEF Push, Ready
  <2> QED
      BY <1>2, <2>1, <2>2 DEF KeysFit
<1>4. ASSUME NEW k \in Kinds, NEW n \in DOMAIN queue'[k]
      PROVE  KeysFit(queue[k][n].msg, queue[k][n].keys)'
  <2>1. \A m \in DOMAIN queue[k] : KeysFit(queue[k][m].msg, queue[k][m].keys)
      BY DEF LengthInv
  <2>2. CASE k # kind[c]
      BY <1>1, <1>2, <1>4, <2>1, <2>2 DEF KeysFit
  <2>3. CASE k = kind[c]
    <3>1. /\ DOMAIN Append(q, v) = 1 .. Len(q) + 1 /\ DOMAIN q = 1 .. Len(q) /\ Len(q) \in Nat
          /\ Append(q, v)[Len(q) + 1] = v /\ \A m \in 1 .. Len(q) : Append(q, v)[m] = q[m]
        BY <1>2
    <3>2. n \in 1 .. Len(q) \/ n = Len(q) + 1
        BY <1>2, <1>4, <2>3, <3>1
    <3>3. KeysFit(Append(q, v)[n].msg, Append(q, v)[n].keys)
        BY <1>3, <2>1, <2>3, <3>1, <3>2
    <3> QED
        BY <1>1, <1>2, <2>3, <3>3 DEF KeysFit
  <2> QED
      BY <2>2, <2>3
<1>5. /\ \A d \in Clients : d # c => client'[d] = client[d] /\ writer'[d] = writer[d]
      /\ \A k \in Kinds : writer'[k] = writer[k]
      /\ client'[c].step \notin {"start", "read"} /\ writer'[c] = NoWrite
  <2>1. client[c] \in ClientStates
      BY DEF TypeInv
  <2>2. [client[c] EXCEPT !.step = IF kind[c] \in Queries THEN "wait" ELSE "sent"].step
           \in {"wait", "sent"}
      BY <2>1 DEF ClientStates
  <2>3. client'[c].step \in {"wait", "sent"}
      BY <2>2 DEF Push, TypeInv
  <2> QED
      BY <1>1, <2>3, Apart, ProcessesFacts DEF Push, TypeInv
<1>6. ASSUME NEW d \in Clients PROVE ClientFits(d)'
  <2>1. CASE d = c
    <3>1. reader[c] = NoRead
        BY <1>1 DEF LengthInv, ClientFits
    <3> QED
        BY <1>1, <1>5, <2>1, <3>1 DEF ClientFits, NoWrite, NoRead
  <2>2. CASE d # c
      BY <1>1, <1>5, <2>2, ClientFitsSame
  <2> QED
      BY <2>1, <2>2
<1>7. ASSUME NEW k \in Kinds PROVE ListenerFits(k)'
    BY <1>1, <1>5, ListenerFitsSame
<1>8. \A d \in Clients : string'[d] # None => KeysFit(Response(d), string[d].keys)'
    BY <1>1 DEF LengthInv, KeysFit, Response
<1> QED
    BY <1>4, <1>6, <1>7, <1>8 DEF LengthInv

LEMMA ClientStepsFit ==
    ASSUME TypeInv, FlowInv, ChunkInv, LengthInv, NEW c \in Clients, ClientStep(c) \/ AskAgain(c)
    PROVE  LengthInv'
<1>0. c \in Processes /\ ClientFits(c)
    BY ProcessesFacts DEF LengthInv
<1>1. CASE ClientSplits(c)
  <2>1. /\ client[c].step = "start" /\ Request(c) \in large
        /\ UNCHANGED <<large, queue, string, client, listener, reader>>
      BY <1>1 DEF ClientSplits, AtClient
  <2>2. \A p \in Processes : p # c => writer'[p] = writer[p]
      BY <1>0, <1>1, FindFreeKeyTypes, SetChunkTypes, MessagesFacts DEF ClientSplits
  <2>3. ClientFits(c)'
      BY <1>0, <2>1 DEF ClientFits, Request, NoRead
  <2> QED
      BY <2>1, <2>2, <2>3, ClientStepFits
<1>2. CASE Push(c)
    BY <1>2, PushFits
<1>3. CASE Poll(c)
  <2>1. /\ client[c].step = "wait" /\ string[c] # None
        /\ UNCHANGED <<large, queue, listener, writer>>
      BY <1>3 DEF Poll, AtClient
  <2>2. /\ \A d \in Clients : d # c => string'[d] = string[d] /\ client'[d] = client[d]
        /\ \A p \in Processes : p # c => reader'[p] = reader[p]
        /\ string'[c] = None /\ client'[c].step = "read"
        /\ reader'[c] = [left |-> string[c].keys, got |-> <<>>]
      BY <1>0, <1>3 DEF Poll, TypeInv
  <2>3. KeysFit(Response(c), string[c].keys) /\ string[c].keys \in Seq(ChunkKeys)
      BY <2>1 DEF LengthInv, TypeInv, StringValues
  <2>4. Len(<<>>) + Len(string[c].keys) = Len(string[c].keys) /\ DOMAIN <<>> = {}
      BY <2>3
  <2>5. ReaderFits(c, Response(c))'
      BY <2>1, <2>2, <2>3, <2>4 DEF ReaderFits, KeysFit, Response
  <2>6. ClientFits(c)'
      BY <1>0, <2>1, <2>2, <2>5 DEF ClientFits, NoWrite
  <2> QED
      BY <2>1, <2>2, <2>6, ClientStepFits
<1>4. CASE ClientPops(c)
  <2>1. client[c].step = "read" /\ PopChunk(c)
        /\ UNCHANGED <<large, queue, string, client, listener, writer>>
      BY <1>4 DEF ClientPops, AtClient
  <2>2. ReaderFits(c, Response(c))
      BY <1>0, <2>1 DEF ClientFits
  <2>3. ReaderFits(c, Response(c))'
    <3>1. \A msg \in Messages : msg = Response(c) => ReaderFits(c, msg)'
      <4> SUFFICES ASSUME NEW msg \in Messages, msg = Response(c) PROVE ReaderFits(c, msg)'
          OBVIOUS
      <4>1. chunk[Head(reader[c].left)] = <<msg, Len(reader[c].got) + 1>>
          BY <1>4, HeadOfResponse
      <4> QED
          BY <1>0, <2>1, <2>2, <4>1, PopFits
    <3> QED
        BY <3>1, MessagesFacts DEF Response, ReaderFits
  <2>4. ClientFits(c)'
      BY <1>0, <2>1, <2>3 DEF ClientFits, NoWrite
  <2>5. \A p \in Processes : p # c => reader'[p] = reader[p]
      BY <1>0, <2>1, PopChunkTypes
  <2> QED
      BY <2>1, <2>4, <2>5, ClientStepFits
<1>5. CASE Receive(c) \/ TimeOut(c) \/ AskAgain(c)
  <2>1. UNCHANGED <<large, queue, string, listener, writer>> /\ client[c].step \in {"read", "wait", "timeout"}
      BY <1>5 DEF Receive, TimeOut, AskAgain, AtClient
  <2>2. /\ \A d \in Clients : d # c => client'[d] = client[d]
        /\ \A p \in Processes : p # c => reader'[p] = reader[p]
        /\ reader'[c] = NoRead
    <3>1. CASE Receive(c)
        BY <1>0, <3>1 DEF Receive, TypeInv
    <3>2. CASE TimeOut(c) \/ AskAgain(c)
      <4>1. client[c].step # "read" /\ reader' = reader
          BY <3>2 DEF TimeOut, AskAgain, AtClient
      <4> QED
          BY <1>0, <3>2, <4>1 DEF TimeOut, AskAgain, TypeInv, ClientFits
    <3> QED
        BY <1>5, <3>1, <3>2
  <2>3. client'[c].step \notin {"start", "read"}
    <3>1. client[c] \in ClientStates
        BY DEF TypeInv
    <3>2. [client[c] EXCEPT !.step = "wait"].step = "wait"
        BY <3>1 DEF ClientStates
    <3>3. CASE Receive(c)
      <4>1. PICK s \in {[step |-> "error", result |-> None], [step |-> "wait", result |-> None],
                        [step |-> "done", result |-> client[c].result]} :
                client' = [client EXCEPT ![c] = s]
          BY <3>3 DEF Receive
      <4> QED
          BY <4>1 DEF TypeInv
    <3>4. CASE TimeOut(c)
        BY <3>4 DEF TimeOut, TypeInv
    <3>5. CASE AskAgain(c)
      <4>1. client' = [client EXCEPT ![c] = [client[c] EXCEPT !.step = "wait"]]
          BY <3>5 DEF AskAgain
      <4> QED
          BY <3>2, <4>1 DEF TypeInv
    <3> QED
        BY <1>5, <3>3, <3>4, <3>5
  <2>4. ClientFits(c)'
      BY <1>0, <2>1, <2>2, <2>3 DEF ClientFits, NoWrite, NoRead
  <2> QED
      BY <2>1, <2>2, <2>4, ClientStepFits
<1> QED
    BY <1>1, <1>2, <1>3, <1>4, <1>5 DEF ClientStep

LEMMA GetFits ==
    ASSUME TypeInv, FlowInv, LengthInv, NEW kd \in Kinds, GetNextTask(kd)
    PROVE  LengthInv'
<1> DEFINE q == queue[kd]
<1>1. PICK c \in Clients :
             /\ Head(q).msg = Request(c) /\ kind[c] = kd /\ Queued(c)
             /\ q \in Seq(QueueValues) /\ q # <<>>
             /\ queue'[kd] = Tail(q) /\ \A kk \in Kinds : kk # kd => queue'[kk] = queue[kk]
             /\ \A d \in Clients : Queued(d)' <=> Queued(d) /\ d # c
             /\ listener' = [listener EXCEPT ![kd] = [step |-> "read", of |-> c, answer |-> None]]
             /\ listener[kd].step = "poll" /\ listener[kd].of = None
    BY QueuedAfterGet DEF FlowInv
<1>2. UNCHANGED <<large, string, client, writer>> /\ kd \in Processes
    BY ProcessesFacts DEF GetNextTask
<1>3. /\ Head(q) = q[1] /\ Len(q) \in Nat /\ Len(q) >= 1 /\ DOMAIN q = 1 .. Len(q) /\ 1 \in 1 .. Len(q)
      /\ DOMAIN Tail(q) = 1 .. Len(q) - 1 /\ \A n \in 1 .. Len(q) - 1 : Tail(q)[n] = q[n + 1]
      /\ \A n \in 1 .. Len(q) - 1 : n + 1 \in 1 .. Len(q)
    BY <1>1
<1>4. \A n \in 1 .. Len(q) : KeysFit(q[n].msg, q[n].keys)
    BY <1>3 DEF LengthInv
<1>5. ASSUME NEW k \in Kinds, NEW n \in DOMAIN queue'[k]
      PROVE  KeysFit(queue[k][n].msg, queue[k][n].keys)'
  <2>1. CASE k # kd
      BY <1>1, <1>2, <1>5, <2>1 DEF LengthInv, KeysFit
  <2>2. CASE k = kd
    <3>1. queue'[k] = Tail(q) /\ n \in 1 .. Len(q) - 1
        BY <1>1, <1>3, <1>5, <2>2
    <3>2. KeysFit(queue'[k][n].msg, queue'[k][n].keys)
        BY <1>3, <1>4, <3>1
    <3> QED
        BY <1>2, <3>2 DEF KeysFit
  <2> QED
      BY <2>1, <2>2
<1>6. /\ reader'[kd] = [left |-> q[1].keys, got |-> <<>>]
      /\ \A p \in Processes : p # kd => reader'[p] = reader[p]
    BY <1>2, <1>3 DEF GetNextTask, TypeInv
<1>7. /\ listener'[kd].step = "read" /\ listener'[kd].of = c
      /\ \A kk \in Kinds : kk # kd => listener'[kk] = listener[kk]
    BY <1>1 DEF TypeInv
<1>8. KeysFit(Request(c), q[1].keys) /\ q[1].keys \in Seq(ChunkKeys)
  <2>1. q[1] \in QueueValues
      BY <1>1, <1>3
  <2> QED
      BY <1>1, <1>3, <1>4, <2>1 DEF QueueValues
<1>9. Len(<<>>) + Len(q[1].keys) = Len(q[1].keys) /\ DOMAIN <<>> = {}
    BY <1>8
<1> HIDE DEF q
<1>10. ReaderFits(kd, Request(c))'
    BY <1>2, <1>6, <1>8, <1>9 DEF ReaderFits, KeysFit, Request
<1>11. ListenerFits(kd)'
  <2>1. writer[kd] = NoWrite
      BY <1>1 DEF LengthInv, ListenerFits
  <2> QED
      BY <1>2, <1>7, <1>10, <2>1 DEF ListenerFits, ReaderFits, Request, NoWrite
<1>12. (\A d \in Clients : ClientFits(d)') /\ (\A kk \in Kinds : ListenerFits(kk)')
    BY <1>2, <1>6, <1>7, <1>11, ListenerStepFits
<1>13. \A d \in Clients : string'[d] # None => KeysFit(Response(d), string[d].keys)'
    BY <1>2 DEF LengthInv, KeysFit, Response
<1> QED
    BY <1>5, <1>12, <1>13 DEF LengthInv

LEMMA SetResponseFits ==
    ASSUME TypeInv, FlowInv, LengthInv, NEW kd \in Kinds, SetResponse(kd)
    PROVE  LengthInv'
<1>1. listener[kd].step = "respond" /\ UNCHANGED <<kind, large, queue, client, reader>>
      /\ kd \in Processes
    BY ProcessesFacts DEF SetResponse, AtListener
<1>2. PICK c \in Clients : c = listener[kd].of /\ kind[c] = kd
    BY <1>1, ListenerFacts, NoneAssumption DEF FlowInv, QueueFlow
<1> DEFINE v == Value(kd, Response(c))
           s == [msg |-> v.msg, keys |-> v.keys, answer |-> listener[kd].answer]
<1>3. /\ string'[c] = s /\ \A d \in Clients : d # c => string'[d] = string[d]
      /\ listener'[kd].step = "poll"
      /\ \A kk \in Kinds : kk # kd => listener'[kk] = listener[kk]
      /\ \A p \in Processes : p # kd => writer'[p] = writer[p]
      /\ writer'[kd] = NoWrite
    BY <1>1, <1>2 DEF SetResponse, TypeInv
<1>4. KeysFit(Response(c), s.keys)
  <2>1. v.keys = IF Response(c) \in large THEN writer[kd].keys ELSE <<>>
      BY <1>1, ValueTypes, MessagesFacts
  <2>2. Response(c) \in large => Len(writer[kd].keys) = Chunks
      BY <1>2 DEF SetResponse, Ready
  <2> QED
      BY <2>1, <2>2 DEF KeysFit
<1> HIDE DEF s
<1>5. \A d \in Clients : string'[d] # None => KeysFit(Response(d), string[d].keys)'
    BY <1>1, <1>3, <1>4 DEF LengthInv, KeysFit, Response
<1>6. reader[kd] = NoRead
    BY <1>1 DEF LengthInv, ListenerFits
<1>7. ListenerFits(kd)'
    BY <1>1, <1>3, <1>6 DEF ListenerFits, NoWrite, NoRead
<1>8. (\A d \in Clients : ClientFits(d)') /\ (\A kk \in Kinds : ListenerFits(kk)')
    BY <1>1, <1>3, <1>7, ListenerStepFits
<1>9. \A k \in Kinds : \A n \in DOMAIN queue'[k] : KeysFit(queue[k][n].msg, queue[k][n].keys)'
    BY <1>1, QueueFitsSame
<1> QED
    BY <1>5, <1>8, <1>9 DEF LengthInv

LEMMA ListenerStepsFit ==
    ASSUME TypeInv, FlowInv, ChunkInv, LengthInv, NEW kd \in Kinds, ListenerStep(kd) \/ Fail(kd)
    PROVE  LengthInv'
<1>0. kd \in Processes /\ ListenerFits(kd)
    BY ProcessesFacts DEF LengthInv
<1>1. CASE GetNextTask(kd)
    BY <1>1, GetFits
<1>2. CASE SetResponse(kd)
    BY <1>2, SetResponseFits
<1>3. CASE ListenerPops(kd)
  <2>1. listener[kd].step = "read" /\ PopChunk(kd)
        /\ UNCHANGED <<large, queue, string, client, listener, writer>>
      BY <1>3 DEF ListenerPops, AtListener
  <2>2. ReaderFits(kd, Request(listener[kd].of))
      BY <1>0, <2>1 DEF ListenerFits
  <2>3. \A msg \in Messages : msg = Request(listener[kd].of) => ReaderFits(kd, msg)'
    <3> SUFFICES ASSUME NEW msg \in Messages, msg = Request(listener[kd].of)
                 PROVE  ReaderFits(kd, msg)'
        OBVIOUS
    <3>1. chunk[Head(reader[kd].left)] = <<msg, Len(reader[kd].got) + 1>>
        BY <1>3, HeadOfRequest
    <3> QED
        BY <1>0, <2>1, <2>2, <3>1, PopFits
  <2>4. ReaderFits(kd, Request(listener[kd].of))'
      BY <1>3, <2>1, <2>3, HeadOfRequest DEF Request, ReaderFits
  <2>5. ListenerFits(kd)'
      BY <1>0, <2>1, <2>4 DEF ListenerFits, NoWrite
  <2>6. \A p \in Processes : p # kd => reader'[p] = reader[p]
      BY <1>0, <2>1, PopChunkTypes
  <2>7. (\A d \in Clients : ClientFits(d)') /\ (\A kk \in Kinds : ListenerFits(kk)')
      BY <2>1, <2>5, <2>6, ListenerStepFits
  <2> QED
      BY <2>1, <2>7, QueueFitsSame DEF LengthInv, KeysFit, Response
<1>4. CASE ListenerSplits(kd)
  <2>1. /\ listener[kd].step = "respond" /\ Response(listener[kd].of) \in large
        /\ UNCHANGED <<large, queue, string, client, listener, reader>>
        /\ Response(listener[kd].of) \in Messages
      BY <1>4, ListenerFacts, MessagesFacts DEF ListenerSplits, AtListener
  <2>2. \A p \in Processes : p # kd => writer'[p] = writer[p]
      BY <1>0, <1>4, <2>1, FindFreeKeyTypes, SetChunkTypes DEF ListenerSplits
  <2>3. ListenerFits(kd)'
      BY <1>0, <2>1 DEF ListenerFits, Response, NoRead
  <2>4. (\A d \in Clients : ClientFits(d)') /\ (\A kk \in Kinds : ListenerFits(kk)')
      BY <2>1, <2>2, <2>3, ListenerStepFits
  <2> QED
      BY <2>1, <2>4, QueueFitsSame DEF LengthInv, KeysFit, Response
<1>5. ASSUME NEW answer, Process(kd, answer) \/ Fail(kd) PROVE LengthInv'
  <2>1. listener[kd].step = "read" /\ UNCHANGED <<kind, large, queue, string, writer>>
      BY <1>5 DEF Process, Fail, AtListener
  <2>2. PICK s : listener' = [listener EXCEPT ![kd] = s] /\ s.step \in {"dead", "poll", "respond"}
      BY <1>5, ListenerMoves DEF MovesTo
  <2>3. reader' = [reader EXCEPT ![kd] = NoRead]
      BY <1>5 DEF Process, Fail
  <2>4. /\ listener'[kd].step # "read" /\ reader'[kd] = NoRead
        /\ \A kk \in Kinds : kk # kd => listener'[kk] = listener[kk]
        /\ \A p \in Processes : p # kd => reader'[p] = reader[p]
      BY <1>0, <2>2, <2>3 DEF TypeInv
  <2>5. writer[kd] = NoWrite
      BY <1>0, <2>1 DEF ListenerFits
  <2>6. ListenerFits(kd)'
      BY <2>1, <2>4, <2>5 DEF ListenerFits, NoWrite, NoRead
  <2>7. PICK c \in Clients : c = listener[kd].of /\ kind[c] = kd
      BY <2>1, ListenerFacts, NoneAssumption DEF FlowInv, QueueFlow
  <2>8. \A d \in Clients : client'[d].step = client[d].step
                           \/ (client[d].step \notin {"start", "read"}
                               /\ client'[d].step \notin {"start", "read"})
    <3>1. client' = client \/ client' = [client EXCEPT ![c].step = "taken"]
        BY <1>5, <2>7 DEF Process, Fail
    <3>2. client[c] \in ClientStates
        BY DEF TypeInv
    <3>3. [client[c] EXCEPT !.step = "taken"].step = "taken"
        BY <3>2 DEF ClientStates
    <3>4. client[c].step \notin {"start", "read"}
        BY <2>1, <2>7 DEF FlowInv, ClientFlow
    <3> QED
        BY <3>1, <3>3, <3>4 DEF TypeInv
  <2>9. (\A d \in Clients : ClientFits(d)') /\ (\A kk \in Kinds : ListenerFits(kk)')
      BY <2>1, <2>4, <2>6, <2>8, ListenerStepFits
  <2> QED
      BY <2>1, <2>9, QueueFitsSame DEF LengthInv, KeysFit, Response
<1> QED
    BY <1>1, <1>2, <1>3, <1>4, <1>5 DEF ListenerStep

(***************************************************************************)
(* The outcome: no request fails, an answer with content is stored or with *)
(* its client, and only an exception ends a listener.                      *)
(***************************************************************************)
LEMMA ClientStepsOutcome ==
    ASSUME TypeInv, FlowInv, LengthInv, OutcomeInv, NEW c \in Clients, ClientStep(c) \/ AskAgain(c)
    PROVE  OutcomeInv'
<1>0. client[c] \in ClientStates /\ UNCHANGED <<listener, faults, answered>>
    BY DEF TypeInv, ClientStep, AskAgain, ClientSplits, Push, Poll, ClientPops, Receive, TimeOut
<1>1. IsFiniteSet(Dead)' /\ (Cardinality(Dead) <= faults)'
    BY <1>0 DEF OutcomeInv, Dead
<1>2. /\ \A d \in Clients : d # c => client'[d] = client[d] /\ string'[d] = string[d]
      /\ client'[c].step # "error"
      /\ answered[c] = "full" => string'[c] # None \/ client'[c].step \in {"read", "done"}
  <2>1. CASE ClientSplits(c) \/ ClientPops(c)
      BY <2>1 DEF ClientSplits, ClientPops, OutcomeInv
  <2>2. CASE Push(c)
    <3>1. answered[c] = None
        BY <2>2 DEF FlowInv, ClientFlow, Push, AtClient
    <3>2. [client[c] EXCEPT !.step = IF kind[c] \in Queries THEN "wait" ELSE "sent"].step
             \in {"wait", "sent"}
        BY <1>0 DEF ClientStates
    <3>3. client'[c].step \in {"wait", "sent"}
        BY <3>2, <2>2 DEF Push, TypeInv
    <3>4. \A d \in Clients : d # c => client'[d] = client[d] /\ string'[d] = string[d]
        BY <2>2 DEF Push, TypeInv
    <3> QED
        BY <3>1, <3>3, <3>4, NoneAssumption
  <2>3. CASE Poll(c)
      BY <2>3 DEF Poll, TypeInv
  <2>4. CASE Receive(c)
    <3>1. Whole(c, Response(c)) /\ client[c].step = "read"
      <4>1. client[c].step = "read" /\ reader[c].left = <<>>
          BY <2>4 DEF Receive, AtClient
      <4>2. ReaderFits(c, Response(c))
          BY <4>1 DEF LengthInv, ClientFits
      <4> QED
          BY <4>1, <4>2, ReadToTheEnd, MessagesFacts, ProcessesFacts
    <3>2. client[c].result = answered[c]
        BY <3>1 DEF FlowInv, ClientFlow
    <3>3. client' = [client EXCEPT ![c] = IF client[c].result = "empty"
                                             THEN [step |-> "wait", result |-> None]
                                             ELSE [step |-> "done", result |-> client[c].result]]
      <4>1. Unpickled(c, Response(c)) = {TRUE}
          BY <3>1 DEF Unpickled
      <4> QED
          BY <2>4, <4>1 DEF Receive
    <3>4. client'[c] = IF answered[c] = "empty" THEN [step |-> "wait", result |-> None]
                       ELSE [step |-> "done", result |-> client[c].result]
        BY <3>2, <3>3 DEF TypeInv
    <3>5. \A d \in Clients : d # c => client'[d] = client[d] /\ string'[d] = string[d]
        BY <2>4, <3>3 DEF Receive, TypeInv
    <3>6. CASE answered[c] = "empty"
      <4>1. client'[c].step = "wait"
          BY <3>4, <3>6
      <4> QED
          BY <3>5, <3>6, <4>1
    <3>7. CASE answered[c] # "empty"
      <4>1. client'[c].step = "done"
          BY <3>4, <3>7
      <4> QED
          BY <3>5, <4>1
    <3> QED
        BY <3>6, <3>7
  <2>5. CASE TimeOut(c)
      BY <2>5 DEF TimeOut, AtClient, TypeInv, OutcomeInv
  <2>6. CASE AskAgain(c)
    <3>1. [client[c] EXCEPT !.step = "wait"].step = "wait"
        BY <1>0 DEF ClientStates
    <3>2. client'[c].step = "wait" /\ client[c].step = "timeout"
        BY <2>6, <3>1 DEF AskAgain, AtClient, TypeInv
    <3>3. \A d \in Clients : string'[d] = string[d] /\ (d # c => client'[d] = client[d])
        BY <2>6 DEF AskAgain, TypeInv
    <3> QED
        BY <3>2, <3>3 DEF OutcomeInv
  <2> QED
      BY <2>1, <2>2, <2>3, <2>4, <2>5, <2>6 DEF ClientStep
<1>3. \A d \in Clients : client'[d].step # "error"
    BY <1>2 DEF OutcomeInv
<1>4. \A d \in Clients : answered'[d] = "full" => string'[d] # None \/ client'[d].step \in {"read", "done"}
    BY <1>0, <1>2 DEF OutcomeInv
<1> QED
    BY <1>1, <1>3, <1>4 DEF OutcomeInv

LEMMA ListenerStepsOutcome ==
    ASSUME TypeInv, FlowInv, LengthInv, OutcomeInv, NEW kd \in Kinds, ListenerStep(kd) \/ Fail(kd)
    PROVE  OutcomeInv'
<1>1. CASE GetNextTask(kd) \/ ListenerPops(kd) \/ ListenerSplits(kd)
  <2>1. UNCHANGED <<client, string, answered, faults>>
      BY <1>1 DEF GetNextTask, ListenerPops, ListenerSplits
  <2>2. Dead' = Dead
    <3>1. \A k \in Kinds : listener'[k].step = "dead" <=> listener[k].step = "dead"
      <4>1. CASE GetNextTask(kd)
          BY <4>1 DEF GetNextTask, AtListener, TypeInv
      <4>2. CASE ListenerPops(kd) \/ ListenerSplits(kd)
          BY <4>2 DEF ListenerPops, ListenerSplits
      <4> QED
          BY <1>1, <4>1, <4>2
    <3> QED
        BY <3>1 DEF Dead
  <2> QED
      BY <2>1, <2>2 DEF OutcomeInv
<1>2. CASE SetResponse(kd)
  <2>1. listener[kd].step = "respond" /\ UNCHANGED <<client, faults>>
      BY <1>2 DEF SetResponse, AtListener
  <2>2. PICK c \in Clients : c = listener[kd].of /\ kind[c] = kd
      BY <2>1, ListenerFacts, NoneAssumption DEF FlowInv, QueueFlow
  <2>3. /\ string' = [string EXCEPT ![c] = [msg |-> Value(kd, Response(c)).msg,
                                            keys |-> Value(kd, Response(c)).keys,
                                            answer |-> listener[kd].answer]]
        /\ answered' = [answered EXCEPT ![c] = listener[kd].answer]
        /\ listener' = [listener EXCEPT ![kd] = [step |-> "poll", of |-> None, answer |-> None]]
      BY <1>2, <2>2 DEF SetResponse
  <2>4. string'[c] # None
    <3>1. Value(kd, Response(c)) \in QueueValues
        BY ValueTypes, MessagesFacts, ProcessesFacts
    <3>2. listener[kd].answer \in {"full", "empty"}
        BY <2>1 DEF TypeInv, ListenerStates, Outcomes
    <3>3. string'[c] \in StringValues
        BY <2>3, <3>1, <3>2 DEF TypeInv, QueueValues, StringValues
    <3> QED
        BY <3>3, NoneAssumption DEF StringValues
  <2>5. \A d \in Clients : d # c => string'[d] = string[d] /\ answered'[d] = answered[d]
      BY <2>3 DEF TypeInv
  <2>6. Dead' = Dead
    <3>1. \A k \in Kinds : listener'[k].step = "dead" <=> listener[k].step = "dead"
        BY <2>1, <2>3 DEF TypeInv
    <3> QED
        BY <3>1 DEF Dead
  <2>7. \A d \in Clients : answered'[d] = "full" => string'[d] # None \/ client'[d].step \in {"read", "done"}
      BY <2>1, <2>4, <2>5 DEF OutcomeInv
  <2> QED
      BY <2>1, <2>6, <2>7 DEF OutcomeInv
<1>3. ASSUME NEW answer, Process(kd, answer) \/ Fail(kd) PROVE OutcomeInv'
  <2>1. listener[kd].step = "read" /\ reader[kd].left = <<>> /\ UNCHANGED <<string, answered>>
      BY <1>3 DEF Process, Fail, AtListener
  <2>2. PICK c \in Clients : c = listener[kd].of /\ kind[c] = kd
      BY <2>1, ListenerFacts, NoneAssumption DEF FlowInv, QueueFlow
  <2>3. PICK s : MovesTo(kd, answer, s)
      BY <1>3, ListenerMoves
  <2>4. Whole(kd, Request(c))
    <3>1. ReaderFits(kd, Request(c))
        BY <2>1, <2>2 DEF LengthInv, ListenerFits
    <3> QED
        BY <2>1, <3>1, ReadToTheEnd, MessagesFacts, ProcessesFacts
  <2>5. \A d \in Clients : client'[d] = client[d] \/ (d = c /\ client'[d].step = "taken")
    <3>1. client' = client \/ client' = [client EXCEPT ![c].step = "taken"]
        BY <1>3, <2>2 DEF Process, Fail
    <3>2. client[c] \in ClientStates
        BY DEF TypeInv
    <3>3. [client[c] EXCEPT !.step = "taken"].step = "taken"
        BY <3>2 DEF ClientStates
    <3> QED
        BY <3>1, <3>3 DEF TypeInv
  <2>6. answered[c] = None
      BY <2>2 DEF FlowInv, ClientFlow
  <2>7. /\ \A d \in Clients : client'[d].step # "error"
        /\ \A d \in Clients : answered'[d] = "full" =>
             string'[d] # None \/ client'[d].step \in {"read", "done"}
      BY <2>1, <2>5, <2>6, NoneAssumption DEF OutcomeInv
  <2>8. listener' = [listener EXCEPT ![kd] = s]
      BY <2>3 DEF MovesTo
  <2>9. CASE Process(kd, answer)
    <3>1. s.step # "dead" /\ faults' = faults
        BY <2>2, <2>3, <2>4, <2>9 DEF MovesTo, Process
    <3>2. Dead' = Dead
      <4>1. \A k \in Kinds : listener'[k].step = "dead" <=> listener[k].step = "dead"
          BY <2>1, <2>8, <3>1 DEF TypeInv
      <4> QED
          BY <4>1 DEF Dead
    <3> QED
        BY <2>7, <3>1, <3>2 DEF OutcomeInv
  <2>10. CASE Fail(kd)
    <3>1. faults' = faults + 1 /\ faults \in Int
        BY <2>10 DEF Fail, TypeInv
    <3>2. Dead' \subseteq Dead \cup {kd}
        BY <2>8 DEF Dead, TypeInv
    <3>3. IsFiniteSet(Dead \cup {kd}) /\ Cardinality(Dead \cup {kd}) <= faults + 1
      <4>1. IsFiniteSet(Dead) /\ Cardinality(Dead) <= faults /\ Cardinality(Dead) \in Nat
          BY FS_CardinalityType DEF OutcomeInv
      <4>2. Cardinality(Dead \cup {kd}) \in {Cardinality(Dead), Cardinality(Dead) + 1}
            /\ IsFiniteSet(Dead \cup {kd})
          BY <4>1, FS_AddElement
      <4> QED
          BY <3>1, <4>1, <4>2
    <3>4. IsFiniteSet(Dead') /\ Cardinality(Dead') <= Cardinality(Dead \cup {kd})
          /\ Cardinality(Dead') \in Nat /\ Cardinality(Dead \cup {kd}) \in Nat
        BY <3>2, <3>3, FS_Subset, FS_CardinalityType
    <3>5. Cardinality(Dead') <= faults'
        BY <3>1, <3>3, <3>4
    <3> QED
        BY <2>7, <3>4, <3>5 DEF OutcomeInv
  <2> QED
      BY <1>3, <2>9, <2>10
<1> QED
    BY <1>1, <1>2, <1>3 DEF ListenerStep

(***************************************************************************)
(* The keys in use are those that somebody holds.                          *)
(***************************************************************************)
LEMMA StoredIsHeld ==
    ASSUME TypeInv, FlowInv, ChunkInv, NEW k \in ChunkKeys, chunk[k] # None
    PROVE  k \in UNION Holders
<1>1. PICK c \in Clients, i \in 1 .. Chunks : HoldsRequest(c, i, k) \/ HoldsResponse(c, i, k)
  <2>1. chunk[k] \in Messages \X (1 .. Chunks)
      BY DEF TypeInv, ChunkValues
  <2>2. PICK m \in Messages, i \in 1 .. Chunks : chunk[k] = <<m, i>>
      BY <2>1
  <2>3. PICK c \in Clients : m = Request(c) \/ m = Response(c)
      BY DEF Messages, Request, Response
  <2> QED
      BY <2>2, <2>3 DEF ChunkInv
<1>2. kind[c] \in Kinds /\ c \in Processes /\ kind[c] \in Processes
    BY ProcessesFacts DEF TypeInv
<1>3. ASSUME NEW p \in Processes, WriterHolds(p, i, k) PROVE k \in UNION Holders
  <2>1. writer[p].keys \in Seq(ChunkKeys)
      BY DEF TypeInv, WriterStates
  <2>2. k \in ToSet(writer[p].keys)
      BY <1>3, <2>1 DEF WriterHolds, ToSet
  <2> QED
      BY <2>2 DEF Holders
<1>4. ASSUME NEW p \in Processes, ReaderHolds(p, i, k) PROVE k \in UNION Holders
  <2>1. reader[p].left \in Seq(ChunkKeys)
      BY DEF TypeInv, ReaderStates
  <2>2. k \in ToSet(reader[p].left)
      BY <1>4, <2>1 DEF ReaderHolds, ToSet
  <2> QED
      BY <2>2 DEF Holders
<1>5. ASSUME QueueHolds(c, i, k) PROVE k \in UNION Holders
  <2>1. PICK n \in DOMAIN queue[kind[c]] :
          i \in 1 .. Len(queue[kind[c]][n].keys) /\ queue[kind[c]][n].keys[i] = k
      BY <1>5 DEF QueueHolds
  <2>2. queue[kind[c]][n].keys \in Seq(ChunkKeys)
      BY <1>2, <2>1, QueueFacts DEF QueueValues
  <2>3. k \in ToSet(queue[kind[c]][n].keys)
      BY <2>1, <2>2 DEF ToSet
  <2>4. ToSet(queue[kind[c]][n].keys) \in
            UNION {{ToSet(queue[kd][m].keys) : m \in DOMAIN queue[kd]} : kd \in Kinds}
      BY <1>2, <2>1
  <2> QED
      BY <2>3, <2>4 DEF Holders
<1>6. ASSUME StringHolds(c, i, k) PROVE k \in UNION Holders
  <2>1. string[c] # None /\ i \in 1 .. Len(string[c].keys) /\ string[c].keys[i] = k
      BY <1>6 DEF StringHolds
  <2>2. string[c].keys \in Seq(ChunkKeys)
      BY <2>1 DEF TypeInv, StringValues
  <2>3. k \in ToSet(string[c].keys)
      BY <2>1, <2>2 DEF ToSet
  <2> QED
      BY <2>1, <2>3 DEF Holders
<1> QED
    BY <1>1, <1>2, <1>3, <1>4, <1>5, <1>6 DEF HoldsRequest, HoldsResponse

LEMMA HeldIsStored ==
    ASSUME TypeInv, FlowInv, ChunkInv, LengthInv, NEW k \in UNION Holders
    PROVE  k \in ChunkKeys /\ chunk[k] # None
<1>1. \A c \in Clients, i \in 1 .. Chunks :
        k \in ChunkKeys /\ (HoldsRequest(c, i, k) \/ HoldsResponse(c, i, k)) => chunk[k] # None
  <2>1. \A c \in Clients, i \in 1 .. Chunks : <<Request(c), i>> # None /\ <<Response(c), i>> # None
      BY NoneAssumption, MessagesFacts
  <2> QED
      BY <2>1 DEF ChunkInv
<1>2. ASSUME NEW kd \in Kinds, NEW n \in DOMAIN queue[kd], k \in ToSet(queue[kd][n].keys)
      PROVE  k \in ChunkKeys /\ chunk[k] # None
  <2> DEFINE keys == queue[kd][n].keys
  <2>1. keys \in Seq(ChunkKeys)
      BY QueueFacts DEF QueueValues
  <2>2. PICK j \in 1 .. Len(keys) : keys[j] = k
      BY <1>2, <2>1 DEF ToSet
  <2>3. PICK c \in Clients : queue[kd][n].msg = Request(c) /\ kind[c] = kd
      BY DEF FlowInv, QueueFlow
  <2>4. KeysFit(Request(c), keys)
      BY <2>3 DEF LengthInv
  <2>5. j \in 1 .. Chunks
      BY <2>1, <2>2, <2>4 DEF KeysFit
  <2>6. HoldsRequest(c, j, k)
      BY <2>2, <2>3 DEF HoldsRequest, QueueHolds
  <2>7. k \in ChunkKeys
      BY <2>1, <2>2
  <2> QED
      BY <1>1, <2>5, <2>6, <2>7
<1>3. ASSUME NEW c \in Clients, string[c] # None, k \in ToSet(string[c].keys)
      PROVE  k \in ChunkKeys /\ chunk[k] # None
  <2> DEFINE keys == string[c].keys
  <2>1. keys \in Seq(ChunkKeys)
      BY <1>3 DEF TypeInv, StringValues
  <2>2. PICK j \in 1 .. Len(keys) : keys[j] = k
      BY <1>3, <2>1 DEF ToSet
  <2>3. KeysFit(Response(c), keys)
      BY <1>3 DEF LengthInv
  <2>4. j \in 1 .. Chunks
      BY <2>1, <2>2, <2>3 DEF KeysFit
  <2>5. HoldsResponse(c, j, k)
      BY <1>3, <2>2 DEF HoldsResponse, StringHolds
  <2>6. k \in ChunkKeys
      BY <2>1, <2>2
  <2> QED
      BY <1>1, <2>4, <2>5, <2>6
<1>4. ASSUME NEW p \in Processes, k \in ToSet(writer[p].keys)
      PROVE  k \in ChunkKeys /\ chunk[k] # None
  <2>1. writer[p].keys \in Seq(ChunkKeys) /\ Len(writer[p].keys) <= Chunks
      BY DEF TypeInv, WriterStates
  <2>2. PICK j \in 1 .. Len(writer[p].keys) : writer[p].keys[j] = k
      BY <1>4, <2>1 DEF ToSet
  <2>3. WriterHolds(p, j, k) /\ writer[p] # NoWrite
      BY <2>1, <2>2, NoStates DEF WriterHolds
  <2>4. j \in 1 .. Chunks /\ k \in ChunkKeys
      BY <2>1, <2>2, IntercomConstants
  <2>5. CASE p \in Clients
    <3>1. client[p].step = "start"
        BY <2>3, <2>5 DEF LengthInv, ClientFits
    <3> QED
        BY <1>1, <2>3, <2>4, <2>5, <3>1 DEF HoldsRequest
  <2>6. CASE p \in Kinds
    <3>1. listener[p].step = "respond"
        BY <2>3, <2>6 DEF LengthInv, ListenerFits
    <3>2. PICK c \in Clients : c = listener[p].of /\ kind[c] = p
        BY <2>6, <3>1, ListenerFacts, NoneAssumption DEF FlowInv, QueueFlow
    <3>3. HoldsResponse(c, j, k)
        BY <2>3, <3>1, <3>2 DEF HoldsResponse
    <3> QED
        BY <1>1, <2>4, <3>3
  <2> QED
      BY <2>5, <2>6 DEF Processes
<1>5. ASSUME NEW p \in Processes, k \in ToSet(reader[p].left)
      PROVE  k \in ChunkKeys /\ chunk[k] # None
  <2> DEFINE s == reader[p].left
             g == reader[p].got
  <2>1. s \in Seq(ChunkKeys) /\ g \in Seq(ChunkValues)
      BY DEF TypeInv, ReaderStates
  <2>2. PICK j \in 1 .. Len(s) : s[j] = k
      BY <1>5, <2>1 DEF ToSet
  <2>3. ReaderHolds(p, Len(g) + j, k) /\ reader[p] # NoRead /\ s # <<>>
      BY <2>1, <2>2, NoStates DEF ReaderHolds
  <2>4. \A msg : ReaderFits(p, msg) => Len(g) + j \in 1 .. Chunks
    <3> SUFFICES ASSUME NEW msg, ReaderFits(p, msg) PROVE Len(g) + j \in 1 .. Chunks
        OBVIOUS
    <3>1. Len(g) + Len(s) = Chunks
        BY <2>3 DEF ReaderFits
    <3>2. \A a, b \in Nat : a + b = Chunks => \A x \in 1 .. b : a + x \in 1 .. Chunks
        BY IntercomConstants
    <3>3. Len(g) \in Nat /\ Len(s) \in Nat
        BY <2>1
    <3> HIDE DEF s, g
    <3> QED
        BY <2>2, <3>1, <3>2, <3>3
  <2>5. k \in ChunkKeys
      BY <2>1, <2>2
  <2> HIDE DEF s, g
  <2>6. CASE p \in Clients
    <3>1. client[p].step = "read" /\ ReaderFits(p, Response(p))
        BY <2>3, <2>6 DEF LengthInv, ClientFits
    <3>2. HoldsResponse(p, Len(g) + j, k)
        BY <2>3, <3>1 DEF HoldsResponse
    <3> QED
        BY <1>1, <2>4, <2>5, <2>6, <3>1, <3>2
  <2>7. CASE p \in Kinds
    <3>1. listener[p].step = "read" /\ ReaderFits(p, Request(listener[p].of))
        BY <2>3, <2>7 DEF LengthInv, ListenerFits
    <3>2. PICK c \in Clients : c = listener[p].of /\ kind[c] = p
        BY <2>7, <3>1, ListenerFacts, NoneAssumption DEF FlowInv, QueueFlow
    <3>3. HoldsRequest(c, Len(g) + j, k)
        BY <2>3, <3>1, <3>2 DEF HoldsRequest
    <3> QED
        BY <1>1, <2>4, <2>5, <3>1, <3>3
  <2> QED
      BY <2>6, <2>7 DEF Processes
<1> QED
    BY <1>2, <1>3, <1>4, <1>5 DEF Holders

(***************************************************************************)
(* The inductive invariant, and what follows from it.                      *)
(***************************************************************************)
LEMMA InitKept == Init => KeptInv
<1> SUFFICES ASSUME Init PROVE ChunkInv /\ LengthInv /\ OutcomeInv
    BY DEF KeptInv
<1>0. TypeInv
    BY InitTypes
<1>1. \A c \in Clients : kind[c] \in Kinds /\ kind[c] \in Processes /\ c \in Processes
    BY <1>0, ProcessesFacts DEF TypeInv
<1>2. /\ \A p \in Processes : \A i, k : ~WriterHolds(p, i, k) /\ ~ReaderHolds(p, i, k)
      /\ \A c \in Clients : \A i, k : ~QueueHolds(c, i, k) /\ ~StringHolds(c, i, k)
    BY <1>1, NoStates DEF Init, WriterHolds, ReaderHolds, QueueHolds, StringHolds
<1>3. ChunkInv
  <2>1. \A c \in Clients, i \in 1 .. Chunks : <<Request(c), i>> # None /\ <<Response(c), i>> # None
      BY NoneAssumption, MessagesFacts
  <2> QED
      BY <1>1, <1>2, <2>1 DEF Init, ChunkInv, HoldsRequest, HoldsResponse
<1>4. LengthInv
    BY <1>1, ProcessesFacts DEF Init, LengthInv, ClientFits, ListenerFits
<1>5. OutcomeInv
  <2>1. Dead = {}
      BY DEF Init, Dead
  <2>2. IsFiniteSet(Dead) /\ Cardinality(Dead) = 0 /\ faults = 0
      BY <2>1, FS_EmptySet DEF Init
  <2> QED
      BY <2>2, NoneAssumption DEF Init, OutcomeInv
<1> QED
    BY <1>3, <1>4, <1>5

IntercomInv == TypeInv /\ FlowInv /\ KeptInv

LEMMA NextInv == IntercomInv /\ [Next]_vars => IntercomInv'
<1> SUFFICES ASSUME TypeInv, FlowInv, KeptInv, [Next]_vars
             PROVE  TypeInv' /\ FlowInv' /\ KeptInv'
    BY DEF IntercomInv
<1>0. ~clash' => ChunkInv /\ LengthInv /\ OutcomeInv
    BY NothingOverwritten DEF KeptInv
<1>1. CASE UNCHANGED vars
  <2>0. /\ kind' = kind /\ large' = large /\ chunk' = chunk /\ queue' = queue
        /\ string' = string /\ client' = client /\ listener' = listener
        /\ writer' = writer /\ reader' = reader /\ faults' = faults /\ clash' = clash
        /\ answered' = answered
      BY <1>1 DEF vars
  <2>1. TypeInv'
      BY <1>1 DEF vars, TypeInv
  <2>2. FlowInv'
      BY <1>1, ChunkStepFlow DEF vars
  <2>3. ChunkInv => ChunkInv'
    <3>1. \A p, i, k : WriterHolds(p, i, k)' <=> WriterHolds(p, i, k)
        BY <2>0 DEF WriterHolds
    <3>2. \A p, i, k : ReaderHolds(p, i, k)' <=> ReaderHolds(p, i, k)
        BY <2>0 DEF ReaderHolds
    <3>3. \A c, i, k : QueueHolds(c, i, k)' <=> QueueHolds(c, i, k)
        BY <2>0 DEF QueueHolds
    <3>4. \A c, i, k : StringHolds(c, i, k)' <=> StringHolds(c, i, k)
        BY <2>0 DEF StringHolds
    <3>5. \A c, i, k : HoldsRequest(c, i, k)' <=> HoldsRequest(c, i, k)
        BY <2>0, <3>1, <3>2, <3>3 DEF HoldsRequest
    <3>6. \A c, i, k : HoldsResponse(c, i, k)' <=> HoldsResponse(c, i, k)
        BY <2>0, <3>1, <3>2, <3>4 DEF HoldsResponse
    <3> QED
        BY <2>0, <3>5, <3>6, ChunksStay
  <2>4. LengthInv => LengthInv'
    <3>1. \A k \in Kinds : ListenerFits(k) => ListenerFits(k)'
        BY <2>0 DEF ListenerFits, ReaderFits, Request, Response, NoWrite, NoRead
    <3>2. \A c \in Clients : ClientFits(c) => ClientFits(c)'
        BY <2>0 DEF ClientFits, ReaderFits, Request, Response, NoWrite, NoRead
    <3> QED
        BY <2>0, <3>1, <3>2 DEF LengthInv, KeysFit, Response
  <2>5. OutcomeInv => OutcomeInv'
      BY <2>0 DEF OutcomeInv, Dead
  <2> QED
      BY <2>0, <2>1, <2>2, <2>3, <2>4, <2>5 DEF KeptInv
<1>2. ASSUME NEW c \in Clients, ClientStep(c) \/ AskAgain(c)
      PROVE  TypeInv' /\ FlowInv' /\ KeptInv'
  <2>1. TypeInv' /\ FlowInv'
      BY <1>2, ClientTypes, ClientStepsFlow
  <2>2. ASSUME ~clash' PROVE ChunkInv' /\ LengthInv' /\ OutcomeInv'
    <3>1. LengthInv' /\ OutcomeInv'
        BY <1>0, <1>2, <2>2, ClientStepsFit, ClientStepsOutcome
    <3>2. CASE ClientSplits(c)
        BY <1>0, <2>2, <3>1, <3>2, ClientSplitsChunks
    <3>3. CASE Push(c) \/ Poll(c) \/ ClientPops(c)
        BY <1>0, <2>2, <3>1, <3>3, PushChunks, PollChunks, ClientPopsChunks
    <3>4. CASE Receive(c) \/ TimeOut(c) \/ AskAgain(c)
      <4>1. UNCHANGED <<kind, chunk, queue, string, listener, writer>>
            /\ client[c].step \in {"read", "wait", "timeout"}
          BY <3>4 DEF Receive, TimeOut, AskAgain, AtClient
      <4>2. \A d \in Clients : d # c => client'[d] = client[d]
          BY <3>4 DEF Receive, TimeOut, AskAgain, TypeInv
      <4>3. \A p \in Processes : p # c => reader'[p] = reader[p]
          BY <3>4 DEF Receive, TimeOut, AskAgain, TypeInv
      <4>4. reader[c].left = <<>>
          BY <1>0, <2>2, <3>4, NoStates DEF Receive, TimeOut, AskAgain, AtClient, LengthInv, ClientFits
      <4>5. client'[c].step \notin {"start", "read"}
        <5>1. client[c] \in ClientStates
            BY DEF TypeInv
        <5>2. [client[c] EXCEPT !.step = "wait"].step = "wait"
            BY <5>1 DEF ClientStates
        <5>3. CASE Receive(c)
          <6>1. PICK s \in {[step |-> "error", result |-> None], [step |-> "wait", result |-> None],
                            [step |-> "done", result |-> client[c].result]} :
                    client' = [client EXCEPT ![c] = s]
              BY <5>3 DEF Receive
          <6> QED
              BY <6>1 DEF TypeInv
        <5>4. CASE TimeOut(c)
            BY <5>4 DEF TimeOut, TypeInv
        <5>5. CASE AskAgain(c)
          <6>1. client' = [client EXCEPT ![c] = [client[c] EXCEPT !.step = "wait"]]
              BY <5>5 DEF AskAgain
          <6> QED
              BY <5>2, <6>1 DEF TypeInv
        <5> QED
            BY <3>4, <5>3, <5>4, <5>5
      <4>6. ChunkInv'
          BY <1>0, <2>2, <4>1, <4>2, <4>3, <4>4, <4>5, ClientQuietChunks
      <4> QED
          BY <3>1, <4>6
    <3> QED
        BY <1>2, <3>2, <3>3, <3>4 DEF ClientStep
  <2> QED
      BY <2>1, <2>2 DEF KeptInv
<1>3. ASSUME NEW k \in Kinds, ListenerStep(k) \/ Fail(k)
      PROVE  TypeInv' /\ FlowInv' /\ KeptInv'
  <2>1. TypeInv' /\ FlowInv'
      BY <1>3, ListenerTypes, ListenerStepsFlow
  <2>2. ASSUME ~clash' PROVE ChunkInv' /\ LengthInv' /\ OutcomeInv'
    <3>1. LengthInv' /\ OutcomeInv'
        BY <1>0, <1>3, <2>2, ListenerStepsFit, ListenerStepsOutcome
    <3>2. CASE ListenerSplits(k)
        BY <1>0, <2>2, <3>1, <3>2, ListenerSplitsChunks
    <3>3. CASE GetNextTask(k) \/ ListenerPops(k) \/ SetResponse(k)
        BY <1>0, <2>2, <3>1, <3>3, GetChunks, ListenerPopsChunks, SetResponseChunks
    <3>4. ASSUME NEW answer, Process(k, answer) \/ Fail(k) PROVE ChunkInv'
        BY <1>0, <2>2, <3>4, ListenerQuietChunks
    <3> QED
        BY <1>3, <3>1, <3>2, <3>3, <3>4 DEF ListenerStep
  <2> QED
      BY <2>1, <2>2 DEF KeptInv
<1> QED
    BY <1>1, <1>2, <1>3 DEF Next

LEMMA SpecInv == Spec => []IntercomInv
<1>1. Init => IntercomInv
    BY InitTypes, InitFlow, InitKept DEF IntercomInv
<1> QED
    BY <1>1, NextInv, PTL DEF Spec

\* A chunk is stored exactly as long as a queue, a response, a writer or a reader refers to
\* it, no request fails, and only exceptions end listeners, as long as no writer overwrote
\* the chunk of another (_store_chunks, _combine_chunks): for any number of clients,
\* kinds of requests, chunk keys and chunks, and any order of the calls of Redis.
THEOREM ChunksKeptTheorem == Spec => []ChunksKept
<1>1. IntercomInv => ChunksKept
  <2> SUFFICES ASSUME IntercomInv PROVE ChunksKept
      OBVIOUS
  <2>1. TypeOK
    <3>1. \A k \in ChunkKeys : chunk[k] = None \/ chunk[k] \in Messages \X (1 .. Chunks)
        BY DEF IntercomInv, TypeInv, ChunkValues
    <3>2. \A c \in Clients :
            /\ client[c].step \in {"start", "sent", "taken", "wait", "read", "done", "timeout", "error"}
            /\ client[c].result \in {None, "full", "empty"}
        BY DEF IntercomInv, TypeInv, ClientStates, Outcomes
    <3>3. \A k \in Kinds : /\ listener[k].step \in {"poll", "read", "respond", "dead"}
                           /\ listener[k].of \in Clients \cup {None}
        BY DEF IntercomInv, TypeInv, ListenerStates
    <3> QED
        BY <3>1, <3>2, <3>3 DEF IntercomInv, TypeInv, TypeOK
  <2>2. ASSUME ~clash
        PROVE  /\ {k \in ChunkKeys : chunk[k] # None} = UNION Holders
               /\ \A c \in Clients : client[c].step # "error"
               /\ Cardinality({k \in Kinds : listener[k].step = "dead"}) <= faults
    <3>1. TypeInv /\ FlowInv /\ ChunkInv /\ LengthInv /\ OutcomeInv
        BY <2>2 DEF IntercomInv, KeptInv
    <3>2. {k \in ChunkKeys : chunk[k] # None} = UNION Holders
        BY <3>1, StoredIsHeld, HeldIsStored
    <3> QED
        BY <3>1, <3>2 DEF OutcomeInv, Dead
  <2> QED
      BY <2>1, <2>2 DEF ChunksKept
<1> QED
    BY <1>1, SpecInv, PTL

\* Although the client deletes a response as it reads it (_response_listener), an answer
\* with content is stored or with its client, until a chunk is overwritten.
THEOREM FullAnswerNotLostTheorem == Spec => []FullAnswerNotLost
<1>1. IntercomInv => FullAnswerNotLost
  <2> SUFFICES ASSUME IntercomInv, NEW c \in Clients, answered[c] = "full", ~clash
               PROVE  \/ string[c] # None /\ string[c].answer = "full" /\ string[c].msg = Response(c)
                      \/ client[c].step = "read"
                      \/ client[c].step = "done" /\ client[c].result = "full"
      BY DEF FullAnswerNotLost
  <2>1. string[c] # None \/ client[c].step \in {"read", "done"}
      BY DEF IntercomInv, KeptInv, OutcomeInv
  <2> QED
      BY <2>1 DEF IntercomInv, FlowInv, ClientFlow
<1> QED
    BY <1>1, SpecInv, PTL

(***************************************************************************)
(* The pages that only read (Pages).  Which statements a request has made  *)
(* before the one it is at, and which it never makes.                      *)
(***************************************************************************)
Statements(k) == {Program[k][i] : i \in DOMAIN Program[k]}

DoneBefore(k, n) == {Program[k][i] : i \in {i \in DOMAIN Program[k] : i < n}}

SummaryPages == {"download_pdf_report", "rest_firmware_with_summary", "ajax_get_summary"}
MissingPages == {"find_missing_analyses", "rest_missing"}

\* These use what get_entry has read.
ObjectStatements ==
    {"check_found", "preset", "name_root", "use_object", "rest_firmware", "included_files",
     "collect_summary"}

\* After these the request is about something that was stored.
Evidence == {"check_found", "use_object", "graph_data", "exists", "rest_firmware"}

ComparisonStatements == {"objects_exist", "comparison_exists", "comparison_entry"}

\* What a request of kind k must have done when it comes to op.
Needs(k, op) ==
    (IF op \in ObjectStatements THEN {"get_entry"} ELSE {})
    \cup (IF op = "get_entry" THEN {"is_firmware"} ELSE {})
    \cup (IF op = "preset" THEN {"plugins"} ELSE {})
    \cup (IF op = "included_files" THEN {"use_object"} ELSE {})
    \cup (IF op = "root_object" THEN {"name_root"} ELSE {})
    \cup (IF op \in {"files_in_files", "collect_summary"} THEN {"included_files"} ELSE {})
    \cup (IF op = "missing" THEN {"firmware_plugins"} ELSE {})
    \cup (IF op = "show" /\ k \in MissingPages THEN {"firmware_plugins", "missing"} ELSE {})
    \cup (IF op = "show" /\ k \in SummaryPages THEN {"collect_summary"} ELSE {})
    \cup (IF op = "show" /\ k \in ComparisonKinds THEN {"comparison_entry"} ELSE {})

PageOrder(k) ==
    \A n \in DOMAIN Program[k] :
        /\ Needs(k, Program[k][n]) \subseteq DoneBefore(k, n)
        /\ Program[k][n] = "show" => n = Len(Program[k])
        /\ Program[k][n] = "show" /\ k \notin ComparisonKinds \cup MissingPages \cup {"ajax_get_binary"}
               => DoneBefore(k, n) \cap Evidence # {}
        /\ k \in SummaryPages /\ Program[k][n] = "get_entry" => "use_object" \notin DoneBefore(k, n)
        /\ Program[k][n] = "firmware_plugins" => "missing" \notin DoneBefore(k, n)

\* A request ends with the page, and some statements are of some kinds only.
PageStatements(k) ==
    /\ Len(Program[k]) \in Nat \ {0} /\ DOMAIN Program[k] = 1 .. Len(Program[k])
    /\ Program[k][Len(Program[k])] = "show"
    /\ Statements(k) \cap {"firmware_plugins", "missing", "failed"} # {} => k \in MissingPages
    /\ Statements(k) \cap ComparisonStatements # {} => k \in ComparisonKinds
    /\ "preset" \in Statements(k) => k = "get_update_analysis"
    /\ Statements(k) \cap {"included_files", "files_in_files", "collect_summary"} # {}
           => k \in SummaryPages
    /\ "root_object" \in Statements(k) => k = "compare_text_files"
    /\ "rest_firmware" \in Statements(k) => k \in {"rest_firmware", "rest_firmware_with_summary"}
    /\ k \in MissingPages => Statements(k) = {"firmware_plugins", "missing", "failed", "show"}
    /\ k = "ajax_get_binary" => Statements(k) = {"backend", "show"}
    /\ k \in SummaryPages =>
           Statements(k) \cap {"page_comparisons", "plugins", "libraries", "graph_data",
                               "nice_list", "missing", "failed"} = {}
    /\ k = "get_update_analysis" =>
           Statements(k) \cap {"page_comparisons", "libraries", "graph_data", "nice_list",
                               "included_files", "files_in_files", "missing"} = {}

-----------------------------------------------------------------------------
(* What is stored, and what is remembered of it.                           *)

StoreInv ==
    /\ Storable(rows) /\ Linked(links)
    /\ compared \subseteq Comparisons /\ \A c \in compared : c \subseteq DOMAIN rows
    /\ available \subseteq Plugins

Had(u) == {p \in Plugins : <<u, p>> \in past.had}
Has(u) == {p \in Plugins : <<u, p>> \in past.has}

PastInv ==
    request.kind # "none" =>
        /\ past.always \subseteq Things(rows, compared) /\ Things(rows, compared) \subseteq past.ever
        /\ past.had \subseteq Analyses(rows) /\ Analyses(rows) \subseteq past.has
        /\ ItemsOf(rows) \subseteq past.items
        /\ past.available \subseteq available
        /\ past.under \subseteq links.fw_files /\ links.fw_files \subseteq past.everUnder
        /\ \A c \in Comparisons \cap past.ever : c \subseteq past.ever

-----------------------------------------------------------------------------
(* What a request has found out.                                           *)

IsRequest(r) ==
    /\ r = [kind |-> r.kind, at |-> r.at, uid |-> r.uid, uids |-> r.uids, selected |-> r.selected,
            root |-> r.root, isFirmware |-> r.isFirmware, object |-> r.object, tags |-> r.tags, todo |-> r.todo,
            files |-> r.files, summary |-> r.summary, complete |-> r.complete, answer |-> r.answer]
    /\ r.kind \in PageKinds /\ r.at \in DOMAIN Program[r.kind]
    /\ r.uid \in r.uids /\ r.uid \in PUids
    /\ r.kind \in ComparisonKinds => r.uids \in Comparisons

Done == DoneBefore(request.kind, request.at)

\* An object that is stored all the time is found, and an image as an image.
ObjectInv ==
    /\ request.isFirmware => request.uid \in Firmwares
    /\ "is_firmware" \in Done /\ request.uid \in Firmwares \cap past.always => request.isFirmware
    /\ "get_entry" \in Done /\ request.uid \in past.always => request.object.stored
    /\ "get_entry" \in Done /\ request.uid \in past.always \cap Firmwares => request.object.firmware
    /\ request.object.stored =>
         /\ request.uid \in past.ever
         /\ request.object.firmware => request.uid \in Firmwares
         /\ request.object.included \subseteq Inside[request.uid]
         /\ request.object.roots \subseteq PUids
         /\ DOMAIN request.object.analyses \subseteq Plugins
    /\ request.kind \in SummaryPages /\ "use_object" \in Done => request.object.stored

EvidenceInv ==
    /\ Done \cap Evidence # {} => request.uid \in past.ever
    /\ "comparison_entry" \in Done => request.uids \in past.ever

RootInv ==
    /\ request.root \in PUids \cup {"none"}
    /\ "name_root" \in Done => request.root \in PUids

PluginsInv ==
    request.kind = "get_update_analysis" /\ "plugins" \in Done => past.available \subseteq request.files

\* An object and what is in it.
Within(u) == {u} \cup Inside[u]

SummaryInv ==
    request.kind \in SummaryPages =>
        /\ "included_files" \in Done => request.files \cup request.todo \subseteq Within(request.uid)
        /\ "collect_summary" \in Done =>
               \A x \in request.summary : x \in past.items /\ x[1] \in Within(request.uid)

TagsInv == \A k \in DOMAIN request.tags : request.tags[k].propagate

\* The files that lack an analysis, of the images that have been looked at.
Lacking(f, fw) ==
    /\ <<fw, f>> \in past.under /\ {f, fw} \subseteq past.always
    /\ Had(f) # {} /\ ~(Had(fw) \subseteq Has(f))

MissingInv ==
    request.kind \in MissingPages =>
        /\ \A t \in request.todo : t.uid \in Firmwares /\ t.plugins \subseteq Has(t.uid)
        /\ \A f \in request.files :
              \E fw \in Firmwares : <<fw, f>> \in past.everUnder /\ ~(Has(fw) \subseteq Had(f))
        /\ "firmware_plugins" \in Done =>
              \A f \in Files, fw \in Firmwares :
                 Lacking(f, fw) => \/ f \in request.files
                                   \/ \E t \in request.todo : t.uid = fw /\ Had(fw) \subseteq t.plugins
        /\ "missing" \in Done => request.todo = {}

RequestInv ==
    request.kind # "none" =>
        /\ IsRequest(request)
        /\ ObjectInv /\ EvidenceInv /\ RootInv /\ PluginsInv /\ SummaryInv /\ TagsInv /\ MissingInv

PagesInv ==
    /\ StoreInv /\ PastInv /\ RequestInv
    /\ StoredIsServed /\ AnswersAgree
-----------------------------------------------------------------------------
(* The programs *)

\* The statements of show_analysis, one by one.
LEMMA Program_show_analysis ==
    /\ DOMAIN Program["show_analysis"] = 1 .. 9 /\ Len(Program["show_analysis"]) = 9
    /\ Program["show_analysis"][1] = "page_comparisons"
    /\ Program["show_analysis"][2] = "is_firmware"
    /\ Program["show_analysis"][3] = "get_entry" /\ Program["show_analysis"][4] = "collect_tags"
    /\ Program["show_analysis"][5] = "check_found" /\ Program["show_analysis"][6] = "check_selected"
    /\ Program["show_analysis"][7] = "all_uids_found" /\ Program["show_analysis"][8] = "plugins"
    /\ Program["show_analysis"][9] = "show"
  BY DEF Program, show_analysis, get_object

\* The statements of get_update_analysis, one by one.
LEMMA Program_get_update_analysis ==
    /\ DOMAIN Program["get_update_analysis"] = 1 .. 7 /\ Len(Program["get_update_analysis"]) = 7
    /\ Program["get_update_analysis"][1] = "is_firmware"
    /\ Program["get_update_analysis"][2] = "get_entry"
    /\ Program["get_update_analysis"][3] = "collect_tags"
    /\ Program["get_update_analysis"][4] = "check_found"
    /\ Program["get_update_analysis"][5] = "plugins" /\ Program["get_update_analysis"][6] = "preset"
    /\ Program["get_update_analysis"][7] = "show"
  BY DEF Program, get_update_analysis, get_object

\* The statements of show_elf_dependency_graph, one by one.
LEMMA Program_show_elf_dependency_graph ==
    /\ DOMAIN Program["show_elf_dependency_graph"] = 1 .. 10
    /\ Len(Program["show_elf_dependency_graph"]) = 10
    /\ Program["show_elf_dependency_graph"][1] = "is_firmware"
    /\ Program["show_elf_dependency_graph"][2] = "get_entry"
    /\ Program["show_elf_dependency_graph"][3] = "collect_tags"
    /\ Program["show_elf_dependency_graph"][4] = "name_root"
    /\ Program["show_elf_dependency_graph"][5] = "is_firmware"
    /\ Program["show_elf_dependency_graph"][6] = "get_entry"
    /\ Program["show_elf_dependency_graph"][7] = "collect_tags"
    /\ Program["show_elf_dependency_graph"][8] = "libraries"
    /\ Program["show_elf_dependency_graph"][9] = "graph_data"
    /\ Program["show_elf_dependency_graph"][10] = "show"
  BY DEF Program, show_elf_dependency_graph, get_object

\* The statements of compare_text_files, one by one.
LEMMA Program_compare_text_files ==
    /\ DOMAIN Program["compare_text_files"] = 1 .. 9 /\ Len(Program["compare_text_files"]) = 9
    /\ Program["compare_text_files"][1] = "is_firmware"
    /\ Program["compare_text_files"][2] = "get_entry"
    /\ Program["compare_text_files"][3] = "collect_tags"
    /\ Program["compare_text_files"][4] = "name_root"
    /\ Program["compare_text_files"][5] = "root_object"
    /\ Program["compare_text_files"][6] = "use_object" /\ Program["compare_text_files"][7] = "mime"
    /\ Program["compare_text_files"][8] = "backend" /\ Program["compare_text_files"][9] = "show"
  BY DEF Program, compare_text_files, get_object

\* The statements of prepare_file_download, one by one.
LEMMA Program_prepare_file_download ==
    /\ DOMAIN Program["prepare_file_download"] = 1 .. 3 /\ Len(Program["prepare_file_download"]) = 3
    /\ Program["prepare_file_download"][1] = "exists"
    /\ Program["prepare_file_download"][2] = "backend"
    /\ Program["prepare_file_download"][3] = "show"
  BY DEF Program, prepare_file_download

\* The statements of show_radare, one by one.
LEMMA Program_show_radare ==
    /\ DOMAIN Program["show_radare"] = 1 .. 4 /\ Len(Program["show_radare"]) = 4
    /\ Program["show_radare"][1] = "exists" /\ Program["show_radare"][2] = "backend"
    /\ Program["show_radare"][3] = "radare" /\ Program["show_radare"][4] = "show"
  BY DEF Program, show_radare

\* The statements of rest_binary, one by one.
LEMMA Program_rest_binary ==
    /\ DOMAIN Program["rest_binary"] = 1 .. 3 /\ Len(Program["rest_binary"]) = 3
    /\ Program["rest_binary"][1] = "exists" /\ Program["rest_binary"][2] = "backend"
    /\ Program["rest_binary"][3] = "show"
  BY DEF Program, rest_get_binary

\* The statements of ajax_get_binary, one by one.
LEMMA Program_ajax_get_binary ==
    /\ DOMAIN Program["ajax_get_binary"] = 1 .. 2 /\ Len(Program["ajax_get_binary"]) = 2
    /\ Program["ajax_get_binary"][1] = "backend" /\ Program["ajax_get_binary"][2] = "show"
  BY DEF Program, ajax_get_binary

\* The statements of download_pdf_report, one by one.
LEMMA Program_download_pdf_report ==
    /\ DOMAIN Program["download_pdf_report"] = 1 .. 9 /\ Len(Program["download_pdf_report"]) = 9
    /\ Program["download_pdf_report"][1] = "exists"
    /\ Program["download_pdf_report"][2] = "is_firmware"
    /\ Program["download_pdf_report"][3] = "get_entry"
    /\ Program["download_pdf_report"][4] = "collect_tags"
    /\ Program["download_pdf_report"][5] = "use_object"
    /\ Program["download_pdf_report"][6] = "included_files"
    /\ Program["download_pdf_report"][7] = "files_in_files"
    /\ Program["download_pdf_report"][8] = "collect_summary"
    /\ Program["download_pdf_report"][9] = "show"
  BY DEF Program, download_pdf_report, get_object, get_summary

\* The statements of rest_firmware, one by one.
LEMMA Program_rest_firmware ==
    /\ DOMAIN Program["rest_firmware"] = 1 .. 5 /\ Len(Program["rest_firmware"]) = 5
    /\ Program["rest_firmware"][1] = "is_firmware" /\ Program["rest_firmware"][2] = "get_entry"
    /\ Program["rest_firmware"][3] = "collect_tags" /\ Program["rest_firmware"][4] = "rest_firmware"
    /\ Program["rest_firmware"][5] = "show"
  BY DEF Program, rest_get_firmware, get_object

\* The statements of rest_firmware_with_summary, one by one.
LEMMA Program_rest_firmware_with_summary ==
    /\ DOMAIN Program["rest_firmware_with_summary"] = 1 .. 9
    /\ Len(Program["rest_firmware_with_summary"]) = 9
    /\ Program["rest_firmware_with_summary"][1] = "is_firmware"
    /\ Program["rest_firmware_with_summary"][2] = "get_entry"
    /\ Program["rest_firmware_with_summary"][3] = "collect_tags"
    /\ Program["rest_firmware_with_summary"][4] = "use_object"
    /\ Program["rest_firmware_with_summary"][5] = "included_files"
    /\ Program["rest_firmware_with_summary"][6] = "files_in_files"
    /\ Program["rest_firmware_with_summary"][7] = "collect_summary"
    /\ Program["rest_firmware_with_summary"][8] = "rest_firmware"
    /\ Program["rest_firmware_with_summary"][9] = "show"
  BY DEF Program, rest_get_firmware_with_summary, get_object, get_summary

\* The statements of rest_file_object, one by one.
LEMMA Program_rest_file_object ==
    /\ DOMAIN Program["rest_file_object"] = 1 .. 5 /\ Len(Program["rest_file_object"]) = 5
    /\ Program["rest_file_object"][1] = "is_firmware"
    /\ Program["rest_file_object"][2] = "get_entry"
    /\ Program["rest_file_object"][3] = "collect_tags"
    /\ Program["rest_file_object"][4] = "check_found"
    /\ Program["rest_file_object"][5] = "show"
  BY DEF Program, rest_get_file_object, get_object

\* The statements of show_compare_result, one by one.
LEMMA Program_show_compare_result ==
    /\ DOMAIN Program["show_compare_result"] = 1 .. 4 /\ Len(Program["show_compare_result"]) = 4
    /\ Program["show_compare_result"][1] = "objects_exist"
    /\ Program["show_compare_result"][2] = "comparison_exists"
    /\ Program["show_compare_result"][3] = "comparison_entry"
    /\ Program["show_compare_result"][4] = "show"
  BY DEF Program, show_compare_result, get_comparison_result

\* The statements of rest_compare, one by one.
LEMMA Program_rest_compare ==
    /\ DOMAIN Program["rest_compare"] = 1 .. 4 /\ Len(Program["rest_compare"]) = 4
    /\ Program["rest_compare"][1] = "comparison_exists"
    /\ Program["rest_compare"][2] = "comparison_exists"
    /\ Program["rest_compare"][3] = "comparison_entry" /\ Program["rest_compare"][4] = "show"
  BY DEF Program, rest_get_compare, get_comparison_result

\* The statements of ajax_get_common_files, one by one.
LEMMA Program_ajax_get_common_files ==
    /\ DOMAIN Program["ajax_get_common_files"] = 1 .. 5 /\ Len(Program["ajax_get_common_files"]) = 5
    /\ Program["ajax_get_common_files"][1] = "comparison_exists"
    /\ Program["ajax_get_common_files"][2] = "comparison_entry"
    /\ Program["ajax_get_common_files"][3] = "nice_list"
    /\ Program["ajax_get_common_files"][4] = "hid_dict"
    /\ Program["ajax_get_common_files"][5] = "show"
  BY DEF Program, ajax_get_common_files, get_comparison_result

\* The statements of ajax_get_tree_children, one by one.
LEMMA Program_ajax_get_tree_children ==
    /\ DOMAIN Program["ajax_get_tree_children"] = 1 .. 7
    /\ Len(Program["ajax_get_tree_children"]) = 7
    /\ Program["ajax_get_tree_children"][1] = "comparison_exists"
    /\ Program["ajax_get_tree_children"][2] = "comparison_entry"
    /\ Program["ajax_get_tree_children"][3] = "is_firmware"
    /\ Program["ajax_get_tree_children"][4] = "get_entry"
    /\ Program["ajax_get_tree_children"][5] = "collect_tags"
    /\ Program["ajax_get_tree_children"][6] = "use_object"
    /\ Program["ajax_get_tree_children"][7] = "show"
  BY DEF Program, ajax_get_tree_children, get_object, get_comparison_result

\* The statements of ajax_get_summary, one by one.
LEMMA Program_ajax_get_summary ==
    /\ DOMAIN Program["ajax_get_summary"] = 1 .. 8 /\ Len(Program["ajax_get_summary"]) = 8
    /\ Program["ajax_get_summary"][1] = "is_firmware"
    /\ Program["ajax_get_summary"][2] = "get_entry"
    /\ Program["ajax_get_summary"][3] = "collect_tags"
    /\ Program["ajax_get_summary"][4] = "use_object"
    /\ Program["ajax_get_summary"][5] = "included_files"
    /\ Program["ajax_get_summary"][6] = "files_in_files"
    /\ Program["ajax_get_summary"][7] = "collect_summary"
    /\ Program["ajax_get_summary"][8] = "show"
  BY DEF Program, ajax_get_summary, get_object, get_summary

\* The statements of find_missing_analyses, one by one.
LEMMA Program_find_missing_analyses ==
    /\ DOMAIN Program["find_missing_analyses"] = 1 .. 4 /\ Len(Program["find_missing_analyses"]) = 4
    /\ Program["find_missing_analyses"][1] = "firmware_plugins"
    /\ Program["find_missing_analyses"][2] = "missing"
    /\ Program["find_missing_analyses"][3] = "failed"
    /\ Program["find_missing_analyses"][4] = "show"
  BY DEF Program, find_missing_analyses

\* The statements of rest_missing, one by one.
LEMMA Program_rest_missing ==
    /\ DOMAIN Program["rest_missing"] = 1 .. 4 /\ Len(Program["rest_missing"]) = 4
    /\ Program["rest_missing"][1] = "firmware_plugins" /\ Program["rest_missing"][2] = "missing"
    /\ Program["rest_missing"][3] = "failed" /\ Program["rest_missing"][4] = "show"
  BY DEF Program, rest_get_missing

\* The kinds of request, one by one.
LEMMA PageKindsAre ==
    PageKinds = {"show_analysis", "get_update_analysis", "show_elf_dependency_graph",
                 "compare_text_files", "prepare_file_download", "show_radare",
                 "rest_binary", "ajax_get_binary", "download_pdf_report",
                 "rest_firmware", "rest_firmware_with_summary", "rest_file_object",
                 "show_compare_result", "rest_compare", "ajax_get_common_files",
                 "ajax_get_tree_children", "ajax_get_summary", "find_missing_analyses",
                 "rest_missing"}
  BY DEF PageKinds, Program

\* No statement of a program comes before one whose result it uses.
LEMMA ProgramsAreInOrder == \A k \in PageKinds : PageOrder(k)
<1> USE DEF PageOrder, Needs, DoneBefore, Evidence, ObjectStatements,
            ComparisonKinds, AjaxKinds, MissingPages, SummaryPages
<1>1. PageOrder("show_analysis")
  BY Program_show_analysis
<1>2. PageOrder("get_update_analysis")
  BY Program_get_update_analysis
<1>3. PageOrder("show_elf_dependency_graph")
  BY Program_show_elf_dependency_graph
<1>4. PageOrder("compare_text_files")
  BY Program_compare_text_files
<1>5. PageOrder("prepare_file_download")
  BY Program_prepare_file_download
<1>6. PageOrder("show_radare")
  BY Program_show_radare
<1>7. PageOrder("rest_binary")
  BY Program_rest_binary
<1>8. PageOrder("ajax_get_binary")
  BY Program_ajax_get_binary
<1>9. PageOrder("download_pdf_report")
  BY Program_download_pdf_report
<1>10. PageOrder("rest_firmware")
  BY Program_rest_firmware
<1>11. PageOrder("rest_firmware_with_summary")
  BY Program_rest_firmware_with_summary
<1>12. PageOrder("rest_file_object")
  BY Program_rest_file_object
<1>13. PageOrder("show_compare_result")
  BY Program_show_compare_result
<1>14. PageOrder("rest_compare")
  BY Program_rest_compare
<1>15. PageOrder("ajax_get_common_files")
  BY Program_ajax_get_common_files
<1>16. PageOrder("ajax_get_tree_children")
  BY Program_ajax_get_tree_children
<1>17. PageOrder("ajax_get_summary")
  BY Program_ajax_get_summary
<1>18. PageOrder("find_missing_analyses")
  BY Program_find_missing_analyses
<1>19. PageOrder("rest_missing")
  BY Program_rest_missing
<1> HIDE DEF PageOrder
<1> QED
  BY PageKindsAre, <1>1, <1>2, <1>3, <1>4, <1>5, <1>6, <1>7, <1>8, <1>9, <1>10, <1>11,
     <1>12, <1>13, <1>14, <1>15, <1>16, <1>17, <1>18, <1>19

\* Which kinds make a statement, which answers a kind can end with.
LEMMA KindsHaveTheirStatements == \A k \in PageKinds : PageStatements(k)
<1> USE DEF PageStatements, Statements, ComparisonStatements,
            ComparisonKinds, AjaxKinds, MissingPages, SummaryPages
<1>1. PageStatements("show_analysis")
  BY Program_show_analysis
<1>2. PageStatements("get_update_analysis")
  BY Program_get_update_analysis
<1>3. PageStatements("show_elf_dependency_graph")
  BY Program_show_elf_dependency_graph
<1>4. PageStatements("compare_text_files")
  BY Program_compare_text_files
<1>5. PageStatements("prepare_file_download")
  BY Program_prepare_file_download
<1>6. PageStatements("show_radare")
  BY Program_show_radare
<1>7. PageStatements("rest_binary")
  BY Program_rest_binary
<1>8. PageStatements("ajax_get_binary")
  BY Program_ajax_get_binary
<1>9. PageStatements("download_pdf_report")
  BY Program_download_pdf_report
<1>10. PageStatements("rest_firmware")
  BY Program_rest_firmware
<1>11. PageStatements("rest_firmware_with_summary")
  BY Program_rest_firmware_with_summary
<1>12. PageStatements("rest_file_object")
  BY Program_rest_file_object
<1>13. PageStatements("show_compare_result")
  BY Program_show_compare_result
<1>14. PageStatements("rest_compare")
  BY Program_rest_compare
<1>15. PageStatements("ajax_get_common_files")
  BY Program_ajax_get_common_files
<1>16. PageStatements("ajax_get_tree_children")
  BY Program_ajax_get_tree_children
<1>17. PageStatements("ajax_get_summary")
  BY Program_ajax_get_summary
<1>18. PageStatements("find_missing_analyses")
  BY Program_find_missing_analyses
<1>19. PageStatements("rest_missing")
  BY Program_rest_missing
<1> HIDE DEF PageStatements
<1> QED
  BY PageKindsAre, <1>1, <1>2, <1>3, <1>4, <1>5, <1>6, <1>7, <1>8, <1>9, <1>10, <1>11,
     <1>12, <1>13, <1>14, <1>15, <1>16, <1>17, <1>18, <1>19
-----------------------------------------------------------------------------
(* The writers *)

\* What is remembered only becomes weaker.
PastMoves ==
    /\ past'.always \subseteq past.always /\ past.ever \subseteq past'.ever
    /\ past'.had \subseteq past.had /\ past.has \subseteq past'.has
    /\ past.items \subseteq past'.items /\ past'.available \subseteq past.available
    /\ past'.under \subseteq past.under /\ past.everUnder \subseteq past'.everUnder

\* A new object is stored without an analysis, the others keep theirs.
LEMMA NewRowKeeps ==
    ASSUME Storable(rows), NEW u \in PUids, rows' = [v \in DOMAIN rows \cup {u} |->
               IF v \in DOMAIN rows THEN rows[v] ELSE << >>]
    PROVE  Storable(rows')
<1>1. DOMAIN << >> = {}
  OBVIOUS
<1>2. /\ DOMAIN rows' = DOMAIN rows \cup {u}
      /\ \A v \in DOMAIN rows' : rows'[v] = IF v \in DOMAIN rows THEN rows[v] ELSE << >>
  OBVIOUS
<1> QED
  BY <1>1, <1>2 DEF Storable

\* An image without anything in it yet.
LEMMA StoreFirmwareKeeps ==
    ASSUME StoreInv, NEW fw \in Firmwares, StoreFirmware(fw)
    PROVE  StoreInv'
<1>1. rows' = [u \in DOMAIN rows \cup {fw} |-> IF u \in DOMAIN rows THEN rows[u] ELSE << >>]
  BY DEF StoreFirmware, Stored
<1>2. DOMAIN rows' = DOMAIN rows \cup {fw} /\ UNCHANGED <<links, compared, available>>
  BY <1>1 DEF StoreFirmware
<1>3. Storable(rows')
  BY <1>1, NewRowKeeps DEF StoreInv, PUids
<1> QED
  BY <1>2, <1>3 DEF StoreInv, Linked

\* A file where the unpacking found it.
LEMMA StoreFileKeeps ==
    ASSUME StoreInv, NEW x \in Contents, StoreFile(x[1], x[2], x[3])
    PROVE  StoreInv'
<1>1. x[3] \in PUids
  BY PagesConstants DEF PUids
<1>2. rows' = [u \in DOMAIN rows \cup {x[3]} |-> IF u \in DOMAIN rows THEN rows[u] ELSE << >>]
  BY DEF StoreFile, Stored
<1>3. /\ links'.included = links.included \cup {<<x[2], x[3]>>}
      /\ links'.fw_files = links.fw_files \cup {<<x[1], x[3]>>}
      /\ UNCHANGED <<compared, available>>
  BY DEF StoreFile
<1>4. DOMAIN rows' = DOMAIN rows \cup {x[3]}
  BY <1>2
<1>5. Storable(rows')
  BY <1>1, <1>2, NewRowKeeps DEF StoreInv
<1>6. Linked(links')
  BY <1>3 DEF StoreInv, Linked
<1> QED
  BY <1>3, <1>4, <1>5, <1>6 DEF StoreInv

\* A result is stored of a stored object only, and replaces an older one.
LEMMA StoreAnalysisKeeps ==
    ASSUME StoreInv, NEW u \in PUids, NEW p \in Plugins, NEW result \in Results,
           StoreAnalysis(u, p, result)
    PROVE  StoreInv'
<1> DEFINE more(r) == [q \in DOMAIN r \cup {p} |-> IF q = p THEN result ELSE r[q]]
<1>1. rows' = [rows EXCEPT ![u] = more(rows[u])] /\ UNCHANGED <<links, compared, available>>
  BY DEF StoreAnalysis
<1>2. /\ DOMAIN more(rows[u]) = DOMAIN rows[u] \cup {p}
      /\ \A q \in DOMAIN more(rows[u]) : more(rows[u])[q] = IF q = p THEN result ELSE rows[u][q]
  OBVIOUS
<1> HIDE DEF more
<1>3. DOMAIN rows' = DOMAIN rows /\ \A v \in DOMAIN rows' : rows'[v] = IF v = u THEN more(rows[u]) ELSE rows[v]
  BY <1>1
<1>4. ASSUME NEW v \in DOMAIN rows'
      PROVE  /\ DOMAIN rows'[v] \subseteq Plugins
             /\ \A q \in DOMAIN rows'[v] : IsFiniteSet(rows'[v][q].tags)
  BY <1>2, <1>3, PagesConstants DEF StoreInv, Storable
<1> QED
  BY <1>1, <1>3, <1>4 DEF StoreInv, Storable

\* A deletion takes an image, what only it holds, and the comparisons they are in.
LEMMA DeletionKeeps ==
    ASSUME StoreInv, NEW fw \in Firmwares, DeletionOf(fw)
    PROVE  StoreInv'
<1>1. rows' = [u \in DOMAIN rows \ Cascade(fw) |-> rows[u]]
  BY DEF DeletionOf
<1>2. /\ DOMAIN rows' = DOMAIN rows \ Cascade(fw)
      /\ \A u \in DOMAIN rows' : rows'[u] = rows[u]
  BY <1>1
<1>3. compared' = {c \in compared : c \subseteq DOMAIN rows'} /\ available' = available
  BY DEF DeletionOf
<1>4. links'.included \subseteq links.included /\ links'.fw_files \subseteq links.fw_files
  BY DEF DeletionOf
<1> QED
  BY <1>2, <1>3, <1>4 DEF StoreInv, Storable, Linked

\* Every writer leaves a state of the tables that the schema allows.
LEMMA WriterKeepsStore ==
    ASSUME StoreInv, PageWriter
    PROVE  StoreInv' /\ Written
<1>1. ASSUME NEW c \in Comparisons, StoreComparison(c) PROVE StoreInv'
  BY <1>1 DEF StoreComparison, StoreInv, Linked
<1>2. ASSUME NEW p \in Plugins, RestartBackend(Plugins \ {p}) PROVE StoreInv'
  BY <1>2 DEF RestartBackend, StoreInv, Linked
<1>3. Written
  BY DEF PageWriter, StoreFirmware, StoreFile, StoreAnalysis, StoreComparison, DeletionOf, RestartBackend
<1> QED
  BY <1>1, <1>2, <1>3, StoreFirmwareKeeps, StoreFileKeeps, StoreAnalysisKeeps, DeletionKeeps DEF PageWriter

\* A comparison is there with its objects.
LEMMA ThingsAreClosed ==
    ASSUME StoreInv
    PROVE  /\ Things(rows, compared) \cap PUids = DOMAIN rows
           /\ Things(rows, compared) \cap Comparisons = compared
           /\ \A c \in Comparisons \cap Things(rows, compared) : c \subseteq Things(rows, compared)
  BY PagesConstants DEF StoreInv, Storable, Things, PUids

\* The history of the request goes on bracketing the tables, from both sides.
LEMMA WriterKeepsPast ==
    ASSUME StoreInv', PastInv, Written
    PROVE  PastInv' /\ PastMoves
<1>1. /\ request' = request /\ request.kind # "none"
      /\ past'.always = past.always \cap Things(rows', compared')
      /\ past'.ever = past.ever \cup Things(rows', compared')
      /\ past'.had = past.had \cap Analyses(rows')
      /\ past'.has = past.has \cup Analyses(rows')
      /\ past'.items = past.items \cup ItemsOf(rows')
      /\ past'.under = past.under \cap links'.fw_files
      /\ past'.everUnder = past.everUnder \cup links'.fw_files
      /\ past'.available = past.available \cap available'
  BY DEF Written, RememberWrite
<1>2. PastMoves
  BY <1>1 DEF PastMoves
<1>3. \A c \in Comparisons \cap Things(rows', compared') : c \subseteq Things(rows', compared')
  BY PagesConstants DEF StoreInv, Storable, Things, PUids
<1>4. PastInv'
  BY <1>1, <1>3 DEF PastInv
<1> QED
  BY <1>2, <1>4
\* What a request has found out stays true while others write.
LEMMA RequestKeeps ==
    ASSUME RequestInv, PastMoves, request' = request
    PROVE  RequestInv'
<1> SUFFICES ASSUME request.kind # "none"
             PROVE  /\ IsRequest(request)'
                    /\ ObjectInv' /\ EvidenceInv' /\ RootInv' /\ PluginsInv' /\ SummaryInv' /\ TagsInv' /\ MissingInv'
  BY DEF RequestInv
<1>1. Done' = Done /\ IsRequest(request)
  BY DEF Done, RequestInv
<1>2. IsRequest(request)'
  BY <1>1 DEF IsRequest
<1> HIDE DEF Done
<1>3. ObjectInv'
  BY <1>1 DEF ObjectInv, RequestInv, PastMoves
<1>4. EvidenceInv' /\ RootInv' /\ PluginsInv' /\ TagsInv'
  BY <1>1 DEF EvidenceInv, RootInv, PluginsInv, TagsInv, RequestInv, PastMoves
<1>5. SummaryInv'
  BY <1>1 DEF SummaryInv, RequestInv, PastMoves, Within
<1>6. MissingInv'
  <2>1. \A u : Had(u)' \subseteq Had(u) /\ Has(u) \subseteq Has(u)'
    BY DEF Had, Has, PastMoves
  <2> SUFFICES ASSUME request.kind \in MissingPages PROVE MissingInv'
    BY DEF MissingInv
  <2>2. \A t \in request.todo : t.uid \in Firmwares /\ t.plugins \subseteq Has(t.uid)'
    BY <2>1 DEF MissingInv, RequestInv
  <2>3. \A f \in request.files :
            \E fw \in Firmwares : <<fw, f>> \in past'.everUnder /\ ~(Has(fw)' \subseteq Had(f)')
    BY <2>1 DEF MissingInv, RequestInv, PastMoves
  <2>4. ASSUME "firmware_plugins" \in Done, NEW f \in Files, NEW fw \in Firmwares, Lacking(f, fw)'
        PROVE  \/ f \in request.files
               \/ \E t \in request.todo : t.uid = fw /\ Had(fw)' \subseteq t.plugins
    <3>1. Lacking(f, fw)
      BY <2>1, <2>4 DEF Lacking, PastMoves
    <3>2. \/ f \in request.files
          \/ \E t \in request.todo : t.uid = fw /\ Had(fw) \subseteq t.plugins
      BY <2>4, <3>1 DEF MissingInv, RequestInv
    <3> QED
      BY <2>1, <3>2
  <2>5. "missing" \in Done => request.todo = {}
    BY DEF MissingInv, RequestInv
  <2> HIDE DEF Had, Has
  <2> QED
    BY <1>1, <2>2, <2>3, <2>4, <2>5 DEF MissingInv
<1> QED
  BY <1>2, <1>3, <1>4, <1>5, <1>6

\* A writer between two statements disturbs nothing a request relies on: what was
\* stored throughout only shrinks, and what was stored at some time only grows.
LEMMA WriterKeepsPages ==
    ASSUME PagesInv, PageWriter
    PROVE  PagesInv'
<1>1. StoreInv' /\ Written
  BY WriterKeepsStore DEF PagesInv
<1>2. PastInv' /\ PastMoves
  BY <1>1, WriterKeepsPast DEF PagesInv
<1>3. RequestInv'
  BY <1>1, <1>2, RequestKeeps DEF PagesInv, Written
<1>4. request' = request /\ request.answer = "none"
  BY <1>1 DEF Written
<1> QED
  BY <1>1, <1>2, <1>3, <1>4 DEF PagesInv, StoredIsServed, AnswersAgree, NothingInvented,
                               MissingIsReported, Answered
-----------------------------------------------------------------------------
(* The request comes in *)

\* Nothing is asked for yet.
LEMMA PagesInitInv == PagesInit => PagesInv
<1> SUFFICES ASSUME PagesInit PROVE PagesInv
  OBVIOUS
<1>1. request.kind = "none"
  BY DEF PagesInit, NoRequest
<1>2. StoreInv
  BY PagesConstants DEF PagesInit, StoreInv
<1> QED
  BY <1>1, <1>2 DEF PagesInv, PastInv, RequestInv, StoredIsServed, AnswersAgree,
                    NothingInvented, MissingIsReported, Answered

\* A request starts with nothing found out and the tables as its history.
LEMMA ReceiveKeeps ==
    ASSUME PagesInv, NEW sort \in PageKinds, NEW uids, NEW selected, NEW root,
           ReceivePage(sort, uids, selected, root), uids # {}, uids \subseteq PUids, sort \in ComparisonKinds => uids \in Comparisons,
           root \in PUids \cup {"none"}
    PROVE  PagesInv'
<1>1. request' = [kind |-> sort, at |-> 1, uid |-> CHOOSE u \in uids : TRUE, uids |-> uids,
                  selected |-> selected, root |-> root, isFirmware |-> FALSE, object |-> NoObject,
                  tags |-> << >>, todo |-> {}, files |-> {}, summary |-> {}, complete |-> FALSE,
                  answer |-> "none"]
  BY DEF ReceivePage
<1>2. /\ rows' = rows /\ links' = links /\ compared' = compared /\ available' = available
      /\ past' = [always |-> Things(rows, compared), ever |-> Things(rows, compared),
                  had |-> Analyses(rows), has |-> Analyses(rows), items |-> ItemsOf(rows),
                  under |-> links.fw_files, everUnder |-> links.fw_files, available |-> available]
  BY DEF ReceivePage
<1>3. StoreInv'
  BY <1>2 DEF StoreInv, PagesInv, Linked
<1>4. PastInv'
  BY <1>2, ThingsAreClosed DEF PastInv, PagesInv
<1>5. (CHOOSE u \in uids : TRUE) \in uids
  OBVIOUS
<1>6. IsRequest(request)'
  <2>1. 1 \in DOMAIN Program[sort]
    BY KindsHaveTheirStatements DEF PageStatements
  <2> QED
    BY <1>1, <1>5, <2>1 DEF IsRequest
<1>7. Done' = {}
  <2>1. DOMAIN Program[sort] \subseteq Nat \ {0}
    BY KindsHaveTheirStatements DEF PageStatements
  <2> QED
    BY <1>1, <2>1 DEF Done, DoneBefore
<1>8. /\ request'.object = NoObject /\ request'.isFirmware = FALSE /\ request'.tags = << >>
      /\ request'.todo = {} /\ request'.files = {} /\ request'.answer = "none"
      /\ request'.root = root
  BY <1>1
<1>9. ObjectInv' /\ EvidenceInv' /\ RootInv' /\ PluginsInv' /\ SummaryInv' /\ MissingInv'
  <2> HIDE DEF Done
  <2> QED
    BY <1>7, <1>8 DEF ObjectInv, EvidenceInv, RootInv, PluginsInv, SummaryInv, MissingInv, NoObject, Evidence
<1>10. TagsInv'
  BY <1>8 DEF TagsInv
<1> QED
  BY <1>3, <1>4, <1>6, <1>8, <1>9, <1>10
     DEF PagesInv, RequestInv, StoredIsServed, AnswersAgree, NothingInvented, MissingIsReported,
         Answered

\* Any request of a kind, with the arguments its route takes.
LEMMA ReaderKeepsPages ==
    ASSUME PagesInv, PageReader
    PROVE  PagesInv'
<1>1. SummaryKinds \subseteq PageKinds \ ComparisonKinds /\ ComparisonKinds \subseteq PageKinds
  BY PageKindsAre DEF SummaryKinds, ComparisonKinds, AjaxKinds
<1>2. ASSUME NEW sort \in SummaryKinds, NEW u \in PUids, NEW p \in Plugins,
             ReceivePage(sort, {u}, p, "none")
      PROVE  PagesInv'
  BY <1>1, <1>2, ReceiveKeeps
<1>3. ASSUME NEW sort \in PageKinds \ ComparisonKinds, NEW u \in PUids, NEW r \in PUids \cup {"none"},
             ReceivePage(sort, {u}, "none", r)
      PROVE  PagesInv'
  BY <1>3, ReceiveKeeps
<1>4. ASSUME NEW sort \in ComparisonKinds, NEW c \in Comparisons, ReceivePage(sort, c, "none", "none")
      PROVE  PagesInv'
  BY <1>1, <1>4, ReceiveKeeps, PagesConstants
<1> QED
  <2>1. RootKinds \subseteq PageKinds \ ComparisonKinds
    BY PageKindsAre DEF RootKinds, ComparisonKinds, AjaxKinds
  <2> QED
    BY <2>1, <1>2, <1>3, <1>4 DEF PageReader, PUids
-----------------------------------------------------------------------------
(* The tags of the children *)

(***************************************************************************)
(* Induction over the natural numbers, for a set of them.                  *)
(***************************************************************************)
LEMMA NatInd ==
    ASSUME NEW S \in SUBSET Nat, 0 \in S, \A n \in S : n + 1 \in S
    PROVE  S = Nat
<1> SUFFICES ASSUME S # Nat PROVE FALSE
  OBVIOUS
<1> DEFINE T == Nat \ S
           R == OpToRel(<, Nat)
<1>1. T \subseteq Nat /\ T # {}
  OBVIOUS
<1>2. IsWellFoundedOn(R, Nat)
  BY NatLessThanWellFounded
<1>3. \A a, b \in Nat : <<a, b>> \in R <=> a < b
  BY DEF OpToRel
<1> HIDE DEF R, T
<1>4. PICK x \in T : \A y \in T : <<y, x>> \notin R
  BY <1>1, <1>2, WFMin
<1>5. x \in Nat /\ \A y \in T : ~ (y < x)
  BY <1>1, <1>3, <1>4
<1>6. x # 0
  BY DEF T
<1>7. x - 1 \in Nat /\ x - 1 < x /\ (x - 1) + 1 = x
  BY <1>5, <1>6
<1>8. x - 1 \in S
  BY <1>5, <1>7 DEF T
<1> QED
  BY <1>4, <1>7, <1>8 DEF T

\* The tags after the first n of order, with f for those after fewer.
TagsAfter(f, order, n) == IF n = 0 THEN << >> ELSE AddTag(f[n - 1], order[n])

Upto(f, order, n) == f = [i \in 0 .. n |-> TagsAfter(f, order, i)]

\* The recursion over the list ends.
LEMMA TagsAreDefined ==
    ASSUME NEW order, NEW m \in Nat
    PROVE  \E f : Upto(f, order, m)
<1> DEFINE N == {n \in Nat : \E f : Upto(f, order, n)}
<1>1. 0 \in N
  <2>1. Upto([i \in 0 .. 0 |-> << >>], order, 0)
    BY DEF Upto, TagsAfter
  <2> QED
    BY <2>1
<1>2. ASSUME NEW n \in N PROVE n + 1 \in N
  <2>1. n \in Nat
    OBVIOUS
  <2>2. PICK f : Upto(f, order, n)
    OBVIOUS
  <2> DEFINE g == [i \in 0 .. n + 1 |-> TagsAfter(f, order, i)]
  <2>3. \A i \in 0 .. n : g[i] = f[i]
    BY <2>1, <2>2 DEF Upto
  <2>4. ASSUME NEW i \in 0 .. n + 1 PROVE TagsAfter(f, order, i) = TagsAfter(g, order, i)
    <3>1. i = 0 \/ i - 1 \in 0 .. n
      BY <2>1
    <3> HIDE DEF g
    <3> QED
      BY <2>3, <3>1 DEF TagsAfter
  <2>5. Upto(g, order, n + 1)
    BY <2>4 DEF Upto
  <2> HIDE DEF g
  <2> QED
    BY <2>1, <2>5
<1>3. N \in SUBSET Nat
  OBVIOUS
<1> HIDE DEF N
<1>4. N = Nat
  BY <1>1, <1>2, <1>3, NatInd
<1> QED
  BY <1>4 DEF N

\* collect_analysis_tags_from_children: every tag it collects is one of its list.
\* The function is built up over the list, by induction on the part that was read.
LEMMA TagsAreOfTheList ==
    ASSUME NEW order, Len(order) \in Nat,
           \A i \in 1 .. Len(order) : order[i].tag.propagate
    PROVE  LET tags == collect_analysis_tags_from_children(order)
           IN  \A k \in DOMAIN tags : tags[k].propagate
<1> DEFINE f == CHOOSE f : Upto(f, order, Len(order))
           Good(tags) == \A k \in DOMAIN tags : tags[k].propagate
           N == {n \in Nat : n \in 0 .. Len(order) => Good(f[n])}
<1>1. collect_analysis_tags_from_children(order) = f[Len(order)]
  BY DEF collect_analysis_tags_from_children, Upto, TagsAfter
<1>2. Upto(f, order, Len(order))
  BY TagsAreDefined
<1> HIDE DEF f
<1>3. 0 \in N
  <2>1. f[0] = << >>
    BY <1>2 DEF Upto, TagsAfter
  <2> QED
    BY <2>1
<1>4. ASSUME NEW n \in N PROVE n + 1 \in N
  <2> SUFFICES ASSUME n + 1 \in 0 .. Len(order) PROVE Good(f[n + 1])
    OBVIOUS
  <2>1. n \in Nat /\ n \in 0 .. Len(order) /\ n + 1 \in 1 .. Len(order) /\ n + 1 # 0 /\ (n + 1) - 1 = n
    OBVIOUS
  <2>2. f[n + 1] = AddTag(f[n], order[n + 1])
    <3>1. f[n + 1] = TagsAfter(f, order, n + 1)
      BY <1>2 DEF Upto
    <3> QED
      BY <2>1, <3>1 DEF TagsAfter
  <2>3. Good(f[n]) /\ order[n + 1].tag.propagate
    BY <2>1
  <2>4. ASSUME NEW tags, NEW found, Good(tags), found.tag.propagate
        PROVE  Good(AddTag(tags, found))
    BY <2>4 DEF AddTag
  <2> HIDE DEF Good
  <2> QED
    BY <2>2, <2>3, <2>4
<1>5. N \in SUBSET Nat
  OBVIOUS
<1> HIDE DEF N
<1>6. N = Nat
  BY <1>3, <1>4, <1>5, NatInd
<1>7. Good(f[Len(order)])
  BY <1>6 DEF N
<1> QED
  BY <1>1, <1>7

\* The list it is given holds tags to propagate only.
LEMMA CollectedTags ==
    ASSUME StoreInv, NEW tagged,
           tagged = UNION {PropagatedTags(f) : f \in AllUnder(request.uid)},
           NEW order \in SetToSeqs(tagged)
    PROVE  LET tags == collect_analysis_tags_from_children(order)
           IN  \A k \in DOMAIN tags : tags[k].propagate
<1>1. IsFiniteSet(tagged)
  <2>1. ASSUME NEW f \in AllUnder(request.uid) PROVE IsFiniteSet(PropagatedTags(f))
    <3>0. f \in DOMAIN rows
      BY DEF AllUnder
    <3> DEFINE Of(p) == {[uid |-> f, plugin |-> p, tag |-> t] :
                             t \in {t \in rows[f][p].tags : t.propagate}}
               mine == DOMAIN rows[f] \cap PLUGINS_WITH_TAG_PROPAGATION
    <3>1. IsFiniteSet(mine)
      BY <3>0, PagesConstants, FS_Subset DEF StoreInv, Storable
    <3>2. ASSUME NEW p \in mine PROVE IsFiniteSet(Of(p))
      <4> DEFINE good == {t \in rows[f][p].tags : t.propagate}
      <4>1. IsFiniteSet(good)
        BY <3>0, FS_Subset DEF StoreInv, Storable
      <4>2. [t \in good |-> [uid |-> f, plugin |-> p, tag |-> t]] \in Surjection(good, Of(p))
        BY DEF Surjection
      <4> QED
        BY <4>1, <4>2, FS_Surjection
    <3> HIDE DEF Of
    <3>3. IsFiniteSet({Of(p) : p \in mine})
      <4>1. [p \in mine |-> Of(p)] \in Surjection(mine, {Of(p) : p \in mine})
        BY DEF Surjection
      <4> QED
        BY <3>1, <4>1, FS_Surjection
    <3>4. PropagatedTags(f) = UNION {Of(p) : p \in mine}
      BY DEF PropagatedTags, Of
    <3> QED
      BY <3>2, <3>3, <3>4, FS_UNION
  <2>2. IsFiniteSet(AllUnder(request.uid))
    BY PagesConstants, FS_Subset DEF AllUnder
  <2>3. IsFiniteSet({PropagatedTags(f) : f \in AllUnder(request.uid)})
    <3> DEFINE S == AllUnder(request.uid)
    <3>1. [f \in S |-> PropagatedTags(f)] \in Surjection(S, {PropagatedTags(f) : f \in S})
      BY DEF Surjection
    <3> QED
      BY <2>2, <3>1, FS_Surjection
  <2> QED
    BY <2>1, <2>3, FS_UNION
<1>2. Cardinality(tagged) \in Nat
  BY <1>1, FS_CardinalityType
<1>3. order \in [1 .. Cardinality(tagged) -> tagged]
  BY DEF SetToSeqs
<1>4. Len(order) \in Nat /\ \A i \in 1 .. Len(order) : order[i] \in tagged
  <2>1. PICK n \in Nat : order \in [1 .. n -> tagged]
    BY <1>2, <1>3
  <2>2. order \in Seq(tagged)
    BY <2>1
  <2> QED
    BY <2>1, <2>2
<1>5. \A x \in tagged : x.tag.propagate
  BY DEF PropagatedTags
<1> QED
  BY <1>4, <1>5, TagsAreOfTheList
-----------------------------------------------------------------------------
(* The statements: what each finds out, and what it leaves as it was. *)

FileStatements ==
    {"page_comparisons", "plugins", "libraries", "graph_data", "included_files", "nice_list"}

Leaves(op) ==
    /\ request' = [kind |-> request.kind, at |-> request.at + 1, uid |-> request.uid,
                   uids |-> request.uids, selected |-> request.selected,
                   root |-> request'.root, isFirmware |-> request'.isFirmware, object |-> request'.object,
                   tags |-> request'.tags, todo |-> request'.todo, files |-> request'.files,
                   summary |-> request'.summary, complete |-> request'.complete,
                   answer |-> request.answer]
    /\ op # "is_firmware" => request'.isFirmware = request.isFirmware
    /\ op # "get_entry" => request'.object = request.object
    /\ op # "name_root" => request'.root = request.root
    /\ op # "collect_tags" => request'.tags = request.tags
    /\ op \notin {"firmware_plugins", "included_files"} => request'.todo = request.todo
    /\ op \notin FileStatements => request'.files = request.files
    /\ op \notin {"graph_data", "collect_summary", "failed"} => request'.summary = request.summary

FindsOut(op) ==
    /\ op = "is_firmware" =>
           request'.isFirmware = (request.uid \in Firmwares /\ Stored(request.uid))
    /\ op = "get_entry" => request'.object =
           IF Stored(request.uid)
           THEN [stored |-> TRUE, firmware |-> request.isFirmware, analyses |-> rows[request.uid],
                 included |-> Included(request.uid), roots |-> RootUids(request.uid)]
           ELSE NoObject
    /\ \A k \in DOMAIN request'.tags : request'.tags[k].propagate
    /\ op \in {"check_found", "use_object", "graph_data", "rest_firmware"} => request.object.stored
    /\ op = "exists" => Stored(request.uid)
    /\ op = "name_root" => \/ request.root # "none" /\ request'.root = request.root
                           \/ request.object.stored /\ request'.root \in request.object.roots
    /\ op = "plugins" => request'.files = available
    /\ op = "included_files" => request'.files \cup request'.todo \subseteq Within(request.uid)
    /\ op = "collect_summary" =>
           request'.summary \subseteq {x \in ItemsOf(rows) : x[1] \in request.files}
    /\ op = "comparison_entry" => request.uids \in compared
    /\ op = "firmware_plugins" => request'.todo =
           {[uid |-> fw, plugins |-> DOMAIN rows[fw]] :
               fw \in {fw \in Firmwares \cap DOMAIN rows : rows[fw] # << >>}}
    /\ op = "missing" => request.todo = {}

\* The request goes on from op.
Advances(op) == At(op) /\ op # "show" /\ Leaves(op) /\ FindsOut(op) /\ ReadOnly

\* It ends there with a: what was asked for is missing, or the page is complete.
Ends(op, a) ==
    /\ At(op) /\ AnswerPage(a)
    /\ op \notin {"firmware_plugins", "missing", "failed"}
    /\ a = "page" => op = "show"
    /\ a = "timeout raised" => request.kind \in {"rest_binary", "ajax_get_binary"}
    /\ a \in {"not found", "raised"} =>
        \/ op \in {"check_found", "name_root", "use_object"} /\ ~request.object.stored
        \/ op = "preset" /\ a = "raised" /\ ~(DOMAIN request.object.analyses \subseteq request.files)
        \/ op = "root_object" /\ a = "raised" /\ ~Stored(request.root)
        \/ op = "exists" /\ ~Stored(request.uid)
        \/ op = "rest_firmware" /\ a = "not found" /\ ~(request.object.stored /\ request.object.firmware)
        \/ op = "objects_exist" /\ ~(request.uids \subseteq DOMAIN rows)
        \/ op \in {"comparison_exists", "comparison_entry"} /\ request.uids \notin compared

GoesOn(op) == Advances(op) \/ \E a : Ends(op, a)

\* The tables have a file only where the unpacking found it.
LEMMA LinkedInside ==
    ASSUME StoreInv, NEW u \in PUids
    PROVE  Included(u) \subseteq Inside[u] /\ AllUnder(u) \subseteq Inside[u]
<1>1. ASSUME NEW f, <<u, f>> \in links.included PROVE f \in Inside[u]
  <2>1. PICK x \in Contents : <<u, f>> = <<x[2], x[3]>>
    BY <1>1 DEF StoreInv, Linked
  <2>2. u = x[2] /\ f = x[3]
    BY <2>1
  <2> QED
    BY <2>2, PagesConstants
<1>2. ASSUME NEW f, <<u, f>> \in links.fw_files PROVE f \in Inside[u]
  <2>1. PICK x \in Contents : <<u, f>> = <<x[1], x[3]>>
    BY <1>2 DEF StoreInv, Linked
  <2>2. u = x[1] /\ f = x[3]
    BY <2>1
  <2> QED
    BY <2>2, PagesConstants
<1> QED
  BY <1>1, <1>2 DEF Included, AllUnder

\* The list of the included files stays within the object, also when it was read
\* before the files were stored or deleted.
LEMMA IncludedFilesAreWithin ==
    ASSUME StoreInv, ObjectInv, request.object.stored, request.uid \in PUids, included_files,
           IsRequest(request)
    PROVE  request'.files \cup request'.todo \subseteq Within(request.uid)
<1> DEFINE found == IF request.object.firmware THEN AllUnder(request.uid) ELSE request.object.included
           below == IF request.object.firmware THEN {} ELSE found
<1>1. found \subseteq Inside[request.uid] /\ below \subseteq Inside[request.uid]
  BY LinkedInside DEF ObjectInv
<1>2. request' = [[request EXCEPT !.files = {request.uid} \cup found, !.todo = below]
                      EXCEPT !.at = @ + 1]
  BY DEF included_files, Continue
<1> HIDE DEF found, below
<1>3. request'.files = {request.uid} \cup found /\ request'.todo = below
  BY <1>2 DEF IsRequest
<1> QED
  BY <1>1, <1>3 DEF Within

\* The next level of a file stays within it.
LEMMA LevelIsWithin ==
    ASSUME StoreInv, NEW u \in PUids, NEW f \in Within(u)
    PROVE  Included(f) \subseteq Within(u)
<1>1. f \in PUids /\ Inside[f] \subseteq Inside[u]
  BY PagesConstants DEF Within, PUids
<1> QED
  BY <1>1, LinkedInside DEF Within

\* Every statement either goes on to the next one or ends the request.
LEMMA StatementsGoOn ==
    ASSUME IsRequest(request), TagsInv
    PROVE  /\ is_firmware => GoesOn("is_firmware")
           /\ get_entry => GoesOn("get_entry")
           /\ page_comparisons => GoesOn("page_comparisons")
           /\ check_found => GoesOn("check_found")
           /\ check_selected => GoesOn("check_selected")
           /\ all_uids_found => GoesOn("all_uids_found")
           /\ plugins => GoesOn("plugins")
           /\ use_object => GoesOn("use_object")
           /\ name_root => GoesOn("name_root")
           /\ root_object => GoesOn("root_object")
           /\ mime => GoesOn("mime")
           /\ exists => GoesOn("exists")
           /\ backend => GoesOn("backend")
           /\ radare => GoesOn("radare")
           /\ libraries => GoesOn("libraries")
           /\ graph_data => GoesOn("graph_data")
           /\ collect_summary => GoesOn("collect_summary")
           /\ rest_firmware => GoesOn("rest_firmware")
           /\ objects_exist => GoesOn("objects_exist")
           /\ comparison_exists => GoesOn("comparison_exists")
           /\ comparison_entry => GoesOn("comparison_entry")
           /\ nice_list => GoesOn("nice_list")
           /\ hid_dict => GoesOn("hid_dict")
           /\ firmware_plugins => GoesOn("firmware_plugins")
           /\ failed => GoesOn("failed")
           /\ show => GoesOn("show")
           /\ add_preset_from_firmware => GoesOn("preset")
<1> USE DEF GoesOn, Advances, Ends, Leaves, FindsOut, FileStatements, TagsInv,
            Continue, AnswerPage, Raise, ReadOnly
<1>1. is_firmware => GoesOn("is_firmware")
  BY DEF is_firmware, IsRequest
<1>2. get_entry => GoesOn("get_entry")
  BY DEF get_entry, IsRequest
<1>3. page_comparisons => GoesOn("page_comparisons")
  BY DEF page_comparisons, IsRequest
<1>4. check_found => GoesOn("check_found")
  BY DEF check_found, IsRequest
<1>5. check_selected => GoesOn("check_selected")
  BY DEF check_selected, IsRequest
<1>6. all_uids_found => GoesOn("all_uids_found")
  BY DEF all_uids_found, IsRequest
<1>7. plugins => GoesOn("plugins")
  BY DEF plugins, IsRequest
<1>8. use_object => GoesOn("use_object")
  BY DEF use_object, IsRequest
<1>9. root_object => GoesOn("root_object")
  BY DEF root_object, IsRequest
<1>10. mime => GoesOn("mime")
  BY DEF mime, IsRequest
<1>11. exists => GoesOn("exists")
  BY DEF exists, IsRequest
<1>12. backend => GoesOn("backend")
  <2> SUFFICES ASSUME backend PROVE GoesOn("backend")
    OBVIOUS
  <2>1. CASE Continue(request)
    BY <2>1 DEF backend, IsRequest
  <2>2. CASE ~Continue(request)
    BY <2>2 DEF backend
  <2> QED
    BY <2>1, <2>2
<1>13. radare => GoesOn("radare")
  BY DEF radare, IsRequest
<1>14. libraries => GoesOn("libraries")
  BY DEF libraries, IsRequest
<1>15. graph_data => GoesOn("graph_data")
  <2> SUFFICES ASSUME graph_data PROVE GoesOn("graph_data")
    OBVIOUS
  <2>1. At("graph_data")
    BY DEF graph_data
  <2>2. CASE AnswerPage("no graph")
    <3>1. Ends("graph_data", "no graph")
      BY <2>1, <2>2
    <3> HIDE DEF Ends, Advances
    <3> QED
      BY <3>1
  <2>3. CASE ~AnswerPage("no graph")
    <3>1. PICK fs, edges : Continue([request EXCEPT !.files = fs, !.summary = edges])
      BY <2>3 DEF graph_data
    <3>2. request.object.stored
      BY <2>3 DEF graph_data
    <3> QED
      BY <2>1, <3>1, <3>2 DEF IsRequest
  <2> QED
    BY <2>2, <2>3
<1>16. collect_summary => GoesOn("collect_summary")
  <2> SUFFICES ASSUME collect_summary PROVE Advances("collect_summary")
    OBVIOUS
  <2> DEFINE found == IF request.selected \notin DOMAIN request.object.analyses THEN {}
                      ELSE {x \in ItemsOf(rows) : x[1] \in request.files /\ x[2] = request.selected}
  <2>1. found \subseteq {x \in ItemsOf(rows) : x[1] \in request.files}
    OBVIOUS
  <2>2. At("collect_summary") /\ Continue([request EXCEPT !.summary = found])
    BY DEF collect_summary
  <2> HIDE DEF found
  <2> QED
    BY <2>1, <2>2 DEF IsRequest
<1>17. rest_firmware => GoesOn("rest_firmware")
  BY DEF rest_firmware, IsRequest
<1>18. objects_exist => GoesOn("objects_exist")
  BY DEF objects_exist, IsRequest
<1>19. comparison_exists => GoesOn("comparison_exists")
  BY DEF comparison_exists, IsRequest
<1>20. comparison_entry => GoesOn("comparison_entry")
  BY DEF comparison_entry, IsRequest
<1>21. nice_list => GoesOn("nice_list")
  BY DEF nice_list, IsRequest
<1>22. hid_dict => GoesOn("hid_dict")
  BY DEF hid_dict, IsRequest
<1>23. firmware_plugins => GoesOn("firmware_plugins")
  BY DEF firmware_plugins, IsRequest
<1>24. failed => GoesOn("failed")
  BY DEF failed, IsRequest
<1>25. show => GoesOn("show")
  BY DEF show, IsRequest
<1>26. add_preset_from_firmware => GoesOn("preset")
  BY DEF add_preset_from_firmware, IsRequest
<1>27. name_root => GoesOn("name_root")
  <2>1. ASSUME name_root, request.object.stored, request.root = "none"
        PROVE  GoesOn("name_root")
    <3>1. PICK r \in request.object.roots : Continue([request EXCEPT !.root = r])
      BY <2>1 DEF name_root
    <3> QED
      BY <2>1, <3>1 DEF name_root, IsRequest
  <2> QED
    BY <2>1 DEF name_root, IsRequest
<1> QED
  BY <1>27, <1>1, <1>2, <1>3, <1>4, <1>5, <1>6, <1>7, <1>8, <1>9, <1>10, <1>11, <1>12, <1>13, <1>14,
     <1>15, <1>16, <1>17, <1>18, <1>19, <1>20, <1>21, <1>22, <1>23, <1>24, <1>25, <1>26

\* What the place of a request says of what it has done.
LEMMA AtFacts ==
    ASSUME RequestInv, NEW op, At(op)
    PROVE  /\ request.kind # "none" /\ request.kind \in PageKinds /\ request.answer = "none"
           /\ PageStatements(request.kind) /\ op \in Statements(request.kind)
           /\ Needs(request.kind, op) \subseteq Done
           /\ op = "show" /\ request.kind \notin ComparisonKinds \cup MissingPages \cup {"ajax_get_binary"}
                  => Done \cap Evidence # {}
           /\ request.kind \in SummaryPages /\ op = "get_entry" => "use_object" \notin Done
           /\ op = "firmware_plugins" => "missing" \notin Done
           /\ op # "show" => /\ request.at + 1 \in DOMAIN Program[request.kind]
                             /\ DoneBefore(request.kind, request.at + 1) = Done \cup {op}
<1>1. /\ request.kind # "none" /\ request.answer = "none" /\ Program[request.kind][request.at] = op
      /\ request.kind \in PageKinds /\ request.at \in DOMAIN Program[request.kind]
  BY DEF At, RequestInv, IsRequest
<1>2. PageOrder(request.kind) /\ PageStatements(request.kind)
  BY <1>1, ProgramsAreInOrder, KindsHaveTheirStatements
<1>3. /\ Len(Program[request.kind]) \in Nat \ {0}
      /\ DOMAIN Program[request.kind] = 1 .. Len(Program[request.kind])
      /\ op # "show" => request.at # Len(Program[request.kind])
  BY <1>1, <1>2 DEF PageStatements
<1>4. op # "show" => request.at + 1 \in DOMAIN Program[request.kind]
  BY <1>1, <1>3
<1>5. DoneBefore(request.kind, request.at + 1) = Done \cup {op}
  <2> DEFINE P == Program[request.kind]
             n == request.at
  <2>1. {i \in DOMAIN P : i < n + 1} = {i \in DOMAIN P : i < n} \cup {n}
    BY <1>1, <1>3
  <2> QED
    BY <1>1, <2>1 DEF DoneBefore, Done
<1>6. op \in Statements(request.kind)
  BY <1>1 DEF Statements
<1> QED
  BY <1>1, <1>2, <1>4, <1>5, <1>6 DEF PageOrder, Done

\* One more level of a file is read.
LooksBelow ==
    /\ At("files_in_files") /\ ReadOnly
    /\ LET below == UNION {Included(u) : u \in request.todo}
       IN  request' = [request EXCEPT !.todo = below, !.files = @ \cup below]

\* One more image is looked at.
LooksAtOne ==
    /\ At("missing") /\ ReadOnly
    /\ \E t \in request.todo :
          request' = [request EXCEPT
              !.todo = @ \ {t},
              !.files = @ \cup {f \in Analysed(t.uid) : t.plugins \ DOMAIN rows[f] # {}}]

\* Every step of a request goes on, ends it, or looks at one more image or level.
LEMMA StatementCases ==
    ASSUME PagesInv, Statement
    PROVE  (\E op : GoesOn(op)) \/ LooksAtOne \/ LooksBelow
<1>1. request.kind # "none"
  BY DEF Statement, At, is_firmware, get_entry, collect_tags, page_comparisons, check_found,
         check_selected, all_uids_found, plugins, add_preset_from_firmware, use_object,
         name_root, root_object, mime, exists, backend, radare, libraries, graph_data,
         included_files, files_in_files, collect_summary, rest_firmware, objects_exist, comparison_exists, comparison_entry,
         nice_list, hid_dict, firmware_plugins, missing, failed, show
<1>2. IsRequest(request) /\ TagsInv /\ ObjectInv
  BY <1>1 DEF PagesInv, RequestInv
<1>3. CASE collect_tags
  <2>1. ASSUME NEW tags, Continue([request EXCEPT !.tags = tags]), At("collect_tags"),
               \A k \in DOMAIN tags : tags[k].propagate
        PROVE  GoesOn("collect_tags")
    BY <1>2, <2>1 DEF GoesOn, Advances, Leaves, FindsOut, FileStatements, Continue, ReadOnly,
       IsRequest
  <2>2. CASE request.object.stored /\ request.object.firmware
    <3> DEFINE tagged == UNION {PropagatedTags(f) : f \in AllUnder(request.uid)}
    <3>1. PICK order \in SetToSeqs(tagged) :
             Continue([request EXCEPT !.tags = collect_analysis_tags_from_children(order)])
      BY <1>3, <2>2 DEF collect_tags
    <3>2. LET tags == collect_analysis_tags_from_children(order)
          IN  \A k \in DOMAIN tags : tags[k].propagate
      BY CollectedTags DEF PagesInv
    <3> QED
      BY <1>3, <2>1, <3>1, <3>2 DEF collect_tags
  <2>3. CASE ~(request.object.stored /\ request.object.firmware)
    <3>1. At("collect_tags") /\ Continue(request)
      BY <1>3, <2>3 DEF collect_tags
    <3> QED
      BY <1>2, <3>1 DEF GoesOn, Advances, Leaves, FindsOut, FileStatements, Continue, ReadOnly,
                        IsRequest, TagsInv
  <2> QED
    BY <2>2, <2>3
<1>4. CASE included_files
  <2>1. At("included_files")
    BY <1>4 DEF included_files
  <2>2. request.object.stored /\ request.uid \in PUids
    BY <1>2, <2>1, AtFacts DEF PagesInv, Needs, PageStatements, ObjectInv, IsRequest
  <2>3. request'.files \cup request'.todo \subseteq Within(request.uid)
    BY <1>2, <1>4, <2>2, IncludedFilesAreWithin DEF PagesInv
  <2>4. PICK fs, below : Continue([request EXCEPT !.files = fs, !.todo = below])
    BY <1>4 DEF included_files
  <2> QED
    BY <1>2, <2>1, <2>3, <2>4 DEF GoesOn, Advances, Leaves, FindsOut, FileStatements, Continue,
                                  ReadOnly, IsRequest, TagsInv
<1>5. CASE missing
  <2>1. CASE request.todo = {}
    BY <1>2, <1>5, <2>1 DEF missing, GoesOn, Advances, Leaves, FindsOut, FileStatements, Continue,
                            ReadOnly, IsRequest, TagsInv
  <2>2. CASE request.todo # {}
    BY <1>5, <2>2 DEF missing, LooksAtOne, ReadOnly
  <2> QED
    BY <2>1, <2>2
<1>6. CASE files_in_files
  <2>1. CASE request.todo = {}
    BY <1>2, <1>6, <2>1 DEF files_in_files, GoesOn, Advances, Leaves, FindsOut, FileStatements,
                            Continue, ReadOnly, IsRequest, TagsInv
  <2>2. CASE request.todo # {}
    BY <1>6, <2>2 DEF files_in_files, LooksBelow
  <2> QED
    BY <2>1, <2>2
<1> QED
  BY <1>2, <1>3, <1>4, <1>5, <1>6, StatementsGoOn DEF Statement

-----------------------------------------------------------------------------
(* A request that goes on *)

\* Going on changes the place and what the statement finds out.
LEMMA AdvanceFacts ==
    ASSUME RequestInv, NEW op, Advances(op)
    PROVE  /\ request'.kind = request.kind /\ request'.uid = request.uid
           /\ request'.uids = request.uids /\ request'.answer = "none"
           /\ request'.kind # "none" /\ request.kind # "none"
           /\ IsRequest(request)' /\ IsRequest(request) /\ Done' = Done \cup {op}
           /\ UNCHANGED <<rows, links, compared, available, past>>
<1>1. /\ request.kind # "none" /\ request.kind \in PageKinds /\ request.answer = "none"
      /\ request.at + 1 \in DOMAIN Program[request.kind]
      /\ DoneBefore(request.kind, request.at + 1) = Done \cup {op}
  BY AtFacts DEF Advances
<1>2. IsRequest(request)
  BY <1>1 DEF RequestInv
<1> DEFINE r == request'
<1>3. /\ r = [kind |-> request.kind, at |-> request.at + 1, uid |-> request.uid,
              uids |-> request.uids, selected |-> request.selected,
              root |-> r.root, isFirmware |-> r.isFirmware, object |-> r.object,
              tags |-> r.tags, todo |-> r.todo, files |-> r.files,
              summary |-> r.summary, complete |-> r.complete,
              answer |-> request.answer]
      /\ UNCHANGED <<rows, links, compared, available, past>>
  BY DEF Advances, Leaves, ReadOnly
<1> HIDE DEF r
<1>4. /\ r.kind = request.kind /\ r.at = request.at + 1 /\ r.uid = request.uid
      /\ r.uids = request.uids /\ r.selected = request.selected /\ r.answer = "none"
  BY <1>1, <1>3
<1>5. IsRequest(r)
  BY <1>1, <1>2, <1>3, <1>4 DEF IsRequest
<1>6. Done' = DoneBefore(r.kind, r.at)
  BY DEF Done, r
<1>7. Done' = Done \cup {op}
  BY <1>1, <1>4, <1>6
<1>8. IsRequest(request)'
  BY <1>5 DEF r, IsRequest
<1> QED
  BY <1>1, <1>2, <1>3, <1>4, <1>7, <1>8 DEF r

\* is_firmware, get_entry, use_object: what is stored throughout is found.
LEMMA AdvanceKeepsObject ==
    ASSUME PagesInv, NEW op, Advances(op)
    PROVE  ObjectInv'
<1>1. /\ request'.kind = request.kind /\ request'.uid = request.uid /\ request.kind # "none"
      /\ Done' = Done \cup {op} /\ past' = past /\ IsRequest(request)
  BY AdvanceFacts DEF PagesInv
<1>2. ObjectInv
  BY <1>1 DEF PagesInv, RequestInv
<1>3. past.always \cap PUids \subseteq DOMAIN rows /\ DOMAIN rows \subseteq past.ever
  BY <1>1, ThingsAreClosed DEF PagesInv, PastInv, Things
<1>4. request.uid \in PUids
  BY <1>1 DEF IsRequest
<1>5. Needs(request.kind, op) \subseteq Done /\ At(op)
      /\ (request.kind \in SummaryPages /\ op = "get_entry" => "use_object" \notin Done)
  BY AtFacts DEF PagesInv, Advances
<1>6. CASE op = "is_firmware"
  <2>1. /\ request'.isFirmware = (request.uid \in Firmwares /\ request.uid \in DOMAIN rows)
        /\ request'.object = request.object
    BY <1>6 DEF Advances, Leaves, FindsOut, Stored
  <2> HIDE DEF Done
  <2> QED
    BY <1>1, <1>2, <1>3, <1>4, <1>6, <2>1 DEF ObjectInv
<1>7. CASE op = "get_entry"
  <2>1. /\ request'.isFirmware = request.isFirmware
        /\ request'.object =
             IF request.uid \in DOMAIN rows
             THEN [stored |-> TRUE, firmware |-> request.isFirmware, analyses |-> rows[request.uid],
                   included |-> Included(request.uid), roots |-> RootUids(request.uid)]
             ELSE [stored |-> FALSE]
    BY <1>7 DEF Advances, Leaves, FindsOut, Stored, NoObject
  <2>2. request.kind \notin SummaryPages \/ "use_object" \notin Done'
    BY <1>1, <1>5, <1>7 DEF Needs
  <2>3. "is_firmware" \in Done
    BY <1>5, <1>7 DEF Needs
  <2> HIDE DEF Done
  <2>4. CASE request.uid \in DOMAIN rows
    <3>1. /\ request'.object.stored /\ request'.object.firmware = request.isFirmware
          /\ request'.object.included \subseteq Inside[request.uid]
          /\ request'.object.roots \subseteq PUids
          /\ DOMAIN request'.object.analyses \subseteq Plugins
      BY <1>4, <2>1, <2>4, LinkedInside DEF PagesInv, StoreInv, Storable, RootUids, RootsOf, PUids
    <3> QED
      BY <1>1, <1>2, <1>3, <1>4, <2>1, <2>2, <2>3, <2>4, <3>1 DEF ObjectInv
  <2>5. CASE request.uid \notin DOMAIN rows
    <3>1. ~request'.object.stored /\ request.uid \notin past.always
      BY <1>3, <1>4, <2>1, <2>5
    <3> QED
      BY <1>1, <1>2, <1>3, <1>7, <2>1, <2>2, <2>3, <3>1 DEF ObjectInv
  <2> QED
    BY <2>4, <2>5
<1>8. CASE op \notin {"is_firmware", "get_entry"}
  <2>1. /\ request'.isFirmware = request.isFirmware /\ request'.object = request.object
        /\ op = "use_object" => request.object.stored
    BY <1>8 DEF Advances, Leaves, FindsOut
  <2> HIDE DEF Done
  <2> QED
    BY <1>1, <1>2, <1>8, <2>1 DEF ObjectInv
<1> QED
  BY <1>6, <1>7, <1>8

\* A statement that went on has seen the object or the comparison; tags and plugins
\* stay as they were collected.
LEMMA AdvanceKeepsEvidence ==
    ASSUME PagesInv, NEW op, Advances(op)
    PROVE  EvidenceInv' /\ RootInv' /\ PluginsInv' /\ TagsInv'
<1>1. /\ request'.kind = request.kind /\ request'.uid = request.uid /\ request.kind # "none"
      /\ request'.uids = request.uids /\ Done' = Done \cup {op} /\ past' = past
  BY AdvanceFacts DEF PagesInv
<1>2. ObjectInv /\ EvidenceInv /\ RootInv /\ PluginsInv
  BY <1>1 DEF PagesInv, RequestInv
<1>3. /\ DOMAIN rows \subseteq past.ever /\ compared \subseteq past.ever
      /\ past.available \subseteq available
  BY <1>1 DEF PagesInv, PastInv, Things
<1>4. op \in Statements(request.kind) /\ PageStatements(request.kind)
  BY AtFacts DEF PagesInv, Advances
<1>5. TagsInv'
  BY DEF Advances, FindsOut, TagsInv
<1>6. op \in Evidence => request.uid \in past.ever
  BY <1>2, <1>3 DEF Advances, FindsOut, Evidence, ObjectInv, Stored
<1>7. op = "comparison_entry" => request.uids \in past.ever
  BY <1>3 DEF Advances, FindsOut
<1> HIDE DEF Done
<1>8. EvidenceInv'
  BY <1>1, <1>2, <1>6, <1>7 DEF EvidenceInv
<1>9. PluginsInv'
  <2> SUFFICES ASSUME request.kind = "get_update_analysis" PROVE PluginsInv'
    BY <1>1 DEF PluginsInv
  <2>1. CASE op = "plugins"
    BY <1>1, <1>3, <2>1 DEF Advances, FindsOut, PluginsInv
  <2>2. CASE op # "plugins"
    <3>1. op \notin FileStatements
      BY <1>4, <2>2 DEF PageStatements, FileStatements
    <3>2. request'.files = request.files
      BY <3>1 DEF Advances, Leaves
    <3> QED
      BY <1>1, <1>2, <2>2, <3>2 DEF PluginsInv
  <2> QED
    BY <2>1, <2>2
<1>10. RootInv'
  <2>1. CASE op = "name_root"
    <3>1. request'.root \in PUids
      BY <1>2, <2>1 DEF Advances, FindsOut, RootInv, ObjectInv
    <3> QED
      BY <3>1 DEF RootInv
  <2>2. CASE op # "name_root"
    BY <1>1, <1>2, <2>2 DEF Advances, Leaves, RootInv
  <2> QED
    BY <2>1, <2>2
<1> QED
  BY <1>5, <1>8, <1>9, <1>10

\* The summary holds items that were stored, of the files of the image.
LEMMA AdvanceKeepsSummary ==
    ASSUME PagesInv, NEW op, Advances(op)
    PROVE  SummaryInv'
<1>1. /\ request'.kind = request.kind /\ request'.uid = request.uid /\ request.kind # "none"
      /\ Done' = Done \cup {op} /\ past' = past
  BY AdvanceFacts DEF PagesInv
<1> SUFFICES ASSUME request.kind \in SummaryPages
             PROVE  SummaryInv'
  BY <1>1 DEF SummaryInv
<1>2. SummaryInv /\ ItemsOf(rows) \subseteq past.items
  BY <1>1 DEF PagesInv, RequestInv, PastInv
<1>3. /\ op \in Statements(request.kind) /\ PageStatements(request.kind)
      /\ Needs(request.kind, op) \subseteq Done
  BY AtFacts DEF PagesInv, Advances
<1>4. /\ op # "included_files" => request'.files = request.files /\ request'.todo = request.todo
      /\ op # "collect_summary" => request'.summary = request.summary
  <2>1. op \notin {"page_comparisons", "plugins", "libraries", "graph_data", "nice_list", "failed",
                   "firmware_plugins"}
    BY <1>3 DEF PageStatements, SummaryPages, MissingPages
  <2> QED
    BY <2>1 DEF Advances, Leaves, FileStatements
<1>5. op = "included_files" => request'.files \cup request'.todo \subseteq Within(request.uid)
  BY DEF Advances, FindsOut
<1>6. op = "collect_summary" =>
          /\ "included_files" \in Done
          /\ request'.summary \subseteq {x \in ItemsOf(rows) : x[1] \in request.files}
  BY <1>3 DEF Advances, FindsOut, Needs
<1> HIDE DEF Done
<1>7. "included_files" \in Done' => request'.files \cup request'.todo \subseteq Within(request.uid)
  BY <1>1, <1>2, <1>4, <1>5 DEF SummaryInv
<1>8. "collect_summary" \in Done' =>
          \A x \in request'.summary : x \in past.items /\ x[1] \in Within(request.uid)
  <2>1. CASE op = "collect_summary"
    <3>1. request.files \subseteq Within(request.uid)
      BY <1>2, <1>6, <2>1 DEF SummaryInv
    <3> QED
      BY <1>2, <1>6, <2>1, <3>1
  <2>2. CASE op # "collect_summary"
    BY <1>1, <1>2, <1>4, <2>2 DEF SummaryInv
  <2> QED
    BY <2>1, <2>2
<1> QED
  BY <1>1, <1>7, <1>8 DEF SummaryInv, Within

\* The analyses of a stored object lie between those it had throughout and those it
\* had at some time.
LEMMA AnalysesOf ==
    ASSUME StoreInv, PastInv, request.kind # "none", NEW u \in DOMAIN rows
    PROVE  Had(u) \subseteq DOMAIN rows[u] /\ DOMAIN rows[u] \subseteq Has(u)
<1>1. \A p : <<u, p>> \in Analyses(rows) <=> p \in DOMAIN rows[u]
  BY DEF Analyses
<1> QED
  BY <1>1 DEF PastInv, Had, Has, StoreInv, Storable

\* Nothing was had before it was stored.
LEMMA HadIsStored ==
    ASSUME PastInv, request.kind # "none", NEW u, Had(u) # {}
    PROVE  u \in DOMAIN rows
<1>1. PICK p : <<u, p>> \in past.had
  BY DEF Had
<1>2. <<u, p>> \in Analyses(rows)
  BY <1>1 DEF PastInv
<1>3. PICK v \in DOMAIN rows : <<u, p>> \in {v} \X DOMAIN rows[v]
  BY <1>2 DEF Analyses
<1> QED
  BY <1>3

\* A function with arguments is not the empty one.
LEMMA NotEmpty ==
    ASSUME NEW f, DOMAIN f # {}
    PROVE  f # << >>
  OBVIOUS

\* firmware_plugins lists every image that has analyses.
LEMMA AdvanceKeepsMissing ==
    ASSUME PagesInv, NEW op, Advances(op)
    PROVE  MissingInv'
<1>1. /\ request'.kind = request.kind /\ request.kind # "none" /\ IsRequest(request)
      /\ Done' = Done \cup {op} /\ past' = past
  BY AdvanceFacts DEF PagesInv
<1> SUFFICES ASSUME request.kind \in MissingPages
             PROVE  MissingInv'
  BY <1>1 DEF MissingInv
<1>2. MissingInv /\ StoreInv /\ PastInv
  BY <1>1 DEF PagesInv, RequestInv
<1>3. op \in {"firmware_plugins", "missing", "failed"}
  BY AtFacts DEF PagesInv, Advances, PageStatements
<1>4. \A u : Had(u)' = Had(u) /\ Has(u)' = Has(u)
  BY <1>1 DEF Had, Has
<1>5. request'.files = request.files
  BY <1>3 DEF Advances, Leaves, FileStatements
<1> HIDE DEF Done, Had, Has
<1>6. CASE op = "firmware_plugins"
  <2> DEFINE new == {[uid |-> fw, plugins |-> DOMAIN rows[fw]] :
                        fw \in {fw \in Firmwares \cap DOMAIN rows : rows[fw] # << >>}}
  <2>1. request'.todo = new
    BY <1>6 DEF Advances, FindsOut
  <2>2. \A t \in new : t.uid \in Firmwares /\ t.plugins \subseteq Has(t.uid)
    BY <1>1, <1>2, AnalysesOf
  <2>3. ASSUME NEW f \in Files, NEW root \in Firmwares, ~(Had(root) \subseteq Has(f))
        PROVE  \E t \in new : t.uid = root /\ Had(root) \subseteq t.plugins
    <3>1. Had(root) # {}
      BY <2>3
    <3>2. root \in DOMAIN rows
      BY <1>1, <1>2, <3>1, HadIsStored
    <3>3. Had(root) \subseteq DOMAIN rows[root]
      BY <1>1, <1>2, <3>2, AnalysesOf
    <3>4. rows[root] # << >>
      BY <3>1, <3>3, NotEmpty
    <3>5. [uid |-> root, plugins |-> DOMAIN rows[root]] \in new
      BY <3>2, <3>4
    <3> QED
      BY <3>3, <3>5
  <2>4. "missing" \in Done' => request'.todo = {}
    <3>1. "missing" \notin Done
      BY <1>6, AtFacts DEF PagesInv, Advances
    <3> QED
      BY <1>1, <1>6, <3>1
  <2> HIDE DEF new
  <2> QED
    BY <1>1, <1>2, <1>4, <1>5, <2>1, <2>2, <2>3, <2>4 DEF MissingInv, Lacking
<1>7. CASE op # "firmware_plugins"
  <2>1. request'.todo = request.todo /\ (op = "missing" => request.todo = {})
    BY <1>3, <1>7 DEF Advances, Leaves, FindsOut
  <2> QED
    BY <1>1, <1>2, <1>4, <1>5, <1>7, <2>1 DEF MissingInv, Lacking
<1> QED
  BY <1>6, <1>7

\* A statement that goes on.
LEMMA AdvanceKeepsPages ==
    ASSUME PagesInv, NEW op, Advances(op)
    PROVE  PagesInv'
<1>1. /\ request'.kind = request.kind /\ request.kind # "none" /\ request'.answer = "none"
      /\ request'.kind # "none" /\ IsRequest(request)' /\ past' = past
      /\ UNCHANGED <<rows, links, compared, available>>
  BY AdvanceFacts DEF PagesInv
<1>2. RequestInv'
  BY <1>1, AdvanceKeepsObject, AdvanceKeepsEvidence, AdvanceKeepsSummary, AdvanceKeepsMissing
     DEF RequestInv
<1>3. StoreInv'
  BY <1>1 DEF PagesInv, StoreInv, Linked
<1>4. PastInv'
  BY <1>1 DEF PagesInv, PastInv
<1> QED
  BY <1>1, <1>2, <1>3, <1>4
     DEF PagesInv, StoredIsServed, AnswersAgree, NothingInvented, MissingIsReported, Answered

\* One image of the list is looked at: its files that lack an analysis are added.
LEMMA LookKeepsPages ==
    ASSUME PagesInv, LooksAtOne
    PROVE  PagesInv'
<1>1. /\ request.kind # "none" /\ request.answer = "none" /\ request.kind \in MissingPages
      /\ IsRequest(request)
  BY AtFacts DEF PagesInv, LooksAtOne, PageStatements, RequestInv
<1>2. PICK t \in request.todo :
          request' = [request EXCEPT
              !.todo = @ \ {t},
              !.files = @ \cup {f \in Analysed(t.uid) : t.plugins \ DOMAIN rows[f] # {}}]
  BY DEF LooksAtOne
<1>3. UNCHANGED <<rows, links, compared, available, past>>
  BY DEF LooksAtOne, ReadOnly
<1> DEFINE found == {f \in Analysed(t.uid) : t.plugins \ DOMAIN rows[f] # {}}
           r == request'
<1> HIDE DEF found
<1>4. /\ r.kind = request.kind /\ r.at = request.at /\ r.uid = request.uid /\ r.uids = request.uids
      /\ r.isFirmware = request.isFirmware /\ r.object = request.object /\ r.tags = request.tags
      /\ r.summary = request.summary /\ r.answer = request.answer /\ r.selected = request.selected
      /\ r.complete = request.complete /\ r.root = request.root
      /\ r.todo = request.todo \ {t} /\ r.files = request.files \cup found
      /\ r = [kind |-> r.kind, at |-> r.at, uid |-> r.uid, uids |-> r.uids, selected |-> r.selected,
              root |-> r.root, isFirmware |-> r.isFirmware, object |-> r.object, tags |-> r.tags, todo |-> r.todo,
              files |-> r.files, summary |-> r.summary, complete |-> r.complete, answer |-> r.answer]
  <2>1. request' = [request EXCEPT !.todo = @ \ {t}, !.files = @ \cup found]
    BY <1>2 DEF found
  <2> QED
    BY <1>1, <2>1 DEF IsRequest
<1> HIDE DEF r
<1>5. Done' = Done
  BY <1>4 DEF Done, r
<1>6. IsRequest(r)
  BY <1>1, <1>4 DEF IsRequest
<1>7. IsRequest(request)'
  BY <1>6 DEF IsRequest, r
<1> HIDE DEF Done
<1>8. request.kind \notin SummaryPages /\ request.kind # "get_update_analysis"
  BY <1>1 DEF MissingPages, SummaryPages
<1>9. ObjectInv' /\ EvidenceInv' /\ RootInv' /\ PluginsInv' /\ SummaryInv' /\ TagsInv'
  BY <1>1, <1>3, <1>4, <1>5, <1>8
     DEF ObjectInv, EvidenceInv, RootInv, PluginsInv, SummaryInv, TagsInv, PagesInv, RequestInv, r
<1>10. MissingInv'
  <2>1. \A u : Had(u)' = Had(u) /\ Has(u)' = Has(u)
    BY <1>3 DEF Had, Has
  <2>2. MissingInv /\ StoreInv /\ PastInv
    BY <1>1 DEF PagesInv, RequestInv
  <2>3. \A f \in DOMAIN rows : Had(f) \subseteq DOMAIN rows[f] /\ DOMAIN rows[f] \subseteq Has(f)
    BY <1>1, <2>2, AnalysesOf
  <2>4. t.plugins \subseteq Has(t.uid)
    BY <1>1, <2>2 DEF MissingInv
  <2> HIDE DEF Had, Has
  <2>5. ASSUME NEW f \in found
        PROVE  /\ t.uid \in Firmwares /\ <<t.uid, f>> \in past.everUnder
               /\ ~(Has(t.uid) \subseteq Had(f))
    <3>1. f \in DOMAIN rows /\ <<t.uid, f>> \in links.fw_files /\ t.plugins \ DOMAIN rows[f] # {}
      BY DEF found, Analysed, AllUnder
    <3>2. t.uid \in Firmwares /\ <<t.uid, f>> \in past.everUnder
      BY <1>1, <2>2, <3>1 DEF MissingInv, PastInv
    <3> QED
      BY <2>3, <2>4, <3>1, <3>2
  <2>6. ASSUME NEW f \in Files, NEW fw \in Firmwares, Lacking(f, fw),
               t.uid = fw, Had(fw) \subseteq t.plugins
        PROVE  f \in found
    <3>1. f \in DOMAIN rows
      BY <1>1, <2>2, <2>6, HadIsStored DEF Lacking
    <3>2. rows[f] # << >>
      BY <2>3, <2>6, <3>1, NotEmpty DEF Lacking
    <3>3. t.plugins \ DOMAIN rows[f] # {}
      BY <2>3, <2>6, <3>1 DEF Lacking
    <3>4. <<fw, f>> \in links.fw_files
      BY <1>1, <2>2, <2>6 DEF Lacking, PastInv
    <3> QED
      BY <2>6, <3>1, <3>2, <3>3, <3>4 DEF found, Analysed, AllUnder
  <2>7. /\ \A x \in request'.todo : x.uid \in Firmwares /\ x.plugins \subseteq Has(x.uid)
        /\ \A f \in request'.files :
              \E fw \in Firmwares : <<fw, f>> \in past.everUnder /\ ~(Has(fw) \subseteq Had(f))
    BY <1>1, <1>4, <2>2, <2>5 DEF MissingInv, r
  <2>8. ASSUME "firmware_plugins" \in Done, NEW f \in Files, NEW fw \in Firmwares, Lacking(f, fw)
        PROVE  \/ f \in request'.files
               \/ \E x \in request'.todo : x.uid = fw /\ Had(fw) \subseteq x.plugins
    <3>1. CASE f \in request.files
      BY <1>4, <3>1 DEF r
    <3>2. ASSUME NEW x \in request.todo, x.uid = fw, Had(fw) \subseteq x.plugins
          PROVE  f \in r.files \/ x \in r.todo
      BY <1>4, <2>6, <2>8, <3>2
    <3> QED
      BY <1>1, <2>2, <2>8, <3>1, <3>2 DEF MissingInv, r
  <2>9. "missing" \in Done => request'.todo = {}
    BY <1>1, <1>4, <2>2 DEF MissingInv, r
  <2> QED
    BY <1>3, <1>5, <2>1, <2>7, <2>8, <2>9 DEF MissingInv, Lacking
<1>11. r.kind # "none" /\ r.answer = "none" /\ request'.kind # "none" /\ request'.answer = "none"
  BY <1>1, <1>4 DEF r
<1>12. RequestInv'
  BY <1>7, <1>9, <1>10, <1>11 DEF RequestInv
<1>13. StoreInv' /\ PastInv'
  BY <1>1, <1>3, <1>11 DEF PagesInv, StoreInv, PastInv, Linked
<1> QED
  BY <1>11, <1>12, <1>13
     DEF PagesInv, StoredIsServed, AnswersAgree, NothingInvented, MissingIsReported, Answered

\* One level of a file is read: what is in it is within the file.
LEMMA LevelKeepsPages ==
    ASSUME PagesInv, LooksBelow
    PROVE  PagesInv'
<1>1. /\ request.kind # "none" /\ request.answer = "none" /\ request.kind \in SummaryPages
      /\ IsRequest(request) /\ "included_files" \in Done
  BY AtFacts DEF PagesInv, LooksBelow, PageStatements, RequestInv, Needs
<1> DEFINE below == UNION {Included(u) : u \in request.todo}
           r == request'
<1>2. request' = [request EXCEPT !.todo = below, !.files = @ \cup below]
  BY DEF LooksBelow
<1>3. UNCHANGED <<rows, links, compared, available, past>>
  BY DEF LooksBelow, ReadOnly
<1>4. SummaryInv /\ StoreInv /\ request.uid \in PUids
  BY <1>1 DEF PagesInv, RequestInv, IsRequest
<1> HIDE DEF Done
<1>5. below \subseteq Within(request.uid)
  <2>1. request.todo \subseteq Within(request.uid)
    BY <1>1, <1>4 DEF SummaryInv
  <2> QED
    BY <1>4, <2>1, LevelIsWithin
<1> HIDE DEF below
<1>6. /\ r.kind = request.kind /\ r.at = request.at /\ r.uid = request.uid /\ r.uids = request.uids
      /\ r.isFirmware = request.isFirmware /\ r.object = request.object /\ r.tags = request.tags
      /\ r.summary = request.summary /\ r.answer = request.answer /\ r.selected = request.selected
      /\ r.complete = request.complete /\ r.root = request.root
      /\ r.todo = below /\ r.files = request.files \cup below
      /\ r = [kind |-> r.kind, at |-> r.at, uid |-> r.uid, uids |-> r.uids, selected |-> r.selected,
              root |-> r.root, isFirmware |-> r.isFirmware, object |-> r.object, tags |-> r.tags,
              todo |-> r.todo, files |-> r.files, summary |-> r.summary, complete |-> r.complete,
              answer |-> r.answer]
  BY <1>1, <1>2 DEF IsRequest
<1> HIDE DEF r
<1>7. Done' = Done
  BY <1>6 DEF Done, r
<1>8. IsRequest(r)
  BY <1>1, <1>6 DEF IsRequest
<1>9. IsRequest(request)'
  BY <1>8 DEF IsRequest, r
<1>10. request.kind \notin MissingPages /\ request.kind # "get_update_analysis"
  BY <1>1 DEF MissingPages, SummaryPages
<1>11. SummaryInv'
  BY <1>1, <1>3, <1>4, <1>5, <1>6, <1>7 DEF SummaryInv, Within, r
<1>12. ObjectInv' /\ EvidenceInv' /\ RootInv' /\ PluginsInv' /\ TagsInv' /\ MissingInv'
  BY <1>1, <1>3, <1>6, <1>7, <1>10
     DEF ObjectInv, EvidenceInv, RootInv, PluginsInv, TagsInv, MissingInv, PagesInv, RequestInv, r
<1>13. r.kind # "none" /\ r.answer = "none" /\ request'.kind # "none" /\ request'.answer = "none"
  BY <1>1, <1>6 DEF r
<1>14. RequestInv'
  BY <1>9, <1>11, <1>12, <1>13 DEF RequestInv
<1>15. StoreInv' /\ PastInv'
  BY <1>1, <1>3, <1>13 DEF PagesInv, StoreInv, PastInv, Linked
<1> QED
  BY <1>13, <1>14, <1>15
     DEF PagesInv, StoredIsServed, AnswersAgree, NothingInvented, MissingIsReported, Answered

-----------------------------------------------------------------------------
(* A request that ends *)

\* Ending changes the answer only.
LEMMA EndFacts ==
    ASSUME PagesInv, NEW op, NEW a, Ends(op, a)
    PROVE  /\ request.kind # "none" /\ IsRequest(request) /\ At(op)
           /\ request'.kind = request.kind /\ request'.uid = request.uid /\ request'.uids = request.uids
           /\ request'.summary = request.summary /\ request'.tags = request.tags
           /\ request'.files = request.files /\ request'.root = request.root /\ request'.answer = a
           /\ UNCHANGED <<rows, links, compared, available, past>>
           /\ StoreInv' /\ PastInv' /\ RequestInv'
<1>1. request.kind # "none" /\ IsRequest(request) /\ At(op)
  BY AtFacts DEF PagesInv, RequestInv, Ends
<1>2. /\ request' = [request EXCEPT !.answer = a]
      /\ UNCHANGED <<rows, links, compared, available, past>>
  BY DEF Ends, AnswerPage, ReadOnly
<1> DEFINE r == request'
<1>3. /\ r.kind = request.kind /\ r.at = request.at /\ r.uid = request.uid /\ r.uids = request.uids
      /\ r.isFirmware = request.isFirmware /\ r.object = request.object /\ r.tags = request.tags
      /\ r.summary = request.summary /\ r.files = request.files /\ r.todo = request.todo
      /\ r.answer = a /\ r.root = request.root
      /\ r = [kind |-> r.kind, at |-> r.at, uid |-> r.uid, uids |-> r.uids, selected |-> r.selected,
              root |-> r.root, isFirmware |-> r.isFirmware, object |-> r.object, tags |-> r.tags, todo |-> r.todo,
              files |-> r.files, summary |-> r.summary, complete |-> r.complete, answer |-> r.answer]
  BY <1>1, <1>2 DEF IsRequest
<1> HIDE DEF r
<1>4. IsRequest(r)
  BY <1>1, <1>3 DEF IsRequest
<1>5. IsRequest(request)'
  BY <1>4 DEF r, IsRequest
<1>6. Done' = Done
  BY <1>3 DEF Done, r
<1> HIDE DEF Done
<1>7. ObjectInv' /\ EvidenceInv' /\ RootInv' /\ PluginsInv' /\ SummaryInv' /\ TagsInv' /\ MissingInv'
  <2>1. \A u : Had(u)' = Had(u) /\ Has(u)' = Has(u)
    BY <1>2 DEF Had, Has
  <2> HIDE DEF Had, Has
  <2>2. ObjectInv' /\ EvidenceInv' /\ RootInv' /\ PluginsInv' /\ SummaryInv' /\ TagsInv'
    BY <1>1, <1>2, <1>3, <1>6
       DEF ObjectInv, EvidenceInv, RootInv, PluginsInv, SummaryInv, TagsInv, PagesInv, RequestInv, r
  <2>3. MissingInv'
    BY <1>1, <1>2, <1>3, <1>6, <2>1 DEF MissingInv, Lacking, PagesInv, RequestInv, r
  <2> QED
    BY <2>2, <2>3
<1>8. StoreInv' /\ PastInv' /\ RequestInv'
  BY <1>1, <1>2, <1>3, <1>5, <1>7 DEF PagesInv, StoreInv, PastInv, RequestInv, Linked, r
<1> QED
  BY <1>1, <1>2, <1>3, <1>8 DEF r

\* A root that is not stored was not there all the time.
LEMMA NotStored ==
    ASSUME StoreInv, PastInv, request.kind # "none", ~Stored(request.root),
           request.root \in PUids
    PROVE  request.root \notin past.always
<1>1. past.always \cap PUids \subseteq DOMAIN rows
  BY ThingsAreClosed DEF PastInv
<1> QED
  BY <1>1 DEF Stored

\* An answer other than a page means that something asked for was not stored throughout.
LEMMA EndServes ==
    ASSUME PagesInv, NEW op, NEW a, Ends(op, a)
    PROVE  StoredIsServed'
<1>1. /\ request.kind # "none" /\ IsRequest(request) /\ At(op)
      /\ request'.kind = request.kind /\ request'.uid = request.uid /\ request'.uids = request.uids
      /\ request'.answer = a /\ request'.root = request.root /\ past' = past
  BY EndFacts
<1>2. ObjectInv /\ PluginsInv /\ PastInv /\ StoreInv
  BY <1>1 DEF PagesInv, RequestInv
<1>3. /\ PageStatements(request.kind) /\ op \in Statements(request.kind)
      /\ Needs(request.kind, op) \subseteq Done
  BY <1>1, AtFacts DEF PagesInv
<1>4. Asked' = Asked
  BY <1>1 DEF Asked
<1> SUFFICES ASSUME Asked \subseteq past.always, a \in {"not found", "raised"}
             PROVE  \/ a = "not found" /\ request.uid \in Files
                       /\ request.kind \in {"rest_firmware", "rest_firmware_with_summary"}
                    \/ a = "raised" /\ request.kind = "get_update_analysis" /\ past.available # Plugins
                    \/ a = "raised" /\ request.kind = "compare_text_files"
                       /\ request.root \notin past.always
  <2>1. a = "timeout raised" => request.kind \in {"rest_binary", "ajax_get_binary"}
    BY DEF Ends
  <2> QED
    BY <1>1, <1>4, <2>1 DEF StoredIsServed
<1>5. past.always \cap PUids \subseteq DOMAIN rows /\ past.always \cap Comparisons \subseteq compared
  BY <1>1, <1>2, ThingsAreClosed DEF PastInv
<1>6. op \notin {"backend", "show", "firmware_plugins", "missing", "failed"}
  BY DEF Ends
<1>7. request.kind \notin {"find_missing_analyses", "rest_missing", "ajax_get_binary"}
  BY <1>3, <1>6 DEF PageStatements, MissingPages
<1> HIDE DEF Done
<1>8. request.uid \in past.always
  BY <1>1, <1>7 DEF Asked, IsRequest
<1>9. request.kind \in ComparisonKinds => request.uids \in compared /\ request.uids \subseteq DOMAIN rows
  BY <1>1, <1>2, <1>5, <1>7, PagesConstants DEF Asked, IsRequest, StoreInv
<1>10. request.uid \in DOMAIN rows
  BY <1>1, <1>5, <1>8 DEF IsRequest
<1>11. op \in ComparisonStatements => request.kind \in ComparisonKinds
  BY <1>3 DEF PageStatements
<1>12. op \in ObjectStatements => request.object.stored
  BY <1>2, <1>3, <1>8 DEF Needs, ObjectInv
<1>13. ~(op \in {"check_found", "name_root", "use_object"} /\ ~request.object.stored)
  BY <1>12 DEF ObjectStatements
<1>14. CASE op = "root_object" /\ a = "raised" /\ ~Stored(request.root)
  <2>1. request.kind = "compare_text_files"
    BY <1>3, <1>14 DEF PageStatements
  <2>2. request.root \in PUids
    BY <1>1, <1>3, <1>14 DEF Needs, PagesInv, RequestInv, RootInv
  <2>3. request.root \notin past.always
    BY <1>1, <1>2, <1>14, <2>2, NotStored
  <2> QED
    BY <1>14, <2>1, <2>3
<1>15. ~(op = "exists" /\ ~Stored(request.uid))
  BY <1>10 DEF Stored
<1>16. ~(op = "objects_exist" /\ ~(request.uids \subseteq DOMAIN rows))
       /\ ~(op \in {"comparison_exists", "comparison_entry"} /\ request.uids \notin compared)
  BY <1>9, <1>11 DEF ComparisonStatements
<1>17. CASE op = "rest_firmware" /\ a = "not found" /\ ~(request.object.stored /\ request.object.firmware)
  <2>1. request.kind \in {"rest_firmware", "rest_firmware_with_summary"}
    BY <1>3, <1>17 DEF PageStatements
  <2>2. request.uid \notin Firmwares
    BY <1>2, <1>3, <1>8, <1>17 DEF Needs, ObjectInv, ObjectStatements
  <2> QED
    BY <1>1, <1>17, <2>1, <2>2 DEF IsRequest, PUids
<1>18. CASE op = "preset" /\ a = "raised" /\ ~(DOMAIN request.object.analyses \subseteq request.files)
  <2>1. request.kind = "get_update_analysis" /\ "plugins" \in Done
    BY <1>3, <1>18 DEF PageStatements, Needs
  <2>2. past.available \subseteq request.files /\ DOMAIN request.object.analyses \subseteq Plugins
    BY <1>2, <1>12, <1>18, <2>1 DEF PluginsInv, ObjectInv, ObjectStatements
  <2> QED
    BY <1>18, <2>1, <2>2
<1> QED
  BY <1>13, <1>14, <1>15, <1>16, <1>17, <1>18 DEF Ends

\* A page shows an object that was stored, and tags, items and files of its image.
LEMMA EndInventsNothing ==
    ASSUME PagesInv, NEW op, Ends(op, "page")
    PROVE  NothingInvented'
<1>1. /\ request.kind # "none" /\ IsRequest(request) /\ At(op)
      /\ request'.kind = request.kind /\ request'.uid = request.uid /\ request'.uids = request.uids
      /\ request'.summary = request.summary /\ request'.tags = request.tags /\ past' = past
  BY EndFacts
<1>2. EvidenceInv /\ SummaryInv /\ TagsInv /\ PastInv
  BY <1>1 DEF PagesInv, RequestInv
<1>3. op = "show"
  BY DEF Ends
<1>4. /\ PageStatements(request.kind) /\ Needs(request.kind, op) \subseteq Done
      /\ request.kind \notin ComparisonKinds \cup MissingPages \cup {"ajax_get_binary"}
             => Done \cap Evidence # {}
  BY <1>1, <1>3, AtFacts DEF PagesInv
<1> HIDE DEF Done
<1>5. Asked \subseteq past.ever
  <2>1. CASE request.kind \in ComparisonKinds
    <3>1. request.uids \in past.ever /\ request.uids \in Comparisons
      BY <1>1, <1>2, <1>3, <1>4, <2>1 DEF Needs, EvidenceInv, IsRequest
    <3>2. request.uids \subseteq past.ever
      BY <1>1, <1>2, <3>1 DEF PastInv
    <3> QED
      BY <2>1, <3>1, <3>2 DEF Asked
  <2>2. CASE request.kind \in MissingPages \cup {"ajax_get_binary"}
    BY <2>2 DEF Asked, MissingPages
  <2>3. CASE request.kind \notin ComparisonKinds \cup MissingPages \cup {"ajax_get_binary"}
    <3>1. request.uid \in past.ever
      BY <1>2, <1>4, <2>3 DEF EvidenceInv
    <3> QED
      BY <2>3, <3>1 DEF Asked
  <2> QED
    BY <2>1, <2>2, <2>3
<1>6. ASSUME "collect_summary" \in Statements(request.kind), NEW x \in request.summary
      PROVE  x \in past.items /\ x[1] \in Within(request.uid)
  <2>1. request.kind \in SummaryPages /\ "collect_summary" \in Done
    BY <1>3, <1>4, <1>6 DEF PageStatements, Needs
  <2> QED
    BY <1>2, <1>6, <2>1 DEF SummaryInv
<1>7. Asked' = Asked
  BY <1>1 DEF Asked
<1>8. \A k \in DOMAIN request.tags : request.tags[k].propagate
  BY <1>2 DEF TagsInv
<1> QED
  BY <1>1, <1>5, <1>6, <1>7, <1>8 DEF NothingInvented, Statements, Within

\* The list of missing analyses: each of its files lacks one, and none is left out.
LEMMA EndReportsMissing ==
    ASSUME PagesInv, NEW op, NEW a, Ends(op, a), request.kind \in MissingPages
    PROVE  MissingIsReported'
<1>1. /\ request.kind # "none" /\ At(op) /\ request'.kind = request.kind
      /\ request'.files = request.files /\ past' = past
  BY EndFacts
<1>2. MissingInv
  BY <1>1 DEF PagesInv, RequestInv
<1>3. /\ PageStatements(request.kind) /\ op \in Statements(request.kind)
      /\ Needs(request.kind, op) \subseteq Done
  BY <1>1, AtFacts DEF PagesInv
<1>4. op = "show"
  BY <1>3 DEF PageStatements, Ends
<1>5. {"firmware_plugins", "missing"} \subseteq Done
  BY <1>3, <1>4 DEF Needs
<1> HIDE DEF Done
<1>6. ASSUME NEW f \in Files
      PROVE  /\ \A fw \in Firmwares : Lacking(f, fw) => f \in request.files
             /\ (\A fw \in Firmwares : <<fw, f>> \in past.everUnder => Has(fw) \subseteq Had(f))
                    => f \notin request.files
  <2> HIDE DEF Had, Has
  <2> QED
    BY <1>2, <1>5 DEF MissingInv
<1> QED
  BY <1>1, <1>6 DEF MissingIsReported, Lacking, Had, Has

\* A statement that ends the request.
LEMMA EndKeepsPages ==
    ASSUME PagesInv, NEW op, NEW a, Ends(op, a)
    PROVE  PagesInv'
<1>1. /\ request.kind # "none" /\ request'.kind = request.kind /\ request'.answer = a
      /\ StoreInv' /\ PastInv' /\ RequestInv'
  BY EndFacts
<1>2. NothingInvented'
  BY <1>1, EndInventsNothing DEF NothingInvented
<1>3. MissingIsReported'
  BY <1>1, EndReportsMissing DEF MissingIsReported, MissingPages
<1> QED
  BY <1>1, <1>2, <1>3, EndServes DEF PagesInv, AnswersAgree

(***************************************************************************)
(* The invariant of the pages.                                             *)
(***************************************************************************)
LEMMA NextKeepsPages == PagesInv /\ [PagesNext]_pageVars => PagesInv'
<1> SUFFICES ASSUME PagesInv, [PagesNext]_pageVars PROVE PagesInv'
  OBVIOUS
<1>1. CASE PageWriter
  BY <1>1, WriterKeepsPages
<1>2. CASE PageReader
  BY <1>2, ReaderKeepsPages
<1>3. CASE Statement
  BY <1>3, StatementCases, AdvanceKeepsPages, EndKeepsPages, LookKeepsPages, LevelKeepsPages DEF GoesOn
<1>4. CASE UNCHANGED pageVars
  <2>1. StoreInv' /\ PastInv'
    BY <1>4 DEF pageVars, PagesInv, StoreInv, PastInv, Linked
  <2>2. PastMoves /\ request' = request
    BY <1>4 DEF pageVars, PastMoves
  <2>3. RequestInv'
    BY <2>2, RequestKeeps DEF PagesInv
  <2>4. StoredIsServed' /\ AnswersAgree'
    BY <1>4 DEF pageVars, PagesInv, StoredIsServed, AnswersAgree, NothingInvented,
                MissingIsReported, Answered, Asked
  <2> QED
    BY <2>1, <2>3, <2>4 DEF PagesInv
<1> QED
  BY <1>1, <1>2, <1>3, <1>4 DEF PagesNext

(***************************************************************************)
(* Whatever is stored, analysed and deleted between the statements of a    *)
(* request, and however many objects there are: what is stored all the     *)
(* time is neither called unknown nor does the request raise, but for the  *)
(* four exceptions the property names (DbInterfaceCommon.get_object; the   *)
(* routes of the web interface and REST).                                  *)
(***************************************************************************)
THEOREM PagesServeWhatIsStored == PagesInit /\ [][PagesNext]_pageVars => []StoredIsServed
<1>1. PagesInv => StoredIsServed
  BY DEF PagesInv
<1> QED
  BY <1>1, PagesInitInv, NextKeepsPages, PTL

(***************************************************************************)
(* A page shows nothing that was not stored while it was made, no item of  *)
(* another object and no tag that does not propagate; and the files with    *)
(* missing analyses are those that lacked one throughout (get_summary,     *)
(* _collect_analysis_tags_from_children, find_missing_analyses).           *)
(***************************************************************************)
THEOREM PagesAgreeWithTheDatabase == PagesInit /\ [][PagesNext]_pageVars => []AnswersAgree
<1>1. PagesInv => AnswersAgree
  BY DEF PagesInv
<1> QED
  BY <1>1, PagesInitInv, NextKeepsPages, PTL

=============================================================================
