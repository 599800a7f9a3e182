-------------------------- MODULE Playground_proofs --------------------------
(***************************************************************************)
(* Proofs about Playground, for every number of requests.                  *)
(***************************************************************************)
EXTENDS Playground, SequenceTheorems, WellFoundedInduction, TLAPS

-----------------------------------------------------------------------------
(* Conversations as sequences.                                             *)

(* ns is ms with its last message replaced by m.                           *)
Rewrites(ms, ns, m) ==
    /\ ns \in Seq(Message)
    /\ Len(ns) = Len(ms)
    /\ ns[Len(ms)] = m
    /\ \A i \in 1 .. Len(ms) : i # Len(ms) => ns[i] = ms[i]

LEMMA LastIn ==
    ASSUME NEW ms \in Seq(Message), ms # <<>>
    PROVE  /\ Len(ms) \in Nat /\ Len(ms) >= 1 /\ Len(ms) \in 1 .. Len(ms)
           /\ Last(ms) = ms[Len(ms)]
           /\ Last(ms) \in Message
  BY EmptySeq, LenProperties, ElementOfSeq DEF Last

LEMMA RewriteLast ==
    ASSUME NEW ms \in Seq(Message), ms # <<>>, NEW m \in Message
    PROVE  Rewrites(ms, Append(Front(ms), m), m)
  <1>1. Len(ms) \in Nat /\ Len(ms) >= 1
    BY LastIn
  <1>2. \A i \in 1 .. Len(ms) - 1 : ms[i] \in Message
    BY <1>1, ElementOfSeq
  <1> DEFINE k == Len(ms) - 1
             f == SubSeq(ms, 1, k)
  <1>3. f \in Seq(Message) /\ Len(f) = k /\ \A i \in 1 .. k : f[i] = ms[i]
    <2>1. k \in Nat /\ k <= Len(ms) /\ \A i \in 1 .. k : ms[i] \in Message
      BY <1>1, <1>2
    <2> HIDE DEF k
    <2> QED BY <1>1, <2>1, SubSeqProperties
  <1>f. Front(ms) = f
    BY DEF Front
  <1> HIDE DEF f
  <1>4. /\ Append(f, m) \in Seq(Message)
        /\ Len(Append(f, m)) = Len(ms)
        /\ \A i \in 1 .. Len(ms) - 1 : Append(f, m)[i] = ms[i]
        /\ Append(f, m)[Len(ms)] = m
    BY <1>1, <1>3, AppendProperties
  <1> QED BY <1>1, <1>f, <1>4 DEF Rewrites

LEMMA RewriteNothing ==
    ASSUME NEW ms \in Seq(Message), ms # <<>>
    PROVE  Rewrites(ms, ms, Last(ms))
  BY LastIn DEF Rewrites

LEMMA RewriteAgain ==
    ASSUME NEW ms \in Seq(Message), ms # <<>>, NEW ns, NEW k \in Message,
           Rewrites(ms, ns, k), NEW m \in Message
    PROVE  /\ ns # <<>> /\ Last(ns) = k
           /\ Rewrites(ms, Append(Front(ns), m), m)
  <1>1. Len(ms) \in Nat /\ Len(ms) >= 1 /\ ns \in Seq(Message)
    BY LastIn DEF Rewrites
  <1>2. ns # <<>>
    BY <1>1, EmptySeq DEF Rewrites
  <1>3. Last(ns) = k
    BY DEF Rewrites, Last
  <1>4. Rewrites(ns, Append(Front(ns), m), m)
    BY <1>1, <1>2, RewriteLast
  <1> QED BY <1>1, <1>2, <1>3, <1>4 DEF Rewrites

(* The beginning of a conversation, with one more message.                 *)
LEMMA PrefixAnd ==
    ASSUME NEW ms \in Seq(Message), NEW k \in 0 .. Len(ms), NEW m \in Message
    PROVE  LET ns == Append(SubSeq(ms, 1, k), m)
           IN  /\ ns \in Seq(Message)
               /\ Len(ns) = k + 1
               /\ ns[k + 1] = m
               /\ \A i \in 1 .. k : ns[i] = ms[i]
  <1>1. k \in Nat /\ Len(ms) \in Nat
    BY LenProperties
  <1>2. \A i \in 1 .. k : ms[i] \in Message
    BY <1>1, ElementOfSeq
  <1>3. /\ SubSeq(ms, 1, k) \in Seq(Message)
        /\ Len(SubSeq(ms, 1, k)) = k
        /\ \A i \in 1 .. k : SubSeq(ms, 1, k)[i] = ms[i]
    BY <1>1, <1>2, SubSeqProperties
  <1> DEFINE p == SubSeq(ms, 1, k)
  <1>4. p \in Seq(Message) /\ Len(p) = k /\ \A i \in 1 .. k : p[i] = ms[i]
    BY <1>3
  <1> HIDE DEF p
  <1>5. /\ Append(p, m) \in Seq(Message)
        /\ Len(Append(p, m)) = k + 1
        /\ Append(p, m)[k + 1] = m
        /\ \A i \in 1 .. k : Append(p, m)[i] = ms[i]
    BY <1>1, <1>4, AppendProperties
  <1> QED BY <1>5 DEF p

(* A conversation with two more messages.                                  *)
LEMMA AllAndTwo ==
    ASSUME NEW ms \in Seq(Message), NEW u \in Message, NEW m \in Message
    PROVE  LET ns == ms \o <<u, m>>
           IN  /\ ns \in Seq(Message)
               /\ Len(ns) = Len(ms) + 2
               /\ ns[Len(ms) + 1] = u
               /\ ns[Len(ms) + 2] = m
               /\ \A i \in 1 .. Len(ms) : ns[i] = ms[i]
  <1>1. <<u, m>> \in Seq(Message) /\ Len(<<u, m>>) = 2 /\ Len(ms) \in Nat
    BY LenProperties
  <1>2. /\ ms \o <<u, m>> \in Seq(Message)
        /\ Len(ms \o <<u, m>>) = Len(ms) + 2
        /\ \A i \in 1 .. Len(ms) + 2 : (ms \o <<u, m>>)[i] =
             IF i <= Len(ms) THEN ms[i] ELSE <<u, m>>[i - Len(ms)]
    BY <1>1, ConcatProperties
  <1>3. (ms \o <<u, m>>)[Len(ms) + 1] = <<u, m>>[1]
    BY <1>1, <1>2
  <1>4. (ms \o <<u, m>>)[Len(ms) + 2] = <<u, m>>[2]
    BY <1>1, <1>2
  <1>5. \A i \in 1 .. Len(ms) : (ms \o <<u, m>>)[i] = ms[i]
    BY <1>1, <1>2
  <1> QED BY <1>2, <1>3, <1>4, <1>5

(* A conversation without its i-th message.                                *)
LEMMA AllBut ==
    ASSUME NEW ms \in Seq(Message), NEW i \in 1 .. Len(ms)
    PROVE  LET ns == RemoveAt(ms, i)
           IN  /\ ns \in Seq(Message)
               /\ Len(ns) = Len(ms) - 1
               /\ \A j \in 1 .. Len(ms) - 1 :
                    ns[j] = ms[IF j < i THEN j ELSE j + 1]
  <1> DEFINE a == SubSeq(ms, 1, i - 1)
             b == SubSeq(ms, i + 1, Len(ms))
  <1>1. Len(ms) \in Nat /\ i \in Nat /\ \A j \in 1 .. Len(ms) : ms[j] \in Message
    BY LenProperties, ElementOfSeq
  <1>2. a \in Seq(Message) /\ Len(a) = i - 1 /\ \A j \in 1 .. i - 1 : a[j] = ms[j]
    <2>1. \A j \in 1 .. i - 1 : ms[j] \in Message
      BY <1>1
    <2> QED BY <1>1, <2>1, SubSeqProperties
  <1>3. /\ b \in Seq(Message) /\ Len(b) = Len(ms) - i
        /\ \A j \in 1 .. Len(ms) - i : b[j] = ms[i + j]
    <2>1. \A j \in i + 1 .. Len(ms) : ms[j] \in Message
      BY <1>1
    <2> QED BY <1>1, <2>1, SubSeqProperties
  <1> HIDE DEF a, b
  <1>4. /\ a \o b \in Seq(Message)
        /\ Len(a \o b) = Len(a) + Len(b)
        /\ \A j \in 1 .. Len(a) + Len(b) :
             (a \o b)[j] = IF j <= Len(a) THEN a[j] ELSE b[j - Len(a)]
    BY <1>2, <1>3, ConcatProperties
  <1>5. \A j \in 1 .. Len(ms) - 1 :
          (a \o b)[j] = ms[IF j < i THEN j ELSE j + 1]
    BY <1>1, <1>2, <1>3, <1>4
  <1>6. Len(a \o b) = Len(ms) - 1
    BY <1>1, <1>2, <1>3, <1>4
  <1>7. RemoveAt(ms, i) = a \o b
    BY DEF RemoveAt, a, b
  <1> QED BY <1>4, <1>5, <1>6, <1>7

-----------------------------------------------------------------------------
(* What the updates of the last message do.                                *)

LEMMA FlushedIs ==
    ASSUME NEW ms \in Seq(Message), chunks \subseteq Requests
    PROVE  /\ Flushed(ms) \in Seq(Message)
           /\ chunks = {} \/ ms = <<>> \/ Last(ms).from # "assistant" =>
                Flushed(ms) = ms
           /\ chunks # {} /\ ms # <<>> /\ Last(ms).from = "assistant" =>
                /\ applyStreamingChunk(Last(ms), chunks) \in Message
                /\ Rewrites(ms, Flushed(ms), applyStreamingChunk(Last(ms), chunks))
  <1>1. CASE chunks = {} \/ ms = <<>> \/ Last(ms).from # "assistant"
    <2>1. Flushed(ms) = ms
      BY <1>1 DEF Flushed, updateLastAssistantMessage
    <2> QED BY <1>1, <2>1
  <1>2. CASE chunks # {} /\ ms # <<>> /\ Last(ms).from = "assistant"
    <2> DEFINE m == applyStreamingChunk(Last(ms), chunks)
    <2>1. Flushed(ms) = Append(Front(ms), m)
      BY <1>2 DEF Flushed, updateLastAssistantMessage
    <2>2. m \in Message
      BY <1>2, LastIn DEF applyStreamingChunk, Message, Status
    <2> HIDE DEF m
    <2>3. Rewrites(ms, Flushed(ms), m)
      BY <1>2, <2>1, <2>2, RewriteLast
    <2> QED BY <1>2, <2>2, <2>3 DEF m, Rewrites
  <1> QED BY <1>1, <1>2

LEMMA CompletedIs ==
    ASSUME NEW ms \in Seq(Message)
    PROVE  /\ CompletedLast(ms) \in Seq(Message)
           /\ ms # <<>> /\ Last(ms).from = "assistant" /\ Pending(Last(ms)) =>
                /\ completeAssistantMessage(Last(ms)) \in Message
                /\ CompletedLast(ms)
                     = Append(Front(ms), completeAssistantMessage(Last(ms)))
  <1>1. CASE ms = <<>> \/ Last(ms).from # "assistant"
    BY <1>1 DEF CompletedLast, updateLastAssistantMessage
  <1>2. CASE ms # <<>> /\ Last(ms).from = "assistant"
    <2> DEFINE m == IF Pending(Last(ms)) THEN completeAssistantMessage(Last(ms))
                    ELSE Last(ms)
    <2>1. CompletedLast(ms) = Append(Front(ms), m)
      BY <1>2 DEF CompletedLast, updateLastAssistantMessage
    <2>2. m \in Message
      BY <1>2, LastIn DEF completeAssistantMessage, Message, Status
    <2>3. Pending(Last(ms)) => m = completeAssistantMessage(Last(ms))
      OBVIOUS
    <2> HIDE DEF m
    <2>4. Append(Front(ms), m) \in Seq(Message)
      BY <1>2, <2>2, RewriteLast DEF Rewrites
    <2> QED BY <2>1, <2>2, <2>3, <2>4
  <1> QED BY <1>1, <1>2

Failed(m) == [m EXCEPT !.status = "error", !.got = {}]

LEMMA WithErrorIs ==
    ASSUME NEW ms \in Seq(Message)
    PROVE  /\ WithError(ms) \in Seq(Message)
           /\ ms # <<>> /\ Last(ms).from = "assistant" =>
                /\ Failed(Last(ms)) \in Message
                /\ WithError(ms) = Append(Front(ms), Failed(Last(ms)))
  <1>1. CASE ms = <<>> \/ Last(ms).from # "assistant"
    BY <1>1 DEF WithError, updateLastAssistantMessage
  <1>2. CASE ms # <<>> /\ Last(ms).from = "assistant"
    <2> DEFINE m == Failed(Last(ms))
    <2>1. WithError(ms) = Append(Front(ms), m)
      BY <1>2 DEF WithError, updateLastAssistantMessage, Failed
    <2>2. m \in Message
      BY <1>2, LastIn DEF Failed, Message, Status
    <2> HIDE DEF m
    <2>3. Append(Front(ms), m) \in Seq(Message)
      BY <1>2, <2>2, RewriteLast DEF Rewrites
    <2> QED BY <2>1, <2>2, <2>3 DEF m
  <1> QED BY <1>1, <1>2

Answered(m, r) == [m EXCEPT !.status = "complete", !.got = {r}]

LEMMA AnsweredIs ==
    ASSUME NEW ms \in Seq(Message), NEW r \in Requests, NEW ns,
           ns = updateLastAssistantMessage(ms,
                    LAMBDA m : [m EXCEPT !.status = "complete", !.got = {r}])
    PROVE  /\ ns \in Seq(Message)
           /\ ms # <<>> /\ Last(ms).from = "assistant" =>
                /\ Answered(Last(ms), r) \in Message
                /\ ns = Append(Front(ms), Answered(Last(ms), r))
  <1>1. CASE ms = <<>> \/ Last(ms).from # "assistant"
    BY <1>1 DEF updateLastAssistantMessage
  <1>2. CASE ms # <<>> /\ Last(ms).from = "assistant"
    <2> DEFINE m == Answered(Last(ms), r)
    <2>1. ns = Append(Front(ms), m)
      BY <1>2 DEF updateLastAssistantMessage, Answered
    <2>2. m \in Message
      BY <1>2, LastIn DEF Answered, Message, Status
    <2> HIDE DEF m
    <2>3. Append(Front(ms), m) \in Seq(Message)
      BY <1>2, <2>2, RewriteLast DEF Rewrites
    <2> QED BY <2>1, <2>2, <2>3 DEF m
  <1> QED BY <1>1, <1>2

(* The messages of a new request.                                          *)
LEMMA NewMessages ==
    ASSUME NEW r \in Requests
    PROVE  UserMessage(r) \in Message /\ LoadingMessage(r) \in Message
  BY DEF UserMessage, LoadingMessage, Message, Status

(* The number of a new request: the first that was not used.               *)
LEMMA Unused ==
    ASSUME MaySend
    PROVE  NextRequest \in Requests /\ conn[NextRequest] = "none"
  <1> DEFINE Free == {r \in Requests : conn[r] = "none"}
  <1>1. Free # {} /\ Free \subseteq Nat
    BY PlaygroundAssumption DEF MaySend, Requests
  <1>2. \E m \in Free : \A k \in Free : ~(<<k, m>> \in OpToRel(<, Nat))
    <2> HIDE DEF Free
    <2> QED BY <1>1, NatLessThanWellFounded, WFMin
  <1>3. PICK m \in Free : \A k \in Free : ~(<<k, m>> \in OpToRel(<, Nat))
    BY <1>2
  <1>4. \A q \in 1 .. m - 1 : conn[q] # "none"
    <2> SUFFICES ASSUME NEW q \in 1 .. m - 1, conn[q] = "none" PROVE FALSE
      OBVIOUS
    <2>1. q \in Free /\ q \in Nat /\ m \in Nat /\ q < m
      BY PlaygroundAssumption DEF Requests
    <2>2. <<q, m>> \in OpToRel(<, Nat)
      BY <2>1 DEF OpToRel
    <2> QED BY <1>3, <2>1, <2>2
  <1>5. m \in Requests /\ conn[m] = "none" /\ \A q \in 1 .. m - 1 : conn[q] # "none"
    BY <1>4
  <1> QED BY <1>5, Zenon DEF NextRequest

(* Loading keeps the messages and their texts, and ends every answer that  *)
(* was awaited, provided it is the last message or has text.               *)
LEMMA Loaded ==
    ASSUME NEW ms \in Seq(Message)
    PROVE  /\ loadMessages(ms) \in Seq(Message)
           /\ Len(loadMessages(ms)) = Len(ms)
           /\ \A i \in 1 .. Len(ms) :
                /\ KeyOf(loadMessages(ms)[i]) = KeyOf(ms[i])
                /\ loadMessages(ms)[i].got = ms[i].got
                /\ loadMessages(ms)[i].for = ms[i].for
           /\ (\A i \in 1 .. Len(ms) :
                  Pending(ms[i]) => i = Len(ms) \/ ms[i].got # {}) =>
                \A i \in 1 .. Len(ms) : ~Pending(loadMessages(ms)[i])
  <1> DEFINE nm == [i \in 1 .. Len(ms) |-> Normalized(ms[i])]
             stuck == {i \in 1 .. Len(nm) : Pending(nm[i])}
             ns == sanitizeMessagesOnLoad(nm)
             Like(m, k) == /\ m \in Message /\ m.from = k.from /\ m.for = k.for
                           /\ m.got = k.got
  <1>1. Len(ms) \in Nat /\ \A i \in 1 .. Len(ms) : ms[i] \in Message
    BY LenProperties, ElementOfSeq
  <1>2. ASSUME NEW i \in 1 .. Len(ms)
        PROVE  /\ Like(nm[i], ms[i])
               /\ Pending(nm[i]) => Pending(ms[i]) /\ ms[i].got = {}
    <2>1. nm[i] = Normalized(ms[i]) /\ ms[i] \in Message
      BY <1>1
    <2>2. ASSUME NEW k \in Message
          PROVE  /\ Like(Normalized(k), k)
                 /\ Pending(Normalized(k)) => Pending(k) /\ k.got = {}
      BY DEF Normalized, completeAssistantMessage, Message, Status, Pending
    <2> QED BY <2>1, <2>2
  <1>3. nm \in [1 .. Len(ms) -> Message]
    BY <1>2
  <1>4. nm \in Seq(Message) /\ Len(nm) = Len(ms)
    BY <1>1, <1>3, LenProperties
  <1>5. loadMessages(ms) = ns
    BY DEF loadMessages
  <1> HIDE DEF nm
  <1>6. CASE stuck = {}
    <2>1. ns = nm
      BY <1>6 DEF sanitizeMessagesOnLoad
    <2>2. \A i \in 1 .. Len(ms) : ~Pending(nm[i])
      BY <1>4, <1>6
    <2>3. \A i \in 1 .. Len(ms) : KeyOf(nm[i]) = KeyOf(ms[i])
      BY <1>2 DEF KeyOf
    <2> HIDE DEF ns
    <2> QED BY <1>2, <1>4, <1>5, <2>1, <2>2, <2>3
  <1>7. CASE stuck # {}
    <2> DEFINE k == Max(stuck)
    <2>1. ns = [nm EXCEPT ![k].status = "error"]
      BY <1>7 DEF sanitizeMessagesOnLoad
    <2>2. ASSUME NEW i \in 1 .. Len(ms)
          PROVE  /\ ns[i] = IF i = k THEN [nm[i] EXCEPT !.status = "error"]
                            ELSE nm[i]
                 /\ Like(ns[i], ms[i])
      <3>1. ns[i] = IF i = k THEN [nm[i] EXCEPT !.status = "error"] ELSE nm[i]
        <4> HIDE DEF k, ns, stuck
        <4> QED BY <1>3, <2>1
      <3>2. ASSUME NEW m \in Message
            PROVE  Like([m EXCEPT !.status = "error"], m)
        BY DEF Message, Status
      <3>3. Like(nm[i], ms[i])
        BY <1>2
      <3> HIDE DEF k, ns, stuck
      <3>4. nm[i] \in Message
        BY <3>3
      <3>5. CASE i = k
        <4>1. Like(ns[i], nm[i])
          BY <3>1, <3>2, <3>4, <3>5, Zenon
        <4> QED BY <3>1, <3>3, <4>1
      <3>6. CASE i # k
        <4>1. ns[i] = nm[i]
          BY <3>1, <3>6
        <4> QED BY <3>1, <3>3, <4>1
      <3> QED BY <3>5, <3>6
    <2>3. ns \in [1 .. Len(ms) -> Message]
      <3>1. DOMAIN ns = 1 .. Len(ms) /\ ns = [i \in 1 .. Len(ms) |-> ns[i]]
        <4> HIDE DEF k, stuck
        <4> QED BY <1>3, <2>1
      <3> HIDE DEF ns
      <3> QED BY <2>2, <3>1
    <2>4. ns \in Seq(Message) /\ Len(ns) = Len(ms)
      <3> HIDE DEF ns
      <3> QED BY <1>1, <2>3, LenProperties
    <2>5. ASSUME \A i \in 1 .. Len(ms) :
                   Pending(ms[i]) => i = Len(ms) \/ ms[i].got # {},
                 NEW i \in 1 .. Len(ms)
          PROVE  ~Pending(ns[i])
      <3>1. stuck = {Len(ms)}
        BY <1>1, <1>2, <1>4, <1>7, <2>5
      <3>2. k = Len(ms)
        <4>1. Max({Len(ms)}) \in {Len(ms)}
          BY <1>1 DEF Max
        <4> QED BY <3>1, <4>1
      <3>3. CASE i = k
        <4>1. ns[i] = [nm[i] EXCEPT !.status = "error"]
          BY <2>2, <3>3
        <4>2. nm[i] \in Message
          BY <1>2
        <4> HIDE DEF ns
        <4> QED BY <4>1, <4>2 DEF Message, Pending
      <3>4. CASE i # k
        <4>1. ns[i] = nm[i]
          BY <2>2, <3>4
        <4>2. ~Pending(nm[i])
          BY <1>2, <2>5, <3>2, <3>4
        <4> QED BY <4>1, <4>2
      <3> QED BY <3>3, <3>4
    <2>6. \A i \in 1 .. Len(ms) : KeyOf(ns[i]) = KeyOf(ms[i])
      BY <2>2 DEF KeyOf
    <2> HIDE DEF ns
    <2> QED BY <1>5, <2>2, <2>4, <2>5, <2>6
  <1> QED BY <1>6, <1>7

-----------------------------------------------------------------------------
(* Types, by the group of variables.                                       *)

FlagsOK ==
    /\ saveTimer \in BOOLEAN
    /\ stream \in BOOLEAN
    /\ doneSeen \in BOOLEAN
    /\ isRequesting \in BOOLEAN
    /\ flushTimer \in BOOLEAN
    /\ draft \in BOOLEAN

PageOK ==
    /\ messages \in Seq(Message)
    /\ stored \in Seq(Message)
    /\ chunks \subseteq Requests
    /\ late \subseteq Requests
    /\ editing \in Key

NetOK ==
    /\ conn \in [Requests -> Connection]
    /\ source \in Requests \cup {NoRequest}
    /\ abortRef \in Requests \cup {NoRequest}
    /\ requestId \in Requests \cup {NoRequest}
    /\ source # NoRequest => conn[source] \in {"stream", "closed"}

LEMMA TypeParts == TypeOK <=> FlagsOK /\ PageOK /\ NetOK
  BY DEF TypeOK, FlagsOK, PageOK, NetOK

LEMMA TypePartsNext ==
    ASSUME FlagsOK', PageOK', NetOK'
    PROVE  TypeOK'
  BY DEF TypeOK, FlagsOK, PageOK, NetOK

LEMMA NotARequest == NoRequest \notin Requests
  BY PlaygroundAssumption DEF NoRequest, Requests

LEMMA InitType == Init => TypeOK
  <1> SUFFICES ASSUME Init PROVE TypeOK
    OBVIOUS
  <1>1. FlagsOK
    BY DEF Init, FlagsOK
  <1>2. PageOK
    BY EmptySeq DEF Init, PageOK, Key, NoKey
  <1>3. NetOK
    BY DEF Init, NetOK, Connection
  <1> QED BY <1>1, <1>2, <1>3, TypeParts

(* A new request takes a fresh number.                                     *)
LEMMA SendTypes ==
    ASSUME NetOK, FlagsOK, NEW r \in Requests, conn[r] = "none", sendChat(r)
    PROVE  NetOK' /\ doneSeen' \in BOOLEAN /\ isRequesting' \in BOOLEAN
  <1>1. CASE stream
    <2>1. sendStreamingChat(r)
      BY <1>1 DEF sendChat
    <2> QED BY <2>1 DEF sendStreamingChat, Close, NetOK, Connection
  <1>2. CASE ~stream
    <2>1. sendNonStreamingChat(r)
      BY <1>2 DEF sendChat
    <2> QED BY <2>1 DEF sendNonStreamingChat, NetOK, Connection, FlagsOK
  <1> QED BY <1>1, <1>2

(* The key of a message is one that an editor may be open for.             *)
LEMMA KeysOK ==
    ASSUME NEW m \in Message
    PROVE  KeyOf(m) \in Key /\ NoKey \in Key
  BY DEF KeyOf, Message, Key, NoKey

LEMMA SendType ==
    ASSUME TypeOK, MaySend, NEW ms \in Seq(Message), Update(ms),
           sendChat(NextRequest), UNCHANGED <<stream, batch>>, editing' \in Key
    PROVE  TypeOK'
  <1>t. FlagsOK /\ PageOK /\ NetOK
    BY TypeParts
  <1>1. NetOK' /\ doneSeen' \in BOOLEAN /\ isRequesting' \in BOOLEAN
    BY <1>t, Unused, SendTypes
  <1>2. FlagsOK'
    BY <1>t, <1>1 DEF FlagsOK, Update, batch
  <1>3. PageOK'
    BY <1>t DEF PageOK, Update, batch
  <1> QED BY <1>1, <1>2, <1>3, TypePartsNext

(* The beginning of the conversation up to message k.                      *)
LEMMA Kept ==
    ASSUME TypeOK, NEW i \in 1 .. Len(messages)
    PROVE  /\ Len(messages) \in Nat /\ messages[i] \in Message
           /\ i \in 0 .. Len(messages) /\ i - 1 \in 0 .. Len(messages)
           /\ (IF messages[i].from = "user" THEN i ELSE i - 1)
                \in 0 .. Len(messages)
  BY LenProperties, ElementOfSeq DEF TypeOK

LEMMA UserType ==
    ASSUME TypeOK, UserStep
    PROVE  TypeOK'
  <1>t. FlagsOK /\ PageOK /\ NetOK
    BY TypeParts
  <1>m. messages \in Seq(Message) /\ chunks \subseteq Requests
    BY <1>t DEF PageOK
  <1>1. CASE handleSendMessage
    <2> DEFINE r == NextRequest
               ms == messages \o <<UserMessage(r), LoadingMessage(r)>>
    <2>1. MaySend /\ r \in Requests
      BY <1>1, Unused DEF handleSendMessage
    <2>2. ms \in Seq(Message)
      BY <1>m, <2>1, NewMessages, AllAndTwo
    <2>3. /\ Update(ms) /\ sendChat(NextRequest) /\ UNCHANGED <<stream, batch>>
          /\ editing' \in Key
      BY <1>t, <1>1 DEF handleSendMessage, PageOK
    <2> HIDE DEF ms
    <2> QED BY <2>1, <2>2, <2>3, SendType
  <1>2. ASSUME NEW k \in 0 .. Len(messages),
               MaySend, Update(Append(SubSeq(messages, 1, k),
                                      LoadingMessage(NextRequest))),
               sendChat(NextRequest), UNCHANGED <<stream, batch>>,
               editing' \in Key
        PROVE  TypeOK'
    <2> DEFINE ms == Append(SubSeq(messages, 1, k), LoadingMessage(NextRequest))
    <2>1. ms \in Seq(Message)
      BY <1>m, <1>2, Unused, NewMessages, PrefixAnd
    <2>2. Update(ms)
      BY <1>2
    <2> HIDE DEF ms
    <2> QED BY <1>2, <2>1, <2>2, SendType
  <1>3. ASSUME NEW i \in 1 .. Len(messages), handleRegenerateMessage(i)
        PROVE  TypeOK'
    <2> DEFINE k == IF messages[i].from = "user" THEN i ELSE i - 1
    <2>1. k \in 0 .. Len(messages)
      BY Kept
    <2>2. /\ MaySend /\ sendChat(NextRequest) /\ UNCHANGED <<stream, batch>>
          /\ Update(Append(SubSeq(messages, 1, k), LoadingMessage(NextRequest)))
          /\ editing' \in Key
      BY <1>t, <1>3 DEF handleRegenerateMessage, PageOK
    <2> HIDE DEF k
    <2> QED BY <1>2, <2>1, <2>2
  <1>4. ASSUME NEW i \in 1 .. Len(messages), SaveEditAndSubmit(i)
        PROVE  TypeOK'
    <2>1. i \in 0 .. Len(messages)
      BY Kept
    <2>2. /\ MaySend /\ sendChat(NextRequest) /\ UNCHANGED <<stream, batch>>
          /\ Update(Append(SubSeq(messages, 1, i), LoadingMessage(NextRequest)))
          /\ editing' \in Key
      BY <1>4 DEF SaveEditAndSubmit, Key, NoKey
    <2> QED BY <1>2, <2>1, <2>2
  <1>5. ASSUME NEW ms \in Seq(Message), Update(ms), editing' \in Key,
               UNCHANGED <<stream, net, batch>>
        PROVE  TypeOK'
    <2>1. FlagsOK'
      BY <1>t, <1>5 DEF FlagsOK, Update, net, batch
    <2>2. PageOK'
      BY <1>t, <1>5 DEF PageOK, Update, batch
    <2>3. NetOK'
      BY <1>t, <1>5 DEF NetOK, net
    <2> QED BY <2>1, <2>2, <2>3, TypePartsNext
  <1>6. ASSUME NEW i \in 1 .. Len(messages), handleDeleteMessage(i)
        PROVE  TypeOK'
    <2>1. RemoveAt(messages, i) \in Seq(Message)
      BY <1>m, AllBut
    <2>2. /\ Update(RemoveAt(messages, i)) /\ UNCHANGED <<stream, net, batch>>
          /\ editing' \in Key
      BY <1>t, <1>6 DEF handleDeleteMessage, PageOK
    <2> QED BY <1>5, <2>1, <2>2
  <1>7. CASE handleClearMessages
    <2>1. <<>> \in Seq(Message)
      BY EmptySeq
    <2>2. Update(<<>>) /\ UNCHANGED <<stream, net, batch>> /\ editing' \in Key
      BY <1>7 DEF handleClearMessages, Key, NoKey
    <2> QED BY <1>5, <2>1, <2>2
  <1>8. ASSUME NEW i \in 1 .. Len(messages), SaveEdit(i)
        PROVE  TypeOK'
    <2>1. Update(messages) /\ UNCHANGED <<stream, net, batch>> /\ editing' \in Key
      BY <1>8 DEF SaveEdit, Key, NoKey
    <2> QED BY <1>5, <1>m, <2>1
  <1>9. ASSUME NEW i \in 1 .. Len(messages),
               handleEditMessage(i) \/ Type(i) \/ CancelEdit(i)
        PROVE  TypeOK'
    <2>1. UNCHANGED <<messages, storage, stream, net, batch>> /\ draft' \in BOOLEAN
      BY <1>9 DEF handleEditMessage, Type, CancelEdit
    <2>2. editing' \in Key
      <3>1. messages[i] \in Message
        BY Kept
      <3> QED BY <1>t, <1>9, <3>1, KeysOK
            DEF handleEditMessage, Type, CancelEdit, PageOK
    <2>3. FlagsOK'
      BY <1>t, <2>1 DEF FlagsOK, storage, net, batch
    <2>4. PageOK'
      BY <1>t, <2>1, <2>2 DEF PageOK, storage, batch
    <2>5. NetOK'
      BY <1>t, <2>1 DEF NetOK, net
    <2> QED BY <2>3, <2>4, <2>5, TypePartsNext
  <1>10. CASE ToggleStream
    <2>1. FlagsOK'
      BY <1>t, <1>10 DEF ToggleStream, FlagsOK, storage, net, batch
    <2>2. PageOK'
      BY <1>t, <1>10 DEF ToggleStream, PageOK, storage, batch
    <2>3. NetOK'
      BY <1>t, <1>10 DEF ToggleStream, NetOK, net
    <2> QED BY <2>1, <2>2, <2>3, TypePartsNext
  <1>11. CASE stopGeneration
    <2> DEFINE ms == CompletedLast(Flushed(messages))
    <2>1. ms \in Seq(Message)
      BY <1>m, FlushedIs, CompletedIs
    <2>2. Update(ms)
      BY <1>11 DEF stopGeneration
    <2> HIDE DEF ms
    <2>3. FlagsOK'
      BY <1>t, <1>11, <2>2 DEF stopGeneration, Update, FlagsOK
    <2>4. PageOK'
      BY <1>t, <1>11, <2>1, <2>2 DEF stopGeneration, Update, PageOK
    <2>5. NetOK'
      BY <1>t, <1>11 DEF stopGeneration, Close, NetOK, Connection
    <2> QED BY <2>3, <2>4, <2>5, TypePartsNext
  <1>12. CASE OpenPage
    <2>1. PICK kept \in {stored, IF saveTimer THEN messages ELSE stored} :
              messages' = loadMessages(kept) /\ stored' = loadMessages(kept)
      BY <1>12 DEF OpenPage
    <2>2. kept \in Seq(Message)
      BY <1>t DEF PageOK
    <2>3. loadMessages(kept) \in Seq(Message)
      BY <2>2, Loaded
    <2>4. PageOK'
      BY <1>t, <1>12, <2>1, <2>3 DEF OpenPage, PageOK, Key, NoKey
    <2>5. FlagsOK'
      BY <1>t, <1>12 DEF OpenPage, FlagsOK
    <2>6. NetOK'
      BY <1>t, <1>12 DEF OpenPage, NetOK, Connection
    <2> QED BY <2>4, <2>5, <2>6, TypePartsNext
  <1> QED BY <1>1, <1>3, <1>4, <1>6, <1>7, <1>8, <1>9, <1>10, <1>11, <1>12
        DEF UserStep

(* What changes when a request ends; the conversation is updated or not.   *)
LEMMA RequestType ==
    ASSUME TypeOK, NEW r \in Requests,
           StreamChunk(r) \/ StreamCloses(r) \/ RequestEnds(r)
    PROVE  TypeOK'
  <1>t. FlagsOK /\ PageOK /\ NetOK
    BY TypeParts
  <1>m. messages \in Seq(Message) /\ chunks \subseteq Requests /\ late \subseteq Requests
    BY <1>t DEF PageOK
  <1>f. Flushed(messages) \in Seq(Message)
    BY <1>m, FlushedIs
  <1>z. NoRequest \notin Requests
    BY NotARequest
  <1>1. ASSUME NEW ms \in Seq(Message), Update(ms), UNCHANGED editing,
               chunks' \subseteq Requests, late' \subseteq Requests
        PROVE  PageOK' /\ saveTimer' \in BOOLEAN /\ draft' \in BOOLEAN
    BY <1>t, <1>1 DEF PageOK, Update
  <1>2. CASE StreamChunk(r)
    <2>1. FlagsOK'
      BY <1>t, <1>2 DEF StreamChunk, FlagsOK, storage, net
    <2>2. PageOK'
      BY <1>t, <1>2 DEF StreamChunk, PageOK, storage
    <2>3. NetOK'
      BY <1>t, <1>2 DEF StreamChunk, NetOK, net
    <2> QED BY <2>1, <2>2, <2>3, TypePartsNext
  <1>3. CASE StreamDone(r)
    <2> DEFINE ms == CompletedLast(Flushed(messages))
    <2>1. ms \in Seq(Message)
      BY <1>f, CompletedIs
    <2>2. /\ Update(ms) /\ UNCHANGED editing /\ chunks' \subseteq Requests
          /\ late' \subseteq Requests
      BY <1>m, <1>3 DEF StreamDone, RestOfRead
    <2>b. flushTimer' \in BOOLEAN
      BY <1>3 DEF StreamDone, RestOfRead
    <2> HIDE DEF ms
    <2>3. PageOK' /\ saveTimer' \in BOOLEAN /\ draft' \in BOOLEAN
      BY <1>1, <2>1, <2>2
    <2>4. FlagsOK'
      BY <1>t, <1>3, <2>b, <2>3 DEF StreamDone, FlagsOK
    <2>5. NetOK'
      BY <1>t, <1>3, <1>z DEF StreamDone, CloseActiveStream, Close, NetOK, Connection
    <2> QED BY <2>3, <2>4, <2>5, TypePartsNext
  <1>4. CASE StreamError(r)
    <2> DEFINE ms == WithError(Flushed(messages))
    <2>1. ms \in Seq(Message)
      BY <1>f, WithErrorIs
    <2>2. /\ Update(ms) /\ UNCHANGED editing /\ chunks' \subseteq Requests
          /\ late' \subseteq Requests
      BY <1>m, <1>4 DEF StreamError, RestOfRead
    <2>b. flushTimer' \in BOOLEAN
      BY <1>4 DEF StreamError, RestOfRead
    <2> HIDE DEF ms
    <2>3. PageOK' /\ saveTimer' \in BOOLEAN /\ draft' \in BOOLEAN
      BY <1>1, <2>1, <2>2
    <2>4. FlagsOK'
      BY <1>t, <1>4, <2>b, <2>3 DEF StreamError, FlagsOK
    <2>5. NetOK'
      BY <1>t, <1>4, <1>z DEF StreamError, CloseActiveStream, Close, NetOK, Connection
    <2> QED BY <2>3, <2>4, <2>5, TypePartsNext
  <1>5. ASSUME Finally(r), conn[r] \in {"fetch", "aborted"}
        PROVE  NetOK' /\ isRequesting' \in BOOLEAN /\ UNCHANGED doneSeen
    BY <1>t, <1>5 DEF Finally, NetOK, Connection, FlagsOK
  <1>6. CASE FetchResponds(r)
    <2> DEFINE ms == updateLastAssistantMessage(messages,
                        LAMBDA m : [m EXCEPT !.status = "complete", !.got = {r}])
    <2>1. ms \in Seq(Message)
      BY <1>m, AnsweredIs
    <2>2. /\ Update(ms) /\ UNCHANGED editing /\ chunks' \subseteq Requests
          /\ late' \subseteq Requests
      BY <1>m, <1>6 DEF FetchResponds, batch
    <2> HIDE DEF ms
    <2>3. PageOK' /\ saveTimer' \in BOOLEAN /\ draft' \in BOOLEAN
      BY <1>1, <2>1, <2>2
    <2>4. NetOK' /\ isRequesting' \in BOOLEAN /\ UNCHANGED doneSeen
      BY <1>5, <1>6 DEF FetchResponds
    <2>5. UNCHANGED <<stream, flushTimer>>
      BY <1>6 DEF FetchResponds, batch
    <2>6. FlagsOK'
      BY <1>t, <2>3, <2>4, <2>5 DEF FlagsOK
    <2> QED BY <2>3, <2>4, <2>6, TypePartsNext
  <1>7. CASE FetchFails(r)
    <2> DEFINE ms == WithError(Flushed(messages))
    <2>1. ms \in Seq(Message)
      BY <1>f, WithErrorIs
    <2>2. /\ Update(ms) /\ UNCHANGED editing /\ chunks' \subseteq Requests
          /\ late' \subseteq Requests
      BY <1>m, <1>7 DEF FetchFails
    <2> HIDE DEF ms
    <2>3. PageOK' /\ saveTimer' \in BOOLEAN /\ draft' \in BOOLEAN
      BY <1>1, <2>1, <2>2
    <2>4. FlagsOK'
      BY <1>t, <1>7, <2>3 DEF FetchFails, FlagsOK
    <2>5. NetOK'
      BY <1>t, <1>7 DEF FetchFails, NetOK, Connection
    <2> QED BY <2>3, <2>4, <2>5, TypePartsNext
  <1>8. CASE AbortSettles(r)
    <2>1. NetOK' /\ isRequesting' \in BOOLEAN /\ UNCHANGED doneSeen
      BY <1>5, <1>8 DEF AbortSettles
    <2>2. UNCHANGED <<messages, storage, stream, batch, editing, draft>>
      BY <1>8 DEF AbortSettles
    <2>3. FlagsOK'
      BY <1>t, <2>1, <2>2 DEF FlagsOK, storage, batch
    <2>4. PageOK'
      BY <1>t, <2>2 DEF PageOK, storage, batch
    <2> QED BY <2>1, <2>3, <2>4, TypePartsNext
  <1>9. CASE StreamCloses(r)
    <2>1. FlagsOK'
      BY <1>t, <1>9 DEF StreamCloses, FlagsOK, storage, batch
    <2>2. PageOK'
      BY <1>t, <1>9 DEF StreamCloses, PageOK, storage, batch
    <2>3. NetOK'
      BY <1>t, <1>9 DEF StreamCloses, NetOK, Connection
    <2> QED BY <2>1, <2>2, <2>3, TypePartsNext
  <1> QED BY <1>2, <1>3, <1>4, <1>6, <1>7, <1>8, <1>9 DEF RequestEnds

LEMMA TimerType ==
    ASSUME TypeOK, flushStreamUpdates \/ SaveTimer
    PROVE  TypeOK'
  <1>t. FlagsOK /\ PageOK /\ NetOK
    BY TypeParts
  <1>1. CASE flushStreamUpdates
    <2>1. Flushed(messages) \in Seq(Message)
      BY <1>t, FlushedIs DEF PageOK
    <2>2. FlagsOK'
      BY <1>t, <1>1 DEF flushStreamUpdates, Update, FlagsOK, net
    <2>3. PageOK'
      BY <1>t, <1>1, <2>1 DEF flushStreamUpdates, Update, PageOK
    <2>4. NetOK'
      BY <1>t, <1>1 DEF flushStreamUpdates, NetOK, net
    <2> QED BY <2>2, <2>3, <2>4, TypePartsNext
  <1>2. CASE SaveTimer
    <2>1. FlagsOK'
      BY <1>t, <1>2 DEF SaveTimer, FlagsOK, net, batch
    <2>2. PageOK'
      BY <1>t, <1>2 DEF SaveTimer, PageOK, batch
    <2>3. NetOK'
      BY <1>t, <1>2 DEF SaveTimer, NetOK, net
    <2> QED BY <2>1, <2>2, <2>3, TypePartsNext
  <1> QED BY <1>1, <1>2

LEMMA TypeStep == TypeOK /\ [Next]_vars => TypeOK'
  <1> SUFFICES ASSUME TypeOK, [Next]_vars PROVE TypeOK'
    OBVIOUS
  <1>1. CASE UNCHANGED vars
    BY <1>1 DEF vars, TypeOK
  <1>2. CASE Next
    BY <1>2, UserType, RequestType, TimerType DEF Next
  <1> QED BY <1>1, <1>2

(* Type correctness, whoever edits while an answer is awaited: the state   *)
(* of the page stays in its types, and the stream that sseSourceRef names  *)
(* (use-stream-request) was not closed by the page, so that isStreaming is *)
(* never left set by a stream that was replaced, stopped or completed.     *)
THEOREM TypeCorrect == Spec => []TypeOK
  BY InitType, TypeStep, PTL DEF Spec

-----------------------------------------------------------------------------
(* The inductive invariant.                                                *)

(* The request is open and its events will reach the conversation.         *)
Alive(r) == conn[r] \in {"stream", "closed", "fetch"}

(* A conversation, shown or stored, where l are the requests that brought  *)
(* text after their end: that text aside, answers hold text of their own   *)
(* request and only the last message is awaited.  Requests were sent, and  *)
(* keys are unique.                                                        *)
Conversation(ms, c, l) ==
    /\ \A i \in 1 .. Len(ms) :
         /\ ms[i].got \subseteq {ms[i].for} \cup l
         /\ c[ms[i].for] # "none"
         /\ Pending(ms[i]) => i = Len(ms) \/ ms[i].got \cap l # {}
    /\ \A i, j \in 1 .. Len(ms) :
         ms[i].from = ms[j].from /\ ms[i].for = ms[j].for => i = j

(* One request at a time is open, and the references name it.              *)
OneRequest ==
    /\ \A r \in Requests :
         /\ conn[r] \in {"stream", "closed"} => source = r
         /\ conn[r] = "fetch" => /\ requestId = r /\ abortRef = r
                                 /\ isRequesting /\ source = NoRequest
    /\ isRequesting => \E r \in Requests : Alive(r)

(* The last message is the answer to r.                                    *)
AnswerTo(ms, r) ==
    /\ ms # <<>>
    /\ ms[Len(ms)].from = "assistant"
    /\ ms[Len(ms)].for = r

(* The open request has its message at the end, and no other is awaited    *)
(* but one that took text after the end of its request.                    *)
Awaited ==
    /\ \A r \in Requests :
         Alive(r) => AnswerTo(messages, r) /\ Pending(messages[Len(messages)])
    /\ \A i \in 1 .. Len(messages) :
         Pending(messages[i]) =>
            \/ messages[i].from = "assistant" /\ Alive(messages[i].for)
            \/ messages[i].got \cap late # {}

(* The text that waits for the timer is from the stream whose answer is    *)
(* awaited, or came after the end of its stream.                           *)
Chunks ==
    \A r \in chunks : r \in late \/ conn[r] \in {"stream", "closed"}

Inv ==
    /\ TypeOK
    /\ Conversation(messages, conn, late)
    /\ Conversation(stored, conn, late)
    /\ OneRequest
    /\ Awaited
    /\ Chunks

(* The final messages that remain are as they were, text that comes after  *)
(* the end of its stream aside.                                            *)
FinalKept ==
    \A i \in 1 .. Len(messages), j \in 1 .. Len(messages') :
        Final(messages[i]) /\ KeyOf(messages'[j]) = KeyOf(messages[i]) =>
            \/ messages'[j] = messages[i]
            \/ TakesLateText(messages[i], messages'[j])

LEMMA InvNext ==
    ASSUME TypeOK', Conversation(messages', conn', late'),
           Conversation(stored', conn', late'), OneRequest', Awaited', Chunks'
    PROVE  Inv'
  BY DEF Inv

(* What the types give.                                                    *)
LEMMA PageTypes ==
    ASSUME TypeOK
    PROVE  /\ messages \in Seq(Message) /\ stored \in Seq(Message)
           /\ Len(messages) \in Nat /\ Len(stored) \in Nat
           /\ \A i \in 1 .. Len(messages) :
                messages[i] \in Message /\ messages[i].for \in Requests
           /\ \A i \in 1 .. Len(stored) :
                stored[i] \in Message /\ stored[i].for \in Requests
           /\ messages # <<>> => Len(messages) \in 1 .. Len(messages)
           /\ conn \in [Requests -> Connection]
           /\ source # NoRequest => source \in Requests /\ Alive(source)
           /\ chunks \subseteq Requests /\ late \subseteq Requests
           /\ isRequesting \in BOOLEAN /\ flushTimer \in BOOLEAN
  <1>1. \A m \in Message : m.for \in Requests
    BY DEF Message
  <1>2. messages \in Seq(Message) /\ stored \in Seq(Message)
    BY DEF TypeOK
  <1>3. /\ \A i \in 1 .. Len(messages) : messages[i] \in Message
        /\ \A i \in 1 .. Len(stored) : stored[i] \in Message
    BY <1>2, ElementOfSeq
  <1>4. /\ Len(messages) \in Nat /\ Len(stored) \in Nat
        /\ messages # <<>> => Len(messages) \in 1 .. Len(messages)
    BY <1>2, LenProperties, LastIn
  <1>5. /\ conn \in [Requests -> Connection]
        /\ source # NoRequest => source \in Requests /\ Alive(source)
        /\ chunks \subseteq Requests /\ late \subseteq Requests
        /\ isRequesting \in BOOLEAN /\ flushTimer \in BOOLEAN
    BY DEF TypeOK, Alive
  <1> QED BY <1>1, <1>2, <1>3, <1>4, <1>5

LEMMA SameKey ==
    ASSUME NEW m, NEW k
    PROVE  KeyOf(m) = KeyOf(k) <=> m.from = k.from /\ m.for = k.for
  BY DEF KeyOf

(* A conversation does not mind requests that advance.                     *)
LEMMA ConversationKept ==
    ASSUME NEW ms \in Seq(Message), NEW c, NEW d, NEW l, NEW k,
           Conversation(ms, c, l), l \subseteq k,
           \A r \in Requests : c[r] # "none" => d[r] # "none"
    PROVE  Conversation(ms, d, k)
  <1>1. \A i \in 1 .. Len(ms) : ms[i] \in Message
    BY ElementOfSeq
  <1>2. \A i \in 1 .. Len(ms) : ms[i].for \in Requests
    BY <1>1 DEF Message
  <1> QED BY <1>2 DEF Conversation

(* Nothing is generated: no request is open, nothing is awaited and no     *)
(* text waits for the timer but what came after the end of its stream.     *)
LEMMA Idle ==
    ASSUME Inv, ~isGenerating
    PROVE  /\ source = NoRequest /\ ~isRequesting
           /\ \A r \in Requests : ~Alive(r)
           /\ \A i \in 1 .. Len(messages) :
                Pending(messages[i]) => messages[i].got \cap late # {}
           /\ chunks \subseteq late
  <1>1. source = NoRequest /\ ~isRequesting
    BY DEF isGenerating
  <1>2. \A r \in Requests : ~Alive(r)
    BY <1>1, NotARequest DEF Inv, OneRequest, Alive
  <1>3. \A i \in 1 .. Len(messages) :
          Pending(messages[i]) => messages[i].got \cap late # {}
    BY <1>2, PageTypes DEF Inv, Awaited
  <1>4. chunks \subseteq late
    BY <1>2, PageTypes DEF Inv, Chunks, Alive
  <1> QED BY <1>1, <1>2, <1>3, <1>4

(* There is one open request, and it is the one of the last message.       *)
LEMMA TheRequest ==
    ASSUME Inv, NEW r \in Requests, Alive(r)
    PROVE  /\ \A q \in Requests : Alive(q) => q = r
           /\ AnswerTo(messages, r) /\ Pending(messages[Len(messages)])
           /\ conn[r] \in {"stream", "closed"} => source = r
           /\ conn[r] = "fetch" => requestId = r /\ abortRef = r /\ source = NoRequest
           /\ chunks \subseteq {r} \cup late
           /\ conn[r] = "fetch" => chunks \subseteq late
  <1>1. /\ \A q \in Requests : Alive(q) => q = r
        /\ conn[r] \in {"stream", "closed"} => source = r
        /\ conn[r] = "fetch" => requestId = r /\ abortRef = r /\ source = NoRequest
    BY NotARequest DEF Inv, OneRequest, Alive
  <1>2. AnswerTo(messages, r) /\ Pending(messages[Len(messages)])
    BY DEF Inv, Awaited
  <1>3. /\ chunks \subseteq {r} \cup late
        /\ conn[r] = "fetch" => chunks \subseteq late
    BY <1>1, PageTypes DEF Inv, Chunks, Alive
  <1> QED BY <1>1, <1>2, <1>3

LEMMA Generating ==
    ASSUME Inv, isGenerating
    PROVE  \E r \in Requests : Alive(r)
  BY PageTypes DEF Inv, OneRequest, isGenerating

-----------------------------------------------------------------------------
(* Steps that leave the conversation as it is.                             *)

LEMMA Untouched ==
    ASSUME Inv, messages' = messages
    PROVE  FinalKept
  <1> SUFFICES ASSUME NEW i \in 1 .. Len(messages), NEW j \in 1 .. Len(messages),
                      KeyOf(messages[j]) = KeyOf(messages[i])
               PROVE  messages[j] = messages[i]
    BY DEF FinalKept
  <1> QED BY SameKey DEF Inv, Conversation

LEMMA QuietStep ==
    ASSUME Inv, TypeOK', UNCHANGED <<messages, net, batch>>,
           stored' \in {stored, messages}
    PROVE  Inv' /\ FinalKept
  <1>1. /\ Conversation(messages', conn', late')
        /\ Conversation(stored', conn', late')
    BY DEF Inv, net, batch
  <1>2. OneRequest'
    BY DEF Inv, OneRequest, Alive, net
  <1>3. Awaited'
    BY DEF Inv, Awaited, Alive, AnswerTo, net, batch
  <1>4. Chunks'
    BY DEF Inv, Chunks, net, batch
  <1> QED BY <1>1, <1>2, <1>3, <1>4, InvNext, Untouched

LEMMA ChunkStep ==
    ASSUME Inv, TypeOK', NEW r \in Requests, StreamChunk(r)
    PROVE  Inv' /\ FinalKept
  <1>1. UNCHANGED <<messages, stored, conn, source, isRequesting, abortRef,
                    requestId, late>>
    BY DEF StreamChunk, storage, net
  <1>2. /\ Conversation(messages', conn', late')
        /\ Conversation(stored', conn', late')
    BY <1>1 DEF Inv
  <1>3. OneRequest'
    BY <1>1 DEF Inv, OneRequest, Alive
  <1>4. Awaited'
    BY <1>1 DEF Inv, Awaited, Alive, AnswerTo
  <1>5. Chunks'
    BY <1>1 DEF StreamChunk, Inv, Chunks
  <1> QED BY <1>1, <1>2, <1>3, <1>4, <1>5, InvNext, Untouched

(* A stream that the server closes is awaited as before.                   *)
LEMMA CloseStep ==
    ASSUME Inv, TypeOK', NEW r \in Requests, StreamCloses(r)
    PROVE  Inv' /\ FinalKept
  <1>1. /\ UNCHANGED <<messages, stored, source, isRequesting, abortRef,
                       requestId, chunks, late>>
        /\ conn[r] = "stream" /\ conn' = [conn EXCEPT ![r] = "closed"]
    BY DEF StreamCloses, storage, batch
  <1>2. \A q \in Requests : conn'[q] = IF q = r THEN "closed" ELSE conn[q]
    BY <1>1, PageTypes DEF Inv
  <1>a. \A q \in Requests : Alive(q)' <=> Alive(q)
    BY <1>1, <1>2 DEF Alive
  <1>3. /\ Conversation(messages', conn', late')
        /\ Conversation(stored', conn', late')
    <2>1. \A q \in Requests : conn[q] # "none" => conn'[q] # "none"
      BY <1>2
    <2>2. Conversation(messages, conn', late) /\ Conversation(stored, conn', late)
      BY <2>1, PageTypes, ConversationKept DEF Inv
    <2> QED BY <1>1, <2>2
  <1>4. OneRequest'
    <2>1. ASSUME NEW q \in Requests
          PROVE  /\ conn'[q] \in {"stream", "closed"} => source' = q
                 /\ conn'[q] = "fetch" => /\ requestId' = q /\ abortRef' = q
                                          /\ isRequesting' /\ source' = NoRequest
      BY <1>1, <1>2 DEF Inv, OneRequest
    <2>2. isRequesting' => \E q \in Requests : Alive(q)'
      BY <1>1, <1>a DEF Inv, OneRequest
    <2> QED BY <2>1, <2>2 DEF OneRequest
  <1>5. Awaited'
    <2>1. \A i \in 1 .. Len(messages) : messages[i].for \in Requests
      BY PageTypes DEF Inv
    <2> QED BY <1>1, <1>a, <2>1 DEF Inv, Awaited, AnswerTo
  <1>6. Chunks'
    BY <1>1, <1>2, PageTypes DEF Inv, Chunks
  <1> QED BY <1>1, <1>3, <1>4, <1>5, <1>6, InvNext, Untouched

LEMMA AbortStep ==
    ASSUME Inv, TypeOK', NEW r \in Requests, AbortSettles(r)
    PROVE  Inv' /\ FinalKept
  <1>t. conn \in [Requests -> Connection]
    BY PageTypes DEF Inv
  <1>1. /\ UNCHANGED <<messages, stored, source, requestId, chunks, late>>
        /\ conn[r] = "aborted" /\ conn' = [conn EXCEPT ![r] = "over"]
        /\ \/ requestId = r /\ isRequesting' = FALSE
           \/ requestId # r /\ UNCHANGED <<abortRef, isRequesting>>
    BY DEF AbortSettles, Finally, storage, batch
  <1>2. \A q \in Requests : conn'[q] = IF q = r THEN "over" ELSE conn[q]
    BY <1>t, <1>1
  <1>a. \A q \in Requests : Alive(q)' <=> Alive(q)
    BY <1>1, <1>2 DEF Alive
  <1>3. /\ Conversation(messages', conn', late')
        /\ Conversation(stored', conn', late')
    <2>1. \A q \in Requests : conn[q] # "none" => conn'[q] # "none"
      BY <1>2
    <2>2. Conversation(messages, conn', late) /\ Conversation(stored, conn', late)
      BY <2>1, PageTypes, ConversationKept DEF Inv
    <2> QED BY <1>1, <2>2
  <1>4. OneRequest'
    <2>1. ASSUME NEW q \in Requests
          PROVE  /\ conn'[q] \in {"stream", "closed"} => source' = q
                 /\ conn'[q] = "fetch" => /\ requestId' = q /\ abortRef' = q
                                          /\ isRequesting' /\ source' = NoRequest
      BY <1>1, <1>2 DEF Inv, OneRequest
    <2>2. isRequesting' => \E q \in Requests : Alive(q)'
      BY <1>1, <1>a DEF Inv, OneRequest
    <2> QED BY <2>1, <2>2 DEF OneRequest
  <1>5. Awaited'
    <2>1. \A i \in 1 .. Len(messages) : messages[i].for \in Requests
      BY PageTypes DEF Inv
    <2> QED BY <1>1, <1>a, <2>1 DEF Inv, Awaited, AnswerTo
  <1>6. Chunks'
    BY <1>1, <1>2, PageTypes DEF Inv, Chunks
  <1> QED BY <1>1, <1>3, <1>4, <1>5, <1>6, InvNext, Untouched

-----------------------------------------------------------------------------
(* Steps that rewrite the last message.                                    *)

(* Rewriting a message that is not final, or a completed one with late     *)
(* text, changes no other final message.                                   *)
LEMMA RewriteKeepsFinal ==
    ASSUME Inv, messages # <<>>, NEW m, Rewrites(messages, messages', m),
           m.from = messages[Len(messages)].from,
           m.for = messages[Len(messages)].for,
           \/ ~Final(messages[Len(messages)])
           \/ TakesLateText(messages[Len(messages)], m)
    PROVE  FinalKept
  <1> SUFFICES ASSUME NEW i \in 1 .. Len(messages), NEW j \in 1 .. Len(messages'),
                      Final(messages[i]),
                      KeyOf(messages'[j]) = KeyOf(messages[i])
               PROVE  \/ messages'[j] = messages[i]
                      \/ TakesLateText(messages[i], messages'[j])
    BY DEF FinalKept
  <1>1. j \in 1 .. Len(messages)
    BY DEF Rewrites
  <1>2. messages'[j].from = messages[j].from /\ messages'[j].for = messages[j].for
    BY <1>1 DEF Rewrites
  <1>3. messages[i].from = messages[j].from /\ messages[i].for = messages[j].for
    BY <1>2, SameKey
  <1>4. i = j
    BY <1>1, <1>3 DEF Inv, Conversation
  <1>5. CASE j # Len(messages)
    BY <1>1, <1>4, <1>5 DEF Rewrites
  <1>6. CASE j = Len(messages)
    BY <1>4, <1>6 DEF Rewrites
  <1> QED BY <1>5, <1>6

(* The open request ends: its answer becomes final.                        *)
Ended(r, m) ==
    /\ Rewrites(messages, messages', m)
    /\ m \in Message
    /\ m.from = "assistant" /\ m.for = r /\ m.got \subseteq {r} \cup late
    /\ Final(m)
    /\ UNCHANGED stored
    /\ source' = NoRequest
    /\ isRequesting' = FALSE
    /\ \A q \in Requests : conn'[q] \in {conn[q], "aborted", "over"}
    /\ conn'[r] \in {"aborted", "over"}
    /\ chunks' \subseteq late'
    /\ late \subseteq late'

LEMMA EndedStep ==
    ASSUME Inv, TypeOK', NEW r \in Requests, Alive(r), NEW m, Ended(r, m)
    PROVE  Inv' /\ FinalKept
  <1> DEFINE n == Len(messages)
  <1>t. /\ messages \in Seq(Message) /\ stored \in Seq(Message) /\ n \in Nat
        /\ \A i \in 1 .. n : messages[i].for \in Requests
    BY PageTypes DEF Inv
  <1>1. /\ \A q \in Requests : Alive(q) => q = r
        /\ messages # <<>> /\ messages[n].from = "assistant" /\ messages[n].for = r
        /\ Pending(messages[n])
    BY TheRequest DEF AnswerTo
  <1>2. n \in 1 .. n
    BY <1>1, PageTypes DEF Inv
  <1>3. /\ Len(messages') = n /\ messages'[n] = m
        /\ \A i \in 1 .. n : i # n => messages'[i] = messages[i]
    BY DEF Ended, Rewrites
  <1>4. \A q \in Requests : ~Alive(q)'
    <2> SUFFICES ASSUME NEW q \in Requests PROVE ~Alive(q)'
      OBVIOUS
    <2>1. CASE q = r
      BY <2>1 DEF Ended, Alive
    <2>2. CASE q # r
      <3>1. ~Alive(q)
        BY <1>1, <2>2
      <3> QED BY <3>1 DEF Ended, Alive
    <2> QED BY <2>1, <2>2
  <1>5. \A q \in Requests : conn[q] # "none" => conn'[q] # "none"
    BY DEF Ended
  <1>6. Conversation(stored', conn', late')
    <2>1. Conversation(stored, conn', late')
      BY <1>t, <1>5, ConversationKept DEF Inv, Ended
    <2> QED BY <2>1 DEF Ended
  <1>7. \A i \in 1 .. n :
          Pending(messages'[i]) => messages'[i].got \cap late' # {}
    <2> SUFFICES ASSUME NEW i \in 1 .. n, Pending(messages'[i])
                 PROVE  messages'[i].got \cap late' # {}
      OBVIOUS
    <2>1. CASE i = n
      BY <1>3, <2>1 DEF Ended, Final, Pending
    <2>2. CASE i # n
      <3>1. messages[i].got \cap late # {}
        BY <1>3, <2>2 DEF Inv, Conversation
      <3> QED BY <1>3, <2>2, <3>1 DEF Ended
    <2> QED BY <2>1, <2>2
  <1>8. Conversation(messages', conn', late')
    <2>1. ASSUME NEW i \in 1 .. n
          PROVE  /\ messages'[i].from = messages[i].from
                 /\ messages'[i].for = messages[i].for
      BY <1>1, <1>3 DEF Ended
    <2>2. ASSUME NEW i \in 1 .. n
          PROVE  /\ messages'[i].got \subseteq {messages'[i].for} \cup late'
                 /\ conn'[messages'[i].for] # "none"
      <3>1. /\ conn[messages[i].for] # "none"
            /\ messages[i].got \subseteq {messages[i].for} \cup late
        BY DEF Inv, Conversation
      <3>2. conn'[messages'[i].for] # "none"
        BY <1>t, <1>5, <2>1, <3>1
      <3>3. CASE i = n
        BY <1>3, <3>2, <3>3 DEF Ended
      <3>4. CASE i # n
        BY <1>3, <3>1, <3>2, <3>4 DEF Ended
      <3> QED BY <3>3, <3>4
    <2>3. ASSUME NEW i \in 1 .. n, NEW j \in 1 .. n,
                 messages'[i].from = messages'[j].from,
                 messages'[i].for = messages'[j].for
          PROVE  i = j
      <3>1. /\ messages[i].from = messages[j].from
            /\ messages[i].for = messages[j].for
        BY <2>1, <2>3
      <3> QED BY <3>1 DEF Inv, Conversation
    <2> HIDE DEF n
    <2> QED BY <1>3, <1>7, <2>2, <2>3 DEF Conversation
  <1>9. OneRequest'
    BY <1>4 DEF OneRequest, Alive, Ended
  <1>10. Awaited'
    BY <1>3, <1>4, <1>7 DEF Awaited
  <1>11. Chunks'
    BY DEF Chunks, Ended
  <1>12. FinalKept
    <2>1. ~Final(messages[n])
      BY <1>1 DEF Final, Pending
    <2> QED BY <1>1, <2>1, RewriteKeepsFinal DEF Ended
  <1> QED BY <1>6, <1>8, <1>9, <1>10, <1>11, <1>12, InvNext

(* With the text that waits for the timer the last message is still the    *)
(* awaited answer, with text of its own request or late text.              *)
LEMMA FlushedAnswer ==
    ASSUME Inv, NEW r \in Requests, Alive(r)
    PROVE  \E k \in Message :
              /\ Rewrites(messages, Flushed(messages), k)
              /\ k.from = "assistant" /\ k.for = r /\ k.got \subseteq {r} \cup late
              /\ Pending(k)
  <1> DEFINE l == Last(messages)
  <1>t. messages \in Seq(Message) /\ chunks \subseteq Requests
    BY PageTypes DEF Inv
  <1>1. /\ AnswerTo(messages, r) /\ Pending(messages[Len(messages)])
        /\ chunks \subseteq {r} \cup late
    BY TheRequest
  <1>2. messages # <<>>
    BY <1>1 DEF AnswerTo
  <1>3. l = messages[Len(messages)] /\ l \in Message /\ Len(messages) \in 1 .. Len(messages)
    BY <1>t, <1>2, LastIn
  <1>4. l.from = "assistant" /\ l.for = r /\ Pending(l)
    BY <1>1, <1>3 DEF AnswerTo
  <1>5. l.got \subseteq {r} \cup late
    BY <1>3, <1>4 DEF Inv, Conversation
  <1>6. CASE chunks = {}
    <2>1. Flushed(messages) = messages
      BY <1>t, <1>6, FlushedIs
    <2>2. Rewrites(messages, Flushed(messages), l)
      BY <1>t, <1>2, <2>1, RewriteNothing
    <2> HIDE DEF l
    <2> QED BY <1>3, <1>4, <1>5, <2>2
  <1>7. CASE chunks # {}
    <2> DEFINE k == applyStreamingChunk(l, chunks)
    <2>1. k \in Message /\ Rewrites(messages, Flushed(messages), k)
      BY <1>t, <1>2, <1>4, <1>7, FlushedIs
    <2> HIDE DEF l
    <2>2. k = [l EXCEPT !.status = "streaming", !.got = @ \cup chunks]
      BY <1>4 DEF applyStreamingChunk, Pending
    <2>3. /\ k.from = l.from /\ k.for = l.for /\ k.status = "streaming"
          /\ k.got = l.got \cup chunks
      BY <1>3, <2>2 DEF Message
    <2> HIDE DEF k
    <2>4. Pending(k) /\ k.got \subseteq {r} \cup late
      BY <1>1, <1>5, <2>3 DEF Pending
    <2> QED BY <1>4, <2>1, <2>3, <2>4
  <1> QED BY <1>6, <1>7

(* [DONE] and the user's stop complete the answer.                         *)
LEMMA CompletedAnswer ==
    ASSUME Inv, NEW r \in Requests, Alive(r)
    PROVE  \E m \in Message :
              /\ Rewrites(messages, CompletedLast(Flushed(messages)), m)
              /\ m.from = "assistant" /\ m.for = r /\ m.got \subseteq {r} \cup late
              /\ Final(m)
  <1>t. messages \in Seq(Message) /\ messages # <<>>
    BY PageTypes, TheRequest DEF Inv, AnswerTo
  <1>1. PICK k \in Message :
              /\ Rewrites(messages, Flushed(messages), k)
              /\ k.from = "assistant" /\ k.for = r /\ k.got \subseteq {r} \cup late
              /\ Pending(k)
    BY FlushedAnswer
  <1> DEFINE ns == Flushed(messages)
             m == completeAssistantMessage(k)
  <1>2. m \in Message
    BY DEF completeAssistantMessage, Message, Status
  <1>3. m.from = k.from /\ m.for = k.for /\ m.got = k.got /\ m.status = "complete"
    BY DEF completeAssistantMessage, Message
  <1> HIDE DEF m, ns
  <1>4. ns # <<>> /\ Last(ns) = k /\ Rewrites(messages, Append(Front(ns), m), m)
    BY <1>t, <1>1, <1>2, RewriteAgain DEF ns
  <1>5. CompletedLast(ns) = Append(Front(ns), m)
    <2>1. ns \in Seq(Message)
      BY <1>1 DEF Rewrites, ns
    <2> QED BY <1>1, <1>4, <2>1, CompletedIs DEF m
  <1>6. Rewrites(messages, CompletedLast(Flushed(messages)), m)
    BY <1>4, <1>5 DEF ns
  <1> QED BY <1>1, <1>2, <1>3, <1>6 DEF Final

(* An error replaces the text of the answer.                               *)
LEMMA FailedAnswer ==
    ASSUME Inv, NEW r \in Requests, Alive(r)
    PROVE  \E m \in Message :
              /\ Rewrites(messages, WithError(Flushed(messages)), m)
              /\ m.from = "assistant" /\ m.for = r /\ m.got \subseteq {r} \cup late
              /\ m.status = "error"
  <1>t. messages \in Seq(Message) /\ messages # <<>>
    BY PageTypes, TheRequest DEF Inv, AnswerTo
  <1>1. PICK k \in Message :
              /\ Rewrites(messages, Flushed(messages), k)
              /\ k.from = "assistant" /\ k.for = r
    BY FlushedAnswer
  <1> DEFINE ns == Flushed(messages)
             m == Failed(k)
  <1>2. m \in Message
    BY DEF Failed, Message, Status
  <1>3. m.from = k.from /\ m.for = k.for /\ m.got = {} /\ m.status = "error"
    BY DEF Failed, Message
  <1> HIDE DEF m, ns
  <1>4. ns # <<>> /\ Last(ns) = k /\ Rewrites(messages, Append(Front(ns), m), m)
    BY <1>t, <1>1, <1>2, RewriteAgain DEF ns
  <1>5. WithError(ns) = Append(Front(ns), m)
    <2>1. ns \in Seq(Message)
      BY <1>1 DEF Rewrites, ns
    <2> QED BY <1>1, <1>4, <2>1, WithErrorIs DEF m
  <1>6. Rewrites(messages, WithError(Flushed(messages)), m)
    BY <1>4, <1>5 DEF ns
  <1> QED BY <1>1, <1>2, <1>3, <1>6

LEMMA RequestStep ==
    ASSUME Inv, TypeOK', NEW r \in Requests, RequestEnds(r)
    PROVE  Inv' /\ FinalKept
  <1>t. /\ conn \in [Requests -> Connection]
        /\ messages \in Seq(Message) /\ NoRequest \notin Requests
    BY PageTypes, NotARequest DEF Inv
  <1>1. CASE StreamDone(r)
    <2>1. Alive(r) /\ conn[r] = "stream"
      BY <1>1 DEF StreamDone, Alive
    <2>2. PICK m \in Message :
              /\ Rewrites(messages, CompletedLast(Flushed(messages)), m)
              /\ m.from = "assistant" /\ m.for = r /\ m.got \subseteq {r} \cup late
              /\ Final(m)
      BY <2>1, CompletedAnswer
    <2>3. messages' = CompletedLast(Flushed(messages)) /\ UNCHANGED stored
      BY <1>1 DEF StreamDone, Update
    <2>4. /\ source' = NoRequest /\ isRequesting' = FALSE
          /\ conn' = [conn EXCEPT ![r] = "over"]
      BY <1>t, <1>1, <2>1, TheRequest DEF StreamDone, CloseActiveStream, Close
    <2>5. chunks' \subseteq late' /\ late \subseteq late'
      BY <1>1 DEF StreamDone, RestOfRead
    <2>6. Ended(r, m)
      BY <1>t, <2>2, <2>3, <2>4, <2>5 DEF Ended
    <2> QED BY <2>1, <2>6, EndedStep
  <1>2. CASE StreamError(r)
    <2>1. Alive(r) /\ conn[r] = "stream"
      BY <1>2 DEF StreamError, Alive
    <2>2. PICK m \in Message :
              /\ Rewrites(messages, WithError(Flushed(messages)), m)
              /\ m.from = "assistant" /\ m.for = r /\ m.got \subseteq {r} \cup late
              /\ m.status = "error"
      BY <2>1, FailedAnswer
    <2>3. messages' = WithError(Flushed(messages)) /\ UNCHANGED stored
      BY <1>2 DEF StreamError, Update
    <2>4. /\ source' = NoRequest /\ isRequesting' = FALSE
          /\ conn' = [conn EXCEPT ![r] = "over"]
      BY <1>t, <1>2, <2>1, TheRequest DEF StreamError, CloseActiveStream, Close
    <2>5. chunks' \subseteq late' /\ late \subseteq late'
      BY <1>2 DEF StreamError, RestOfRead
    <2>6. Ended(r, m)
      BY <1>t, <2>2, <2>3, <2>4, <2>5 DEF Ended, Final
    <2> QED BY <2>1, <2>6, EndedStep
  <1>3. CASE FetchResponds(r)
    <2> DEFINE l == Last(messages)
               m == Answered(l, r)
    <2>1. Alive(r) /\ conn[r] = "fetch"
      BY <1>3 DEF FetchResponds, Alive
    <2>2. /\ messages # <<>> /\ l = messages[Len(messages)] /\ l \in Message
          /\ l.from = "assistant" /\ l.for = r
      BY <1>t, <2>1, TheRequest, LastIn DEF AnswerTo
    <2>3. messages' = updateLastAssistantMessage(messages,
              LAMBDA k : [k EXCEPT !.status = "complete", !.got = {r}])
      BY <1>3 DEF FetchResponds, Update
    <2>4. m \in Message /\ messages' = Append(Front(messages), m)
      BY <1>t, <2>2, <2>3, AnsweredIs
    <2> HIDE DEF l
    <2>5. m.from = "assistant" /\ m.for = r /\ m.got = {r} /\ m.status = "complete"
      BY <2>2 DEF Answered, Message
    <2> HIDE DEF m
    <2>6. Rewrites(messages, messages', m)
      BY <1>t, <2>2, <2>4, RewriteLast
    <2>7. /\ source' = NoRequest /\ isRequesting' = FALSE
          /\ chunks' \subseteq late /\ late' = late
          /\ conn' = [conn EXCEPT ![r] = "over"] /\ UNCHANGED stored
      BY <1>3, <2>1, TheRequest DEF FetchResponds, Finally, Update, batch
    <2>8. Ended(r, m)
      BY <1>t, <2>4, <2>5, <2>6, <2>7 DEF Ended, Final
    <2> QED BY <2>1, <2>8, EndedStep
  <1>4. CASE FetchFails(r)
    <2>1. Alive(r) /\ conn[r] = "fetch"
      BY <1>4 DEF FetchFails, Alive
    <2>2. PICK m \in Message :
              /\ Rewrites(messages, WithError(Flushed(messages)), m)
              /\ m.from = "assistant" /\ m.for = r /\ m.got \subseteq {r} \cup late
              /\ m.status = "error"
      BY <2>1, FailedAnswer
    <2>3. messages' = WithError(Flushed(messages)) /\ UNCHANGED stored
      BY <1>4 DEF FetchFails, Update
    <2>4. /\ source' = NoRequest /\ isRequesting' = FALSE /\ chunks' = {}
          /\ conn' = [conn EXCEPT ![r] = "over"] /\ late' = late
      BY <1>4, <2>1, TheRequest DEF FetchFails
    <2>5. Ended(r, m)
      BY <1>t, <2>2, <2>3, <2>4 DEF Ended, Final
    <2> QED BY <2>1, <2>5, EndedStep
  <1>5. CASE AbortSettles(r)
    BY <1>5, AbortStep
  <1> QED BY <1>1, <1>2, <1>3, <1>4, <1>5 DEF RequestEnds

LEMMA StopStep ==
    ASSUME Inv, TypeOK', stopGeneration
    PROVE  Inv' /\ FinalKept
  <1>t. /\ conn \in [Requests -> Connection]
        /\ NoRequest \notin Requests
    BY PageTypes, NotARequest DEF Inv
  <1>1. PICK r \in Requests : Alive(r)
    BY Generating DEF stopGeneration
  <1>2. PICK m \in Message :
            /\ Rewrites(messages, CompletedLast(Flushed(messages)), m)
            /\ m.from = "assistant" /\ m.for = r /\ m.got \subseteq {r} \cup late
            /\ Final(m)
    BY <1>1, CompletedAnswer
  <1>3. /\ messages' = CompletedLast(Flushed(messages)) /\ UNCHANGED stored
        /\ source' = NoRequest /\ isRequesting' = FALSE /\ chunks' = {}
        /\ late' = late
    BY DEF stopGeneration, Update
  <1>4. /\ \A q \in Requests : conn'[q] \in {conn[q], "aborted", "over"}
        /\ conn'[r] \in {"aborted", "over"}
    <2> DEFINE c == Close(conn, source)
    <2>1. /\ \A q \in Requests : c[q] = IF q = source THEN "over" ELSE conn[q]
          /\ DOMAIN c = Requests
      BY <1>t DEF Close
    <2>2. \A q \in Requests : conn'[q] = IF q = abortRef THEN "aborted" ELSE c[q]
      BY <1>t, <2>1 DEF stopGeneration
    <2>3. r \in {source, abortRef}
      BY <1>1, TheRequest DEF Alive
    <2> HIDE DEF c
    <2> QED BY <2>1, <2>2, <2>3
  <1>5. Ended(r, m)
    BY <1>2, <1>3, <1>4 DEF Ended
  <1> QED BY <1>1, <1>5, EndedStep

(* The timer brings the text to the answer that is awaited, or late text   *)
(* to whatever answer is last; a failed one ignores it.                    *)
LEMMA FlushStep ==
    ASSUME Inv, TypeOK', flushStreamUpdates
    PROVE  Inv' /\ FinalKept
  <1> DEFINE n == Len(messages)
             l == Last(messages)
             k == applyStreamingChunk(l, chunks)
  <1>t. /\ messages \in Seq(Message) /\ chunks \subseteq Requests
        /\ n \in Nat
    BY PageTypes DEF Inv
  <1>1. /\ messages' = Flushed(messages) /\ chunks' = {}
        /\ UNCHANGED <<stored, conn, source, isRequesting, abortRef, requestId,
                       late>>
    BY DEF flushStreamUpdates, Update, net
  <1>2. Chunks' /\ Conversation(stored', conn', late')
    BY <1>1 DEF Chunks, Inv
  <1>3. OneRequest'
    BY <1>1 DEF Inv, OneRequest, Alive
  <1>4. CASE messages' = messages
    <2>1. Conversation(messages', conn', late')
      BY <1>1, <1>4 DEF Inv
    <2>2. Awaited'
      BY <1>1, <1>4 DEF Inv, Awaited, Alive, AnswerTo
    <2> QED BY <1>2, <1>3, <1>4, <2>1, <2>2, InvNext, Untouched
  <1>5. CASE chunks = {} \/ messages = <<>> \/ l.from # "assistant"
    <2>1. messages' = messages
      BY <1>t, <1>1, <1>5, FlushedIs
    <2> QED BY <1>4, <2>1
  <1>6. ASSUME chunks # {}, messages # <<>>, l.from = "assistant"
        PROVE  /\ l = messages[n] /\ l \in Message /\ n \in 1 .. n
               /\ k \in Message /\ Rewrites(messages, messages', k)
               /\ Len(messages') = n /\ messages'[n] = k /\ messages' \in Seq(Message)
               /\ \A i \in 1 .. n : i # n => messages'[i] = messages[i]
    <2>1. l = messages[n] /\ l \in Message /\ n \in 1 .. n
      BY <1>t, <1>6, LastIn
    <2>2. k \in Message /\ Rewrites(messages, messages', k)
      BY <1>t, <1>1, <1>6, FlushedIs
    <2> HIDE DEF k, l
    <2> QED BY <2>1, <2>2 DEF Rewrites
  <1>7. CASE /\ chunks # {} /\ messages # <<>> /\ l.from = "assistant"
             /\ l.status = "error"
    <2>1. k = l
      BY <1>7 DEF applyStreamingChunk
    <2>2. Len(messages') = n /\ messages' \in Seq(Message)
          /\ \A i \in 1 .. n : messages'[i] = messages[i]
      <3> HIDE DEF k, l
      <3> QED BY <1>6, <1>7, <2>1
    <2>3. messages' = messages
      BY <1>t, <2>2, SeqEqual
    <2> QED BY <1>4, <2>3
  <1>8. CASE /\ chunks # {} /\ messages # <<>> /\ l.from = "assistant"
             /\ l.status # "error"
    <2>1. k = [l EXCEPT !.status = "streaming", !.got = @ \cup chunks]
      BY <1>8 DEF applyStreamingChunk
    <2> HIDE DEF k, l
    <2>2. /\ l = messages[n] /\ l \in Message /\ n \in 1 .. n
          /\ k \in Message /\ Rewrites(messages, messages', k)
          /\ Len(messages') = n /\ messages'[n] = k /\ messages' \in Seq(Message)
          /\ \A i \in 1 .. n : i # n => messages'[i] = messages[i]
      BY <1>6, <1>8
    <2>3. /\ k.from = l.from /\ k.for = l.for /\ k.status = "streaming"
          /\ k.got = l.got \cup chunks
      BY <2>1, <2>2 DEF Message
    (* Text that is not late is of the stream that l awaits.               *)
    <2>4. \A q \in Requests : Alive(q) =>
             l.for = q /\ Pending(l) /\ AnswerTo(messages, q)
      BY <2>2 DEF Inv, Awaited, AnswerTo
    <2>5. \A c \in chunks : c \in late \/ (c = l.for /\ Alive(c))
      BY <1>t, <2>4 DEF Inv, Chunks, Alive
    <2>6. Conversation(messages', conn', late')
      <3>1. ASSUME NEW i \in 1 .. n
            PROVE  /\ messages'[i].from = messages[i].from
                   /\ messages'[i].for = messages[i].for
                   /\ messages'[i].got \subseteq {messages'[i].for} \cup late'
                   /\ conn'[messages'[i].for] # "none"
                   /\ Pending(messages'[i]) =>
                        i = n \/ messages'[i].got \cap late' # {}
        <4>1. /\ conn[messages[i].for] # "none"
              /\ messages[i].got \subseteq {messages[i].for} \cup late
              /\ Pending(messages[i]) => i = n \/ messages[i].got \cap late # {}
          BY DEF Inv, Conversation
        <4>2. CASE i = n
          BY <1>1, <2>2, <2>3, <2>5, <4>1, <4>2
        <4>3. CASE i # n
          BY <1>1, <2>2, <4>1, <4>3
        <4> QED BY <4>2, <4>3
      <3>2. ASSUME NEW i \in 1 .. n, NEW j \in 1 .. n,
                   messages'[i].from = messages'[j].from,
                   messages'[i].for = messages'[j].for
            PROVE  i = j
        <4>1. /\ messages[i].from = messages[j].from
              /\ messages[i].for = messages[j].for
          BY <3>1, <3>2
        <4> QED BY <4>1 DEF Inv, Conversation
      <3> HIDE DEF n
      <3> QED BY <2>2, <3>1, <3>2 DEF Conversation
    <2>7. Awaited'
      <3>1. messages' # <<>>
        BY <2>2, LenProperties, EmptySeq
      <3>2. \A q \in Requests : Alive(q)' <=> Alive(q)
        BY <1>1 DEF Alive
      <3>3. Pending(k)
        BY <2>3 DEF Pending
      <3>4. ASSUME NEW q \in Requests, Alive(q)
            PROVE  AnswerTo(messages', q) /\ Pending(messages'[Len(messages')])
        BY <1>8, <2>2, <2>3, <2>4, <3>1, <3>3, <3>4 DEF AnswerTo
      <3>5. ASSUME NEW i \in 1 .. n, Pending(messages'[i])
            PROVE  \/ messages'[i].from = "assistant" /\ Alive(messages'[i].for)
                   \/ messages'[i].got \cap late # {}
        <4>1. CASE i = n
          <5>1. CASE \E c \in chunks : c \in late
            BY <2>2, <2>3, <4>1, <5>1
          <5>2. CASE \A c \in chunks : c \notin late
            BY <1>8, <2>2, <2>3, <2>5, <4>1, <5>2
          <5> QED BY <5>1, <5>2
        <4>2. CASE i # n
          BY <2>2, <3>5, <4>2 DEF Inv, Awaited
        <4> QED BY <4>1, <4>2
      <3>6. \A i \in 1 .. n : messages'[i].for \in Requests
        <4>1. \A i \in 1 .. n : messages'[i] \in Message
          BY <2>2, ElementOfSeq
        <4> QED BY <4>1 DEF Message
      <3> HIDE DEF n
      <3> QED BY <1>1, <2>2, <3>2, <3>4, <3>5, <3>6 DEF Awaited
    <2>8. FinalKept
      <3>1. CASE ~Final(l)
        BY <1>8, <2>2, <2>3, <3>1, RewriteKeepsFinal
      <3>2. CASE Final(l)
        <4>1. ~Pending(l) /\ l.status = "complete"
          BY <1>8, <3>2 DEF Final, Pending
        <4>2. chunks \subseteq late
          BY <1>t, <2>4, <2>5, <4>1
        <4>3. TakesLateText(l, k)
          BY <1>8, <2>1, <4>1, <4>2 DEF TakesLateText
        <4> QED BY <1>8, <2>2, <2>3, <4>3, RewriteKeepsFinal
      <3> QED BY <3>1, <3>2
    <2> QED BY <1>2, <1>3, <2>6, <2>7, <2>8, InvNext
  <1> QED BY <1>5, <1>7, <1>8

-----------------------------------------------------------------------------
(* Steps that begin a new answer.                                          *)

(* The conversation is a beginning of the old one with the messages of a   *)
(* request of its own.                                                     *)
Begins(r, ns) ==
    /\ ns \in Seq(Message)
    /\ Len(ns) >= 1
    /\ ns[Len(ns)] = LoadingMessage(r)
    /\ \A i \in 1 .. Len(ns) : i # Len(ns) =>
         \/ i \in 1 .. Len(messages) /\ ns[i] = messages[i]
         \/ i = Len(ns) - 1 /\ ns[i] = UserMessage(r)

LEMMA SendStep ==
    ASSUME Inv, TypeOK', ~isGenerating, NEW r \in Requests,
           conn[r] = "none", Begins(r, messages'), sendChat(r),
           UNCHANGED <<stored, batch>>
    PROVE  Inv' /\ FinalKept
  <1> DEFINE n == Len(messages')
             l == LoadingMessage(r)
             u == UserMessage(r)
  <1>t. /\ conn \in [Requests -> Connection]
        /\ stored \in Seq(Message) /\ Len(messages) \in Nat
        /\ \A i \in 1 .. Len(messages) : messages[i].for \in Requests
        /\ n \in Nat
    BY PageTypes, LenProperties DEF Inv, Begins
  <1>z. NoRequest \notin Requests
    BY NotARequest
  <1>1. /\ source = NoRequest /\ ~isRequesting
        /\ \A q \in Requests : ~Alive(q)
        /\ \A i \in 1 .. Len(messages) :
             Pending(messages[i]) => messages[i].got \cap late # {}
    BY Idle
  <1>2. late' = late /\ chunks' \subseteq late
    BY Idle DEF batch
  <1>3. /\ isRequesting'
        /\ \A q \in Requests : q # r => conn'[q] = conn[q]
        /\ \/ conn'[r] = "stream" /\ source' = r
           \/ /\ conn'[r] = "fetch" /\ requestId' = r /\ abortRef' = r
              /\ source' = NoRequest
    <2>1. CASE stream
      BY <1>t, <1>1, <2>1 DEF sendChat, sendStreamingChat, Close
    <2>2. CASE ~stream
      BY <1>t, <1>1, <2>2 DEF sendChat, sendNonStreamingChat
    <2> QED BY <2>1, <2>2
  <1>4. \A q \in Requests : Alive(q)' <=> q = r
    BY <1>1, <1>3 DEF Alive
  <1>5. OneRequest'
    <2>1. ASSUME NEW q \in Requests
          PROVE  /\ conn'[q] \in {"stream", "closed"} => source' = q
                 /\ conn'[q] = "fetch" => /\ requestId' = q /\ abortRef' = q
                                          /\ isRequesting' /\ source' = NoRequest
      <3>1. CASE q = r
        BY <1>3, <3>1
      <3>2. CASE q # r
        <4>1. ~Alive(q)'
          BY <1>4, <3>2
        <4> QED BY <4>1 DEF Alive
      <3> QED BY <3>1, <3>2
    <2> QED BY <1>4, <2>1 DEF OneRequest
  <1>6. \A q \in Requests : conn[q] # "none" => conn'[q] # "none"
    BY <1>3
  <1>7. Conversation(stored', conn', late')
    <2>1. Conversation(stored, conn', late)
      BY <1>t, <1>6, ConversationKept DEF Inv
    <2> QED BY <1>2, <2>1
  <1>8. /\ l.from = "assistant" /\ l.for = r /\ l.got = {} /\ Pending(l)
        /\ u.from = "user" /\ u.for = r /\ u.got = {} /\ ~Pending(u)
        /\ ~Final(l) /\ ~Final(u)
    BY DEF LoadingMessage, UserMessage, Pending, Final
  <1>9. \A i \in 1 .. Len(messages) : messages[i].for # r
    BY DEF Inv, Conversation
  <1> HIDE DEF n, l, u
  (* Where a message of the new conversation comes from.                   *)
  <1>10. \A i \in 1 .. n :
           \/ i = n /\ messages'[i] = l
           \/ i = n - 1 /\ messages'[i] = u
           \/ i # n /\ i \in 1 .. Len(messages) /\ messages'[i] = messages[i]
    BY DEF Begins, n, l, u
  <1>11. n \in 1 .. n /\ messages'[n] = l
    BY <1>t DEF Begins, n, l
  <1>12. Conversation(messages', conn', late')
    <2>1. ASSUME NEW i \in 1 .. n
          PROVE  /\ messages'[i].got \subseteq {messages'[i].for} \cup late'
                 /\ conn'[messages'[i].for] # "none"
                 /\ Pending(messages'[i]) =>
                      i = n \/ messages'[i].got \cap late' # {}
      <3>1. CASE messages'[i] = l /\ i = n
        BY <1>3, <1>8, <3>1
      <3>2. CASE messages'[i] = u
        BY <1>3, <1>8, <3>2
      <3>3. CASE i \in 1 .. Len(messages) /\ messages'[i] = messages[i]
        <4>1. /\ messages[i].got \subseteq {messages[i].for} \cup late
              /\ conn[messages[i].for] # "none"
          BY <3>3 DEF Inv, Conversation
        <4> QED BY <1>t, <1>1, <1>2, <1>6, <3>3, <4>1
      <3> QED BY <1>10, <3>1, <3>2, <3>3
    <2>2. ASSUME NEW i \in 1 .. n, NEW j \in 1 .. n,
                 messages'[i].from = messages'[j].from,
                 messages'[i].for = messages'[j].for
          PROVE  i = j
      <3>1. CASE i \in 1 .. Len(messages) /\ messages'[i] = messages[i]
        <4>1. j \in 1 .. Len(messages) /\ messages'[j] = messages[j]
          BY <1>8, <1>9, <1>10, <2>2, <3>1
        <4> QED BY <2>2, <3>1, <4>1 DEF Inv, Conversation
      <3>2. CASE i = n /\ messages'[i] = l
        BY <1>8, <1>9, <1>10, <2>2, <3>2
      <3>3. CASE i = n - 1 /\ messages'[i] = u
        BY <1>8, <1>9, <1>10, <2>2, <3>3
      <3> QED BY <1>10, <3>1, <3>2, <3>3
    <2> QED BY <2>1, <2>2 DEF Conversation, n
  <1>13. Awaited'
    <2>1. messages' # <<>>
      BY <1>11, LenProperties, EmptySeq DEF n, Begins
    <2>2. AnswerTo(messages', r) /\ Pending(messages'[Len(messages')])
      BY <1>8, <1>11, <2>1 DEF AnswerTo, n
    <2>3. ASSUME NEW i \in 1 .. n, Pending(messages'[i])
          PROVE  \/ messages'[i].from = "assistant" /\ messages'[i].for = r
                 \/ messages'[i].got \cap late' # {}
      BY <1>1, <1>2, <1>8, <1>10, <2>3
    <2> QED BY <1>4, <2>2, <2>3 DEF Awaited, n
  <1>14. Chunks'
    BY <1>2 DEF Chunks
  <1>15. FinalKept
    <2> SUFFICES ASSUME NEW i \in 1 .. Len(messages), NEW j \in 1 .. n,
                        KeyOf(messages'[j]) = KeyOf(messages[i])
                 PROVE  messages'[j] = messages[i]
      BY DEF FinalKept, n
    <2>1. messages'[j].from = messages[i].from /\ messages'[j].for = messages[i].for
      BY SameKey
    <2>2. j \in 1 .. Len(messages) /\ messages'[j] = messages[j]
      BY <1>8, <1>9, <1>10, <2>1
    <2>3. i = j
      BY <2>1, <2>2 DEF Inv, Conversation
    <2> QED BY <2>2, <2>3
  <1> QED BY <1>5, <1>7, <1>12, <1>13, <1>14, <1>15, InvNext

-----------------------------------------------------------------------------
(* Steps that take messages away, and the page opened again.               *)

(* While nothing is generated any message may go.                          *)
LEMMA DropStep ==
    ASSUME Inv, TypeOK', ~isGenerating, UNCHANGED <<stored, net, batch>>,
           \/ messages' = <<>>
           \/ \E i \in 1 .. Len(messages) : messages' = RemoveAt(messages, i)
    PROVE  Inv' /\ FinalKept
  <1> DEFINE n == Len(messages')
  <1>t. messages \in Seq(Message) /\ Len(messages) \in Nat
    BY PageTypes DEF Inv
  <1>1. /\ \A q \in Requests : ~Alive(q)
        /\ \A i \in 1 .. Len(messages) :
             Pending(messages[i]) => messages[i].got \cap late # {}
    BY Idle
  <1>2. late' = late /\ chunks' \subseteq late
    BY Idle DEF batch
  <1>3. UNCHANGED <<conn, source, isRequesting, abortRef, requestId>>
    BY DEF net
  (* The messages that remain, in their order.                             *)
  <1>4. n \in Nat /\ \E k \in Nat : \A j \in 1 .. n :
           /\ (IF j < k THEN j ELSE j + 1) \in 1 .. Len(messages)
           /\ messages'[j] = messages[IF j < k THEN j ELSE j + 1]
    <2>1. CASE messages' = <<>>
      <3>1. n = 0
        BY <2>1, EmptySeq
      <3> QED BY <3>1
    <2>2. ASSUME NEW i \in 1 .. Len(messages), messages' = RemoveAt(messages, i)
          PROVE  n \in Nat /\ \A j \in 1 .. n :
                    /\ (IF j < i THEN j ELSE j + 1) \in 1 .. Len(messages)
                    /\ messages'[j] = messages[IF j < i THEN j ELSE j + 1]
      <3>1. /\ n = Len(messages) - 1
            /\ \A j \in 1 .. Len(messages) - 1 :
                 messages'[j] = messages[IF j < i THEN j ELSE j + 1]
        BY <1>t, <2>2, AllBut
      <3>2. ASSUME NEW j \in 1 .. Len(messages) - 1
            PROVE  (IF j < i THEN j ELSE j + 1) \in 1 .. Len(messages)
        BY <1>t
      <3> HIDE DEF n
      <3> QED BY <1>t, <3>1, <3>2
    <2>3. CASE \E i \in 1 .. Len(messages) : messages' = RemoveAt(messages, i)
      <3>1. PICK i \in 1 .. Len(messages) : messages' = RemoveAt(messages, i)
        BY <2>3
      <3>2. i \in Nat
        BY <1>t
      <3> HIDE DEF n
      <3> QED BY <2>2, <3>1, <3>2
    <2> QED BY <2>1, <2>3
  <1>5. PICK k \in Nat : \A j \in 1 .. n :
           /\ (IF j < k THEN j ELSE j + 1) \in 1 .. Len(messages)
           /\ messages'[j] = messages[IF j < k THEN j ELSE j + 1]
    BY <1>4
  <1> DEFINE at(j) == IF j < k THEN j ELSE j + 1
  <1>6. \A j \in 1 .. n : at(j) \in 1 .. Len(messages) /\ messages'[j] = messages[at(j)]
    BY <1>5
  <1>7. \A i, j \in 1 .. n : at(i) = at(j) => i = j
    BY <1>4
  <1> HIDE DEF n, at
  <1>8. Conversation(messages', conn', late')
    <2>1. ASSUME NEW i \in 1 .. n
          PROVE  /\ messages'[i].got \subseteq {messages'[i].for} \cup late'
                 /\ conn'[messages'[i].for] # "none"
                 /\ Pending(messages'[i]) => messages'[i].got \cap late' # {}
      BY <1>1, <1>2, <1>3, <1>6 DEF Inv, Conversation
    <2>2. ASSUME NEW i \in 1 .. n, NEW j \in 1 .. n,
                 messages'[i].from = messages'[j].from,
                 messages'[i].for = messages'[j].for
          PROVE  i = j
      <3>1. at(i) = at(j)
        BY <1>6, <2>2 DEF Inv, Conversation
      <3> QED BY <1>7, <3>1
    <2> QED BY <2>1, <2>2 DEF Conversation, n
  <1>9. Conversation(stored', conn', late')
    BY <1>2, <1>3 DEF Inv
  <1>10. OneRequest'
    BY <1>3 DEF Inv, OneRequest, Alive
  <1>11. Awaited'
    <2>1. \A q \in Requests : ~Alive(q)'
      BY <1>1, <1>3 DEF Alive
    <2>2. \A i \in 1 .. n :
            Pending(messages'[i]) => messages'[i].got \cap late' # {}
      BY <1>1, <1>2, <1>6
    <2> QED BY <2>1, <2>2 DEF Awaited, n
  <1>12. Chunks'
    BY <1>2 DEF Chunks
  <1>13. FinalKept
    <2> SUFFICES ASSUME NEW i \in 1 .. Len(messages), NEW j \in 1 .. n,
                        KeyOf(messages'[j]) = KeyOf(messages[i])
                 PROVE  messages'[j] = messages[i]
      BY DEF FinalKept, n
    <2>1. at(j) = i
      BY <1>6, SameKey DEF Inv, Conversation
    <2> QED BY <1>6, <2>1
  <1> QED BY <1>8, <1>9, <1>10, <1>11, <1>12, <1>13, InvNext

(* The copy that is loaded has no awaited message left.                    *)
LEMMA OpenStep ==
    ASSUME Inv, TypeOK', OpenPage
    PROVE  Inv'
  <1>1. PICK kept \in {stored, IF saveTimer THEN messages ELSE stored} :
            messages' = loadMessages(kept) /\ stored' = loadMessages(kept)
    BY DEF OpenPage
  <1>2. kept \in Seq(Message) /\ Conversation(kept, conn, late)
    BY PageTypes DEF Inv
  <1>3. /\ chunks' = {} /\ isRequesting' = FALSE /\ late' = late
        /\ conn' = [r \in Requests |-> IF conn[r] = "none" THEN "none" ELSE "over"]
    BY DEF OpenPage
  <1>4. \A q \in Requests : ~Alive(q)' /\ (conn[q] # "none" => conn'[q] # "none")
    BY <1>3 DEF Alive
  <1>5. Conversation(kept, conn', late)
    BY <1>2, <1>4, ConversationKept
  <1> DEFINE ns == loadMessages(kept)
  <1>6. /\ Len(ns) = Len(kept)
        /\ \A i \in 1 .. Len(kept) :
             /\ ns[i].from = kept[i].from /\ ns[i].for = kept[i].for
             /\ ns[i].got = kept[i].got
             /\ ~Pending(ns[i])
    <2>1. \A i \in 1 .. Len(kept) :
            Pending(kept[i]) => i = Len(kept) \/ kept[i].got # {}
      BY <1>2 DEF Conversation
    <2> QED BY <1>2, <2>1, Loaded, SameKey
  <1>n. messages' = ns /\ stored' = ns
    BY <1>1
  <1> HIDE DEF ns
  <1>7. Conversation(ns, conn', late)
    BY <1>5, <1>6 DEF Conversation
  <1>8. OneRequest'
    BY <1>3, <1>4 DEF OneRequest, Alive
  <1>9. Awaited'
    BY <1>n, <1>4, <1>6 DEF Awaited
  <1>10. Chunks'
    BY <1>3 DEF Chunks
  <1> QED BY <1>n, <1>3, <1>7, <1>8, <1>9, <1>10, InvNext

-----------------------------------------------------------------------------
(* Every step.                                                             *)

KeepsFinal ==
    \/ OpenPage
    \/ \A i \in 1 .. Len(messages), j \in 1 .. Len(messages') :
         Final(messages[i]) /\ KeyOf(messages'[j]) = KeyOf(messages[i]) =>
             \/ messages'[j] = messages[i]
             \/ TakesLateText(messages[i], messages'[j])

LEMMA SendMessageStep ==
    ASSUME Inv, TypeOK', handleSendMessage
    PROVE  Inv' /\ FinalKept
  <1> DEFINE r == NextRequest
             ns == messages \o <<UserMessage(r), LoadingMessage(r)>>
  <1>t. messages \in Seq(Message) /\ Len(messages) \in Nat
    BY PageTypes DEF Inv
  <1>1. r \in Requests /\ conn[r] = "none"
    BY Unused DEF handleSendMessage
  <1>2. /\ ns \in Seq(Message) /\ Len(ns) = Len(messages) + 2
        /\ ns[Len(messages) + 1] = UserMessage(r)
        /\ ns[Len(messages) + 2] = LoadingMessage(r)
        /\ \A i \in 1 .. Len(messages) : ns[i] = messages[i]
    BY <1>t, <1>1, NewMessages, AllAndTwo
  <1>3. /\ ~isGenerating /\ sendChat(r)
        /\ UNCHANGED <<stored, batch>> /\ messages' = ns
    BY DEF handleSendMessage, UserReady, Update
  <1> HIDE DEF r, ns
  <1>4. Begins(r, messages')
    BY <1>t, <1>2, <1>3 DEF Begins
  <1> QED BY <1>1, <1>3, <1>4, SendStep

LEMMA ResendStep ==
    ASSUME Inv, TypeOK', NEW k \in 0 .. Len(messages),
           MaySend, ~isGenerating, UNCHANGED <<stored, batch>>,
           messages' = Append(SubSeq(messages, 1, k), LoadingMessage(NextRequest)),
           sendChat(NextRequest)
    PROVE  Inv' /\ FinalKept
  <1> DEFINE r == NextRequest
  <1>t. messages \in Seq(Message) /\ Len(messages) \in Nat
    BY PageTypes DEF Inv
  <1>1. r \in Requests /\ conn[r] = "none"
    BY Unused
  <1>2. /\ messages' \in Seq(Message) /\ Len(messages') = k + 1
        /\ messages'[k + 1] = LoadingMessage(r)
        /\ \A i \in 1 .. k : messages'[i] = messages[i]
    BY <1>t, <1>1, NewMessages, PrefixAnd
  <1>3. sendChat(r)
    OBVIOUS
  <1> HIDE DEF r
  <1>4. Begins(r, messages')
    BY <1>t, <1>2 DEF Begins
  <1> QED BY <1>1, <1>3, <1>4, SendStep

LEMMA UserInv ==
    ASSUME ~BusyEdits, Inv, TypeOK', UserStep
    PROVE  Inv' /\ KeepsFinal
  <1> SUFFICES OpenPage \/ (Inv' /\ FinalKept)
    BY OpenStep DEF KeepsFinal, FinalKept
  <1>1. CASE handleSendMessage
    BY <1>1, SendMessageStep
  <1>2. CASE handleClearMessages
    BY <1>2, DropStep DEF handleClearMessages, UserReady, Update
  <1>3. CASE ToggleStream
    BY <1>3, QuietStep DEF ToggleStream, storage
  <1>4. CASE stopGeneration
    BY <1>4, StopStep
  <1>5. ASSUME NEW i \in 1 .. Len(messages), handleRegenerateMessage(i)
        PROVE  Inv' /\ FinalKept
    <2> DEFINE k == IF messages[i].from = "user" THEN i ELSE i - 1
    <2>1. k \in 0 .. Len(messages)
      BY Kept DEF Inv
    <2>2. /\ MaySend /\ ~isGenerating
          /\ UNCHANGED <<stored, batch>> /\ sendChat(NextRequest)
          /\ messages' = Append(SubSeq(messages, 1, k), LoadingMessage(NextRequest))
      BY <1>5 DEF handleRegenerateMessage, UserReady, Update
    <2> HIDE DEF k
    <2> QED BY <2>1, <2>2, ResendStep
  <1>6. ASSUME NEW i \in 1 .. Len(messages), SaveEditAndSubmit(i)
        PROVE  Inv' /\ FinalKept
    <2>1. i \in 0 .. Len(messages)
      BY Kept DEF Inv
    <2>2. /\ MaySend /\ ~isGenerating
          /\ UNCHANGED <<stored, batch>> /\ sendChat(NextRequest)
          /\ messages' = Append(SubSeq(messages, 1, i), LoadingMessage(NextRequest))
      BY <1>6 DEF SaveEditAndSubmit, MaySave, Update
    <2> QED BY <2>1, <2>2, ResendStep
  <1>7. ASSUME NEW i \in 1 .. Len(messages), handleDeleteMessage(i)
        PROVE  Inv' /\ FinalKept
    BY <1>7, DropStep DEF handleDeleteMessage, UserReady, Update
  <1>8. ASSUME NEW i \in 1 .. Len(messages),
               \/ handleEditMessage(i) \/ Type(i) \/ CancelEdit(i)
               \/ SaveEdit(i)
        PROVE  Inv' /\ FinalKept
    <2>1. UNCHANGED <<messages, stored, net, batch>>
      BY <1>8 DEF handleEditMessage, Type, CancelEdit, SaveEdit, Update, storage
    <2> QED BY <2>1, QuietStep
  <1> QED BY <1>1, <1>2, <1>3, <1>4, <1>5, <1>6, <1>7, <1>8 DEF UserStep

LEMMA InvStep ==
    ASSUME ~BusyEdits, Inv, [Next]_vars
    PROVE  Inv' /\ [KeepsFinal]_vars
  <1>t. TypeOK'
    BY TypeStep DEF Inv
  <1>1. CASE UserStep
    BY <1>t, <1>1, UserInv
  <1>2. ASSUME NEW r \in Requests,
               StreamChunk(r) \/ StreamCloses(r) \/ RequestEnds(r)
        PROVE  Inv' /\ KeepsFinal
    BY <1>t, <1>2, ChunkStep, CloseStep, RequestStep DEF KeepsFinal, FinalKept
  <1>3. CASE flushStreamUpdates
    BY <1>t, <1>3, FlushStep DEF KeepsFinal, FinalKept
  <1>4. CASE SaveTimer
    BY <1>t, <1>4, QuietStep DEF SaveTimer, KeepsFinal, FinalKept
  <1>5. CASE UNCHANGED vars
    <2>1. UNCHANGED <<messages, stored, net, batch>>
      BY <1>5 DEF vars, net, batch
    <2> QED BY <1>t, <1>5, <2>1, QuietStep
  <1> QED BY <1>1, <1>2, <1>3, <1>4, <1>5 DEF Next

LEMMA InitInv == Init => Inv
  <1> SUFFICES ASSUME Init PROVE Inv
    OBVIOUS
  <1>1. messages = <<>> /\ stored = <<>> /\ Len(<<>>) = 0
    BY EmptySeq DEF Init
  <1>2. \A r \in Requests : ~Alive(r)
    BY DEF Init, Alive
  <1>3. Conversation(messages, conn, late) /\ Conversation(stored, conn, late)
    BY <1>1 DEF Conversation
  <1>4. OneRequest
    BY <1>2 DEF Init, OneRequest, Alive
  <1>5. Awaited
    BY <1>1, <1>2 DEF Awaited
  <1>6. Chunks
    BY DEF Init, Chunks
  <1> QED BY <1>3, <1>4, <1>5, <1>6, InitType DEF Inv

LEMMA Invariance ==
    ASSUME ~BusyEdits
    PROVE  Spec => []Inv
  <1>1. Inv /\ [Next]_vars => Inv'
    BY InvStep
  <1> QED BY <1>1, InitInv, PTL DEF Spec

(* No answer shows text of another request, whatever was stopped, failed,  *)
(* regenerated, deleted or reloaded before and however soon the user acts  *)
(* again (use-chat-handler's batch of chunks is not tied to a request),    *)
(* but text that a stream delivered after its own end; and unless an       *)
(* editor left open is used while an answer is awaited (~BusyEdits).       *)
THEOREM AnswersAreOwn ==
    ASSUME ~BusyEdits
    PROVE  Spec => []OwnAnswer
  <1>1. Inv => OwnAnswer
    BY DEF Inv, Conversation, OwnAnswer
  <1> QED BY <1>1, Invariance, PTL

(* No spinner is left behind: an awaited message is the last one and a     *)
(* generation is under way (stopGeneration, handleStreamError,             *)
(* sanitizeMessagesOnLoad), or it took text that a stream delivered after  *)
(* its end; under the same assumption.                                     *)
THEOREM NoStuckAnswer ==
    ASSUME ~BusyEdits
    PROVE  Spec => []PendingIsLive
  <1>1. Inv => PendingIsLive
    <2> SUFFICES ASSUME Inv, NEW i \in 1 .. Len(messages), Pending(messages[i]),
                        messages[i].got \cap late = {}
                 PROVE  i = Len(messages) /\ isGenerating
      BY DEF PendingIsLive
    <2>1. i = Len(messages)
      BY DEF Inv, Conversation
    <2>2. isGenerating
      BY Idle
    <2> QED BY <2>1, <2>2
  <1> QED BY <1>1, Invariance, PTL

(* A completed, stopped or failed answer is never written again by an      *)
(* event or a timer that comes late, with one exception: for text that a   *)
(* stream delivers after its end, applyStreamingChunk reopens a completed  *)
(* answer (never a failed one); under the same assumption.                 *)
THEOREM FinalAnswersStay ==
    ASSUME ~BusyEdits
    PROVE  Spec => FinalStays
  <1>1. Inv /\ [Next]_vars => [KeepsFinal]_vars
    BY InvStep
  <1>2. [][KeepsFinal]_vars => FinalStays
    BY DEF FinalStays, KeepsFinal
  <1> QED BY <1>1, <1>2, Invariance, PTL DEF Spec

=============================================================================
