--------------------------- MODULE LifecycleProofs ---------------------------
(***************************************************************************)
(* The repository and the broker agree from end to end, for every set of   *)
(* messages, every capacity of the client's channel and any faults: IInv   *)
(* of Lifecycle is inductive.                                              *)
(***************************************************************************)
EXTENDS Lifecycle, SequenceTheorems, TLAPS

-----------------------------------------------------------------------------
(***************************************************************************)
(* Sequences without repetition.                                           *)
(***************************************************************************)

\* A concatenation repeats nothing if neither part does and they share nothing.
LEMMA ConcatInjective ==
  ASSUME NEW S, NEW s \in Seq(S), NEW t \in Seq(S)
  PROVE  IsInjective(s \o t)
           <=> IsInjective(s) /\ IsInjective(t) /\ Range(s) \cap Range(t) = {}
<1> DEFINE u == s \o t
<1>1. /\ Len(s) \in Nat /\ DOMAIN s = 1 .. Len(s)
      /\ Len(t) \in Nat /\ DOMAIN t = 1 .. Len(t)
  BY LenProperties
<1>2. /\ DOMAIN u = 1 .. Len(s) + Len(t)
      /\ \A i \in 1 .. Len(s) : u[i] = s[i]
      /\ \A i \in 1 .. Len(t) : u[Len(s) + i] = t[i]
  <2>1. /\ u \in Seq(S)
        /\ Len(u) = Len(s) + Len(t)
        /\ \A i \in 1 .. Len(s) + Len(t) :
             u[i] = IF i <= Len(s) THEN s[i] ELSE t[i - Len(s)]
    BY ConcatProperties
  <2>2. DOMAIN u = 1 .. Len(s) + Len(t)
    BY <2>1, LenProperties
  <2> QED
    BY <1>1, <2>1, <2>2
<1> HIDE DEF u
<1>3. ASSUME IsInjective(u)
      PROVE  IsInjective(s) /\ IsInjective(t) /\ Range(s) \cap Range(t) = {}
  <2>1. IsInjective(s)
    BY <1>1, <1>2, <1>3 DEF IsInjective
  <2>2. ASSUME NEW i \in 1 .. Len(t), NEW j \in 1 .. Len(t), t[i] = t[j]
        PROVE  i = j
    <3>1. /\ Len(s) + i \in DOMAIN u
          /\ Len(s) + j \in DOMAIN u
          /\ u[Len(s) + i] = u[Len(s) + j]
      BY <1>1, <1>2, <2>2
    <3>2. Len(s) + i = Len(s) + j
      BY <1>3, <3>1 DEF IsInjective
    <3> QED
      BY <1>1, <3>2
  <2>3. ASSUME NEW i \in 1 .. Len(s), NEW j \in 1 .. Len(t), s[i] = t[j]
        PROVE  FALSE
    <3>1. /\ i \in DOMAIN u
          /\ Len(s) + j \in DOMAIN u
          /\ u[i] = u[Len(s) + j]
      BY <1>1, <1>2, <2>3
    <3>2. i = Len(s) + j
      BY <1>3, <3>1 DEF IsInjective
    <3> QED
      BY <1>1, <3>2
  <2>4. IsInjective(t)
    BY <1>1, <2>2 DEF IsInjective
  <2>5. Range(s) \cap Range(t) = {}
    BY <1>1, <2>3 DEF Range
  <2> QED
    BY <2>1, <2>4, <2>5
<1>4. ASSUME IsInjective(s), IsInjective(t), Range(s) \cap Range(t) = {}
      PROVE  IsInjective(u)
  <2> SUFFICES ASSUME NEW i \in DOMAIN u, NEW j \in DOMAIN u, u[i] = u[j]
               PROVE  i = j
    BY DEF IsInjective
  <2>1. \A k \in DOMAIN u :
          \/ k \in 1 .. Len(s) /\ u[k] = s[k]
          \/ /\ k - Len(s) \in 1 .. Len(t)
             /\ u[k] = t[k - Len(s)]
             /\ k = Len(s) + (k - Len(s))
    <3> SUFFICES ASSUME NEW k \in DOMAIN u, k \notin 1 .. Len(s)
                 PROVE  /\ k - Len(s) \in 1 .. Len(t)
                        /\ u[k] = t[k - Len(s)]
                        /\ k = Len(s) + (k - Len(s))
      BY <1>2
    <3>1. /\ k - Len(s) \in 1 .. Len(t)
          /\ k = Len(s) + (k - Len(s))
      BY <1>1, <1>2
    <3> QED
      BY <1>2, <3>1
  <2>2. \A k \in 1 .. Len(s), l \in 1 .. Len(t) : s[k] # t[l]
    BY <1>1, <1>4 DEF Range
  <2>3. /\ \A k, l \in 1 .. Len(s) : s[k] = s[l] => k = l
        /\ \A k, l \in 1 .. Len(t) : t[k] = t[l] => k = l
    BY <1>1, <1>4 DEF IsInjective
  <2>4. i \in Int /\ j \in Int
    BY <1>1, <1>2
  <2> QED
    BY <1>1, <2>1, <2>2, <2>3, <2>4
<1> QED
  BY <1>3, <1>4 DEF u

\* An element at the end.
LEMMA AppendDistinct ==
  ASSUME NEW S, NEW s \in Seq(S), NEW x \in S
  PROVE  /\ Append(s, x) \in Seq(S)
         /\ Range(Append(s, x)) = Range(s) \cup {x}
         /\ IsInjective(Append(s, x)) <=> IsInjective(s) /\ x \notin Range(s)
<1> DEFINE t == <<x>>
<1>1. /\ t \in Seq(S)
      /\ Range(t) = {x}
      /\ IsInjective(t)
  BY DEF Range, IsInjective
<1>2. Append(s, x) = s \o t
  BY AppendIsConcat
<1>3. Append(s, x) \in Seq(S)
  BY AppendProperties
<1> HIDE DEF t
<1> QED
  BY <1>1, <1>2, <1>3, ConcatInjective, RangeConcatenation

\* An element at the front.
LEMMA TailDistinct ==
  ASSUME NEW S, NEW s \in Seq(S), s # <<>>
  PROVE  /\ Head(s) \in S
         /\ Tail(s) \in Seq(S)
         /\ Range(s) = Range(Tail(s)) \cup {Head(s)}
         /\ IsInjective(s) <=>
              IsInjective(Tail(s)) /\ Head(s) \notin Range(Tail(s))
<1> DEFINE h == <<Head(s)>>
<1>1. Head(s) \in S /\ Tail(s) \in Seq(S)
  BY HeadTailProperties
<1>2. /\ h \in Seq(S)
      /\ Range(h) = {Head(s)}
      /\ IsInjective(h)
  BY <1>1 DEF Range, IsInjective
<1>3. s = h \o Tail(s)
  <2>1. Len(s) \in Nat \ {0}
    BY EmptySeq
  <2>2. Len(Tail(s)) = Len(s) - 1
        /\ \A i \in 1 .. Len(Tail(s)) : Tail(s)[i] = s[i + 1]
    BY HeadTailProperties
  <2>3. /\ h \o Tail(s) \in Seq(S)
        /\ Len(h \o Tail(s)) = Len(h) + Len(Tail(s))
        /\ \A i \in 1 .. Len(h) + Len(Tail(s)) :
             (h \o Tail(s))[i] = IF i <= Len(h) THEN h[i] ELSE Tail(s)[i - Len(h)]
    BY <1>1, <1>2, ConcatProperties
  <2>4. Len(h) = 1 /\ h[1] = s[1]
    BY <2>1
  <2> HIDE DEF h
  <2>5. Len(h \o Tail(s)) = Len(s)
    BY <2>1, <2>2, <2>3, <2>4
  <2>6. \A i \in 1 .. Len(s) : s[i] = (h \o Tail(s))[i]
    BY <2>1, <2>2, <2>3, <2>4
  <2> QED
    BY <2>3, <2>5, <2>6, SeqEqual
<1> DEFINE t == Tail(s)
<1>4. s = h \o t /\ t \in Seq(S) /\ h \in Seq(S)
  BY <1>1, <1>2, <1>3
<1> HIDE DEF h, t
<1>5. IsInjective(h \o t) <=>
        IsInjective(h) /\ IsInjective(t) /\ Range(h) \cap Range(t) = {}
  BY <1>4, ConcatInjective, Zenon
<1>6. Range(h \o t) = Range(h) \cup Range(t)
  BY <1>4, RangeConcatenation, Zenon
<1>7. /\ Range(s) = Range(t) \cup {Head(s)}
      /\ IsInjective(s) <=> IsInjective(t) /\ Head(s) \notin Range(t)
  <2> DEFINE u == h \o t
  <2>1. s = u
    BY <1>4
  <2>2. Range(h) \cap Range(t) = {} <=> Head(s) \notin Range(t)
    BY <1>2
  <2> HIDE DEF u
  <2>3. /\ Range(u) = Range(h) \cup Range(t)
        /\ IsInjective(u) <=> IsInjective(t) /\ Head(s) \notin Range(t)
    BY <1>2, <1>5, <1>6, <2>2 DEF u
  <2> QED
    BY <1>2, <2>1, <2>3
<1> QED
  BY <1>1, <1>7 DEF t

\* Three in a row, the parts of the pipeline.
Distinct3(r, w, c) ==
  /\ IsInjective(r) /\ IsInjective(w) /\ IsInjective(c)
  /\ Range(r) \cap Range(w) = {}
  /\ Range(r) \cap Range(c) = {}
  /\ Range(w) \cap Range(c) = {}

\* A pipeline repeats nothing if no part does and no two share a message.
LEMMA ThreeParts ==
  ASSUME NEW S, NEW r \in Seq(S), NEW w \in Seq(S), NEW c \in Seq(S)
  PROVE  /\ Range(r \o w \o c) = Range(r) \cup Range(w) \cup Range(c)
         /\ IsInjective(r \o w \o c) <=> Distinct3(r, w, c)
<1> DEFINE u == r \o w
<1>1. /\ u \in Seq(S)
      /\ Range(u) = Range(r) \cup Range(w)
      /\ IsInjective(u) <=>
           IsInjective(r) /\ IsInjective(w) /\ Range(r) \cap Range(w) = {}
  BY ConcatProperties, RangeConcatenation, ConcatInjective
<1> HIDE DEF u
<1>2. /\ Range(u \o c) = Range(u) \cup Range(c)
      /\ IsInjective(u \o c) <=>
           IsInjective(u) /\ IsInjective(c) /\ Range(u) \cap Range(c) = {}
  BY <1>1, RangeConcatenation, ConcatInjective
<1>3. Range(u) \cap Range(c) = {} <=>
        Range(r) \cap Range(c) = {} /\ Range(w) \cap Range(c) = {}
  BY <1>1
<1>4. /\ Range(u \o c) = Range(r) \cup Range(w) \cup Range(c)
      /\ IsInjective(u \o c) <=> Distinct3(r, w, c)
  BY <1>1, <1>2, <1>3 DEF Distinct3
<1> QED
  BY <1>4 DEF u

-----------------------------------------------------------------------------
(***************************************************************************)
(* The client of NATS: what it does to the messages on their way.          *)
(***************************************************************************)

Published == Range(Pipeline) \cup lost

\* No message is at two places.
Apart == IsInjective(Pipeline) /\ Range(Pipeline) \cap lost = {}

InParts == Range(received) \cup Range(wire) \cup Range(channel)

PartsApart == Distinct3(received, wire, channel) /\ InParts \cap lost = {}

\* The same, said of the parts.
LEMMA InPartsIs ==
  ASSUME NatsTypeOK
  PROVE  /\ Published = InParts \cup lost
         /\ Apart <=> PartsApart
BY ThreeParts DEF NatsTypeOK, Published, Apart, PartsApart, InParts, Pipeline

\* And after a step.
LEMMA InPartsIsNext ==
  ASSUME NatsTypeOK'
  PROVE  /\ Published' = InParts' \cup lost'
         /\ Apart' <=> PartsApart'
BY ThreeParts DEF NatsTypeOK, Published, Apart, PartsApart, InParts, Pipeline

\* Nothing on its way is lost sight of, and nothing gets there twice.
KeepsPublished == NatsTypeOK' /\ Apart' /\ Published' = Published

\* The connection alone may change.
LEMMA NothingMoves ==
  ASSUME NatsTypeOK, Apart, UNCHANGED <<channel, wire, received, lost>>,
         connection' \in {"none", "up", "down"}
  PROVE  KeepsPublished
BY DEF NatsTypeOK, Apart, Published, Pipeline, KeepsPublished

\* The task of the client writes: the channel gives to the wire.
LEMMA WriteKeeps ==
  ASSUME NatsTypeOK, Apart, Write
  PROVE  KeepsPublished
<1>1. channel \in Seq(Messages) /\ channel # <<>> /\ wire \in Seq(Messages)
  BY DEF Write, NatsTypeOK
<1>2. /\ channel' = Tail(channel) /\ wire' = Append(wire, Head(channel))
      /\ UNCHANGED <<connection, received, lost>>
  BY DEF Write
<1>3. /\ Head(channel) \in Messages
      /\ channel' \in Seq(Messages)
      /\ Range(channel) = Range(channel') \cup {Head(channel)}
      /\ IsInjective(channel) <=>
           IsInjective(channel') /\ Head(channel) \notin Range(channel')
  BY <1>1, <1>2, TailDistinct
<1>4. /\ wire' \in Seq(Messages)
      /\ Range(wire') = Range(wire) \cup {Head(channel)}
      /\ IsInjective(wire') <=>
           IsInjective(wire) /\ Head(channel) \notin Range(wire)
  BY <1>1, <1>2, <1>3, AppendDistinct
<1>5. Len(channel') <= ChannelCapacity
  BY <1>1, <1>2, HeadTailProperties, LenProperties, ChannelAssumption
     DEF NatsTypeOK
<1>6. NatsTypeOK'
  BY <1>2, <1>3, <1>4, <1>5 DEF NatsTypeOK
<1>7. InParts' = InParts
  BY <1>2, <1>3, <1>4 DEF InParts
<1>8. PartsApart'
  BY <1>2, <1>3, <1>4, <1>7, InPartsIs DEF PartsApart, Distinct3
<1> QED
  BY <1>2, <1>6, <1>7, <1>8, InPartsIs, InPartsIsNext DEF KeepsPublished

\* The broker receives: the wire gives to what is received.
LEMMA ReceiveKeeps ==
  ASSUME NatsTypeOK, Apart, Receive
  PROVE  KeepsPublished
<1>1. wire \in Seq(Messages) /\ wire # <<>> /\ received \in Seq(Messages)
  BY DEF Receive, NatsTypeOK
<1>2. /\ wire' = Tail(wire) /\ received' = Append(received, Head(wire))
      /\ UNCHANGED <<connection, channel, lost>>
  BY DEF Receive
<1>3. /\ Head(wire) \in Messages
      /\ wire' \in Seq(Messages)
      /\ Range(wire) = Range(wire') \cup {Head(wire)}
      /\ IsInjective(wire) <=>
           IsInjective(wire') /\ Head(wire) \notin Range(wire')
  BY <1>1, <1>2, TailDistinct
<1>4. /\ received' \in Seq(Messages)
      /\ Range(received') = Range(received) \cup {Head(wire)}
      /\ IsInjective(received') <=>
           IsInjective(received) /\ Head(wire) \notin Range(received)
  BY <1>1, <1>2, <1>3, AppendDistinct
<1>5. NatsTypeOK'
  BY <1>2, <1>3, <1>4 DEF NatsTypeOK
<1>6. InParts' = InParts
  BY <1>2, <1>3, <1>4 DEF InParts
<1>7. PartsApart'
  BY <1>2, <1>3, <1>4, <1>6, InPartsIs DEF PartsApart, Distinct3
<1> QED
  BY <1>2, <1>5, <1>6, <1>7, InPartsIs, InPartsIsNext DEF KeepsPublished

\* An empty sequence has nothing to repeat.
LEMMA EmptyIsDistinct ==
  ASSUME NEW S
  PROVE  <<>> \in Seq(S) /\ Len(<<>>) = 0 /\ Range(<<>>) = {}
         /\ IsInjective(<<>>)
<1>1. <<>> \in Seq(S) /\ Len(<<>>) = 0
  BY EmptySeq
<1>2. DOMAIN <<>> = {}
  OBVIOUS
<1> QED
  BY <1>1, <1>2 DEF Range, IsInjective

\* What is dropped from the wire or the channel is lost.
LEMMA DropKeeps ==
  ASSUME NatsTypeOK, Apart,
         connection' \in {"none", "up", "down"}, UNCHANGED received,
         wire' \in {wire, <<>>}, channel' \in {channel, <<>>},
         lost' = lost \cup (IF wire' = wire THEN {} ELSE Range(wire))
                      \cup (IF channel' = channel THEN {} ELSE Range(channel))
  PROVE  KeepsPublished
<1>1. PartsApart /\ Published = InParts \cup lost
  BY InPartsIs
<1>2. /\ wire \in Seq(Messages) /\ channel \in Seq(Messages)
      /\ received \in Seq(Messages) /\ lost \subseteq Messages
      /\ Range(wire) \subseteq Messages /\ Range(channel) \subseteq Messages
  BY RangeOfSeq DEF NatsTypeOK
<1>3. /\ wire' \in Seq(Messages) /\ channel' \in Seq(Messages)
      /\ Len(channel') <= ChannelCapacity
      /\ lost' \subseteq Messages
  <2>1. wire' \in Seq(Messages) /\ channel' \in Seq(Messages)
    BY <1>2, EmptyIsDistinct
  <2>2. Len(channel') <= ChannelCapacity
    BY EmptyIsDistinct, ChannelAssumption DEF NatsTypeOK
  <2>3. lost' \subseteq Messages
    BY <1>2
  <2> QED
    BY <2>1, <2>2, <2>3
<1>4. NatsTypeOK'
  <2>1. received' \in Seq(Messages)
    BY <1>2
  <2> QED
    BY <1>3, <2>1 DEF NatsTypeOK
<1>5. /\ wire' # wire => Range(wire') = {} /\ IsInjective(wire')
      /\ channel' # channel => Range(channel') = {} /\ IsInjective(channel')
  BY EmptyIsDistinct
<1>6. InParts' \cup lost' = InParts \cup lost
  BY <1>5 DEF InParts
<1>7. PartsApart'
  BY <1>1, <1>5 DEF PartsApart, Distinct3, InParts
<1> QED
  BY <1>1, <1>4, <1>6, <1>7, InPartsIsNext DEF KeepsPublished

\* A connection that breaks loses what is on the wire.
LEMMA BreakKeeps ==
  ASSUME NatsTypeOK, Apart, Break
  PROVE  KeepsPublished
<1>1. /\ connection' = "down" /\ wire' = <<>> /\ lost' = lost \cup Range(wire)
      /\ UNCHANGED <<channel, received>>
  BY DEF Break
<1>2. wire = <<>> => Range(wire) = {}
  BY EmptyIsDistinct
<1> QED
  BY <1>1, <1>2, DropKeeps

\* A process that ends loses its channel, and perhaps what is on the wire.
LEMMA DisconnectKeeps ==
  ASSUME NatsTypeOK, Apart, Disconnect
  PROVE  KeepsPublished
<1>1. /\ connection' = "none" /\ channel' = <<>> /\ UNCHANGED received
      /\ \/ wire' = wire /\ lost' = lost \cup Range(channel)
         \/ wire' = <<>> /\ lost' = lost \cup Range(wire) \cup Range(channel)
  BY DEF Disconnect
<1>2. /\ wire = <<>> => Range(wire) = {}
      /\ channel = <<>> => Range(channel) = {}
  BY EmptyIsDistinct
<1> QED
  BY <1>1, <1>2, DropKeeps

\* A message that is published now was not.
LEMMA PublishAdds ==
  ASSUME NatsTypeOK, Apart, NEW m \in Messages, m \notin Published, Publish(m)
  PROVE  NatsTypeOK' /\ Apart' /\ Published' = Published \cup {m}
<1>1. /\ channel' = Append(channel, m) /\ Len(channel) < ChannelCapacity
      /\ UNCHANGED <<connection, wire, received, lost>>
  BY DEF Publish
<1>2. channel \in Seq(Messages)
  BY DEF NatsTypeOK
<1>3. /\ channel' \in Seq(Messages)
      /\ Range(channel') = Range(channel) \cup {m}
      /\ IsInjective(channel') <=> IsInjective(channel) /\ m \notin Range(channel)
  BY <1>1, <1>2, AppendDistinct
<1>4. Len(channel') <= ChannelCapacity
  BY <1>1, <1>2, AppendProperties, LenProperties, ChannelAssumption
<1>5. NatsTypeOK'
  BY <1>1, <1>3, <1>4 DEF NatsTypeOK
<1>6. InParts' = InParts \cup {m}
  BY <1>1, <1>3 DEF InParts
<1>7. PartsApart'
  BY <1>1, <1>3, <1>6, InPartsIs DEF PartsApart, Distinct3, InParts
<1> QED
  BY <1>1, <1>5, <1>6, <1>7, InPartsIs, InPartsIsNext

-----------------------------------------------------------------------------
(***************************************************************************)
(* Parts of the invariant.                                                 *)
(***************************************************************************)

\* load_config returns a Config or an error.
LEMMA LoadedType ==
  ASSUME NEW file \in File \cup {Malformed},
         NEW password \in Passwords \cup {Absent}
  PROVE  Loaded(file, password) \in Config \cup {NoConfig}
<1> SUFFICES ASSUME IsParsed(file), password # Absent, IsDerivable(file),
                    IsValid(Derived(file, password))
             PROVE  Derived(file, password) \in Config
  BY DEF Loaded
<1>1. /\ file \in File /\ password \in Passwords
      /\ \A field \in DOMAIN file : file[field] # Absent
  BY DEF IsParsed
<1>2. /\ file.automigrate \in BOOLEAN
      /\ file.reset_state \in BOOLEAN
      /\ file.repository \in Repositories
      /\ file.log_level \in LogLevels
      /\ file.clock_cycle_interval \in Nat
  BY <1>1 DEF File, IsDerivable
<1> DEFINE r == IF file.repository = "Postgres"
                THEN [kind |-> "Postgres", password |-> password]
                ELSE [kind |-> "InMemory"]
<1>3. r \in [kind : {"Postgres"}, password : Passwords]
              \cup [kind : {"InMemory"}]
  BY <1>1
<1>4. Derived(file, password) =
        [automigrate |-> file.automigrate, reset_state |-> file.reset_state,
         log_level |-> file.log_level,
         clock_cycle_interval |-> file.clock_cycle_interval,
         repository |-> r]
  BY <1>1 DEF Derived, File
<1> HIDE DEF r
<1>5. file.clock_cycle_interval # 0
  BY <1>4 DEF IsValid
<1> QED
  BY <1>2, <1>3, <1>4, <1>5 DEF Config

\* OnePlace, but for what it says of rows that look due: DueMatches says more.
Agrees ==
  \A m \in Messages :
    /\ rows[m] = "sent" => m \in Published
    /\ rows[m] = "never" => m \notin Published

\* What the invariant says, in terms of what is published.
LEMMA IInvGives ==
  ASSUME IInv
  PROVE  /\ TypeOK /\ NatsTypeOK /\ PhasesMatch /\ Apart /\ Agrees
         /\ Running =>
              /\ current \notin batch
              /\ \A m \in batch \cup ({current} \ {None}) :
                   /\ rows[m] = HeldRow
                   /\ m \in Published <=> m = current /\ scheduler = "save"
         /\ \A m \in Messages :
              rows[m] = "due" /\ m \in Published =>
                /\ Running
                /\ ~IsPostgres
                /\ scheduler = "dead" \/ (scheduler = "save" /\ current = m)
BY DEF IInv, OnePlace, TypeOK, HeldMatches, DueMatches, Apart, Agrees,
   Published, MayBePublished

\* And what is enough for it after a step.
LEMMA IInvFrom ==
  ASSUME TypeOK', PhasesMatch', Apart', Agrees',
         Running' =>
           /\ current' \notin batch'
           /\ \A m \in batch' \cup ({current'} \ {None}) :
                /\ rows'[m] = HeldRow'
                /\ m \in Published' <=> m = current' /\ scheduler' = "save",
         \A m \in Messages :
           rows'[m] = "due" /\ m \in Published' =>
             /\ Running'
             /\ ~IsPostgres'
             /\ scheduler' = "dead" \/ (scheduler' = "save" /\ current' = m)
  PROVE  IInv'
<1>1. HeldMatches'
  BY DEF HeldMatches, Published
<1>2. DueMatches'
  BY DEF DueMatches, Published
<1>3. OnePlace'
  <2>1. \A m \in Messages :
          /\ rows'[m] = "sent" => m \in Published'
          /\ m \in Published' => MayBePublished(m)'
    BY DEF Agrees, MayBePublished, TypeOK
  <2> QED
    BY <2>1 DEF OnePlace, Apart, Published
<1> QED
  BY <1>1, <1>2, <1>3 DEF IInv

\* A fault stays within its bound.
LEMMA FaultType ==
  ASSUME faults \in 0 .. MaxFaults, disturbed \in BOOLEAN,
         NEW kind, Fault(kind)
  PROVE  faults' \in 0 .. MaxFaults /\ disturbed' \in BOOLEAN
BY LifecycleAssumption DEF Fault

\* The invariant holds of the first start.
LEMMA InitIInv == Init => IInv
<1> SUFFICES ASSUME Init PROVE IInv
  OBVIOUS
<1>1. /\ channel = <<>> /\ wire = <<>> /\ received = <<>> /\ lost = {}
      /\ connection = "none"
  BY DEF Init, NatsInit
<1>2. NatsTypeOK
  BY <1>1, EmptyIsDistinct, ChannelAssumption DEF NatsTypeOK
<1>3. Range(channel) = {} /\ Range(wire) = {} /\ Range(received) = {}
      /\ IsInjective(channel) /\ IsInjective(wire) /\ IsInjective(received)
  BY <1>1, EmptyIsDistinct
<1>4. Apart /\ Published = {}
  BY <1>1, <1>2, <1>3, InPartsIs DEF PartsApart, Distinct3, InParts
<1>5. TypeOK
  <2>1. faults \in 0 .. MaxFaults /\ disturbed = FALSE
    BY LifecycleAssumption DEF Init
  <2>2. rows \in [Messages -> {"never", "due", "locked", "sent", "gone"}]
    BY DEF Init
  <2>3. /\ main \in MainPhases /\ scheduler \in SchedulerPhases
        /\ exit = "none" /\ config = NoConfig /\ token = FALSE
        /\ signalled = FALSE /\ batch = {} /\ current = None /\ grpc = "none"
        /\ deployment \in Deployments
    BY DEF Init, MainPhases, SchedulerPhases
  <2> QED
    BY <1>2, <2>1, <2>2, <2>3 DEF TypeOK
<1>6. OnePlace
  BY <1>4 DEF Init, OnePlace, Apart, Published
<1>7. PhasesMatch /\ HeldMatches /\ DueMatches
  BY DEF Init, PhasesMatch, HeldMatches, DueMatches
<1> QED
  BY <1>5, <1>6, <1>7 DEF IInv

-----------------------------------------------------------------------------
(***************************************************************************)
(* Steps that leave the scheduler's data alone, or find it holding nothing.*)
(***************************************************************************)

\* A step that touches neither rows nor what the scheduler holds.
LEMMA QuietStep ==
  ASSUME IInv, TypeOK', PhasesMatch', KeepsPublished, Running' = Running,
         UNCHANGED <<config, scheduler, batch, current, rows>>
  PROVE  IInv'
<1>1. HeldRow' = HeldRow /\ IsPostgres' = IsPostgres
  BY DEF HeldRow, IsPostgres
<1>2. Agrees'
  BY IInvGives DEF Agrees, KeepsPublished
<1>3. Apart' /\ Published' = Published
  BY DEF KeepsPublished
<1>4. Running' =>
        /\ current' \notin batch'
        /\ \A m \in batch' \cup ({current'} \ {None}) :
             /\ rows'[m] = HeldRow'
             /\ m \in Published' <=> m = current' /\ scheduler' = "save"
  BY <1>1, <1>3, IInvGives
<1>5. \A m \in Messages :
        rows'[m] = "due" /\ m \in Published' =>
          /\ Running'
          /\ ~IsPostgres'
          /\ scheduler' = "dead" \/ (scheduler' = "save" /\ current' = m)
  BY <1>1, <1>3, IInvGives
<1> QED
  BY <1>2, <1>3, <1>4, <1>5, IInvFrom

\* A step after which the scheduler holds nothing.
LEMMA IdleStep ==
  ASSUME IInv, TypeOK', PhasesMatch', KeepsPublished,
         batch' = {}, current' = None,
         \A m \in Messages : rows[m] = "due" => m \notin Published,
         \A m \in Messages : \/ rows'[m] = rows[m]
                             \/ /\ rows'[m] \in {"locked", "gone"}
                                /\ rows[m] # "never"
  PROVE  IInv'
<1>1. Apart' /\ Published' = Published
  BY DEF KeepsPublished
<1>2. Agrees'
  BY <1>1, IInvGives DEF Agrees
<1>3. \A m \in Messages : ~(rows'[m] = "due" /\ m \in Published')
  BY <1>1
<1> QED
  BY <1>1, <1>2, <1>3, IInvFrom

\* A step that leaves the client alone.
LEMMA NatsUnchanged == ASSUME IInv, UNCHANGED natsVars PROVE KeepsPublished
<1>1. NatsTypeOK /\ Apart
  BY IInvGives
<1>2. connection' \in {"none", "up", "down"}
  BY <1>1 DEF natsVars, NatsTypeOK
<1>3. UNCHANGED <<channel, wire, received, lost>>
  BY DEF natsVars
<1> QED
  BY <1>1, <1>2, <1>3, NothingMoves

\* The client of NATS, its task and the broker.
LEMMA NatsStepKeeps ==
  ASSUME IInv, NatsStep \/ ConnectionBreaks
  PROVE  IInv'
<1> USE DEF mainVars, taskVars, faultVars
<1>1. /\ UNCHANGED <<main, mainVars, scheduler, taskVars, grpc>>
      /\ faults' \in 0 .. MaxFaults /\ disturbed' \in BOOLEAN
  BY FaultType DEF NatsStep, ConnectionBreaks, IInv, TypeOK
<1>2. KeepsPublished
  <2>1. NatsTypeOK /\ Apart
    BY IInvGives
  <2>2. CASE Reconnect
    BY <2>1, <2>2, NothingMoves DEF Reconnect
  <2> QED
    BY <2>1, <2>2, WriteKeeps, ReceiveKeeps, BreakKeeps
       DEF NatsStep, ConnectionBreaks
<1>3. TypeOK'
  BY <1>1, <1>2 DEF IInv, TypeOK, KeepsPublished
<1>4. PhasesMatch'
  BY <1>1 DEF IInv, PhasesMatch
<1> QED
  BY <1>1, <1>2, <1>3, <1>4, QuietStep DEF Running

\* Tasks that neither hold messages nor touch rows.
LEMMA OtherTaskStep ==
  ASSUME IInv,
         \/ Bind \/ BindFails \/ SeesToken \/ Signal
         \/ ConnectToNats \/ ConnectToDatabase \/ Migrate
         \/ ListenForSignals \/ Cancel
  PROVE  IInv'
<1> USE DEF mainVars, taskVars, faultVars, natsVars
<1>1. /\ UNCHANGED <<deployment, exit, config, scheduler, batch, current, rows>>
      /\ faults' \in 0 .. MaxFaults /\ disturbed' \in BOOLEAN
      /\ token' \in BOOLEAN /\ signalled' \in BOOLEAN
      /\ grpc' \in {"none", "starting", "serving", "over"}
  <2>1. CASE Bind \/ BindFails \/ SeesToken
    BY <2>1, FaultType DEF Bind, BindFails, SeesToken, Serves, IInv, TypeOK
  <2>2. CASE Signal
    BY <2>2, FaultType DEF Signal, IInv, TypeOK
  <2>3. CASE \/ ConnectToNats \/ ConnectToDatabase \/ Migrate
             \/ ListenForSignals \/ Cancel
    BY <2>3 DEF ConnectToNats, ConnectToDatabase, Migrate, ListenForSignals,
       Cancel, Advance, IInv, TypeOK
  <2> QED
    BY <2>1, <2>2, <2>3
<1>2. KeepsPublished
  <2>1. NatsTypeOK /\ Apart
    BY IInvGives
  <2>2. /\ UNCHANGED <<channel, wire, received, lost>>
        /\ connection' \in {"none", "up", "down"}
    BY <2>1 DEF Bind, BindFails, SeesToken, Serves, Signal, ConnectToNats,
       Connect, ConnectToDatabase, Migrate, ListenForSignals, Cancel,
       NatsTypeOK
  <2> QED
    BY <2>1, <2>2, NothingMoves
<1>3. \/ main' = main
      \/ /\ main \in {"nats", "repository", "migrate"} /\ scheduler = "none"
         /\ main' \in {"repository", "migrate", "reset", "spawn"}
      \/ main \in {"listen", "waiting"} /\ main' \in {"waiting", "stopping"}
  BY DEF Bind, BindFails, SeesToken, Serves, Signal, ConnectToNats,
     ConnectToDatabase, AfterConnect, AfterMigrate, Migrate,
     ListenForSignals, Cancel, Advance, IInv, PhasesMatch
<1>4. TypeOK'
  <2>1. main' \in MainPhases
    BY <1>3 DEF IInv, TypeOK, MainPhases
  <2> QED
    BY <1>1, <1>2, <2>1 DEF IInv, TypeOK, KeepsPublished
<1>5. PhasesMatch'
  BY <1>1, <1>3 DEF IInv, PhasesMatch
<1>6. Running' = Running
  BY <1>3 DEF Running
<1> QED
  BY <1>1, <1>2, <1>4, <1>5, <1>6, QuietStep

\* Where nothing is in the hands of the scheduler, what looks due is not out.
LEMMA DueIsNotOut ==
  ASSUME IInv, scheduler \notin {"save", "dead"} \/ ~Running
  PROVE  \A m \in Messages : rows[m] = "due" => m \notin Published
BY IInvGives

\* load_config returns, and main goes on.
LEMMA LoadStep == ASSUME IInv, Load PROVE IInv'
<1> USE DEF mainVars, taskVars, faultVars
<1>1. /\ main = "load" /\ main' = "nats"
      /\ config' = Loaded(deployment.file, deployment.password)
      /\ config' # NoConfig
      /\ UNCHANGED <<deployment, exit, token, signalled, scheduler, batch,
                     current, grpc, rows, natsVars, faultVars>>
  BY DEF Load, Advance
<1>2. scheduler = "none" /\ batch = {} /\ current = None
  BY <1>1 DEF IInv, PhasesMatch
<1>3. KeepsPublished
  BY <1>1, NatsUnchanged
<1>4. config' \in Config \cup {NoConfig}
  BY <1>1, LoadedType, LifecycleAssumption DEF IInv, TypeOK
<1>5. TypeOK'
  BY <1>1, <1>3, <1>4 DEF IInv, TypeOK, MainPhases, KeepsPublished
<1>6. PhasesMatch'
  BY <1>1, <1>2 DEF IInv, PhasesMatch
<1> QED
  BY <1>1, <1>2, <1>3, <1>5, <1>6, DueIsNotOut, IdleStep

\* clear_all, and the end of memory: nothing scheduled looks due any more.
LEMMA ForgottenType ==
  ASSUME TypeOK
  PROVE  /\ Forgotten \in [Messages -> {"never", "due", "locked", "sent", "gone"}]
         /\ \A m \in Messages : \/ Forgotten[m] = rows[m]
                                \/ Forgotten[m] = "gone" /\ rows[m] # "never"
<1>1. Forgotten \in [Messages -> {"never", "due", "locked", "sent", "gone"}]
  BY DEF Forgotten
<1>2. \A m \in Messages : \/ Forgotten[m] = rows[m]
                          \/ Forgotten[m] = "gone" /\ rows[m] # "never"
  BY DEF Forgotten
<1> QED
  BY <1>1, <1>2

\* clear_all, and the tasks being spawned.
LEMMA ResetSpawnStep == ASSUME IInv, Reset \/ Spawn PROVE IInv'
<1> USE DEF mainVars, taskVars, faultVars
<1>1. /\ main \in {"reset", "spawn"} /\ main' \in {"spawn", "listen"}
      /\ scheduler' \in {"none", "poll"}
      /\ scheduler' = "poll" => main' = "listen"
      /\ grpc' \in {grpc, "starting"}
      /\ rows' \in {rows, Forgotten}
      /\ UNCHANGED <<deployment, exit, config, token, signalled, batch,
                     current, natsVars, faultVars>>
  BY DEF Reset, Spawn, Advance, IInv, PhasesMatch
<1>2. scheduler = "none" /\ batch = {} /\ current = None
  BY <1>1 DEF IInv, PhasesMatch
<1>3. KeepsPublished
  BY <1>1, NatsUnchanged
<1>4. TypeOK'
  BY <1>1, <1>3, ForgottenType
     DEF IInv, TypeOK, MainPhases, SchedulerPhases, KeepsPublished
<1>5. PhasesMatch'
  BY <1>1, <1>2 DEF IInv, PhasesMatch
<1>6. \A m \in Messages : \/ rows'[m] = rows[m]
                          \/ rows'[m] \in {"locked", "gone"} /\ rows[m] # "never"
  BY <1>1, ForgottenType DEF IInv
<1> QED
  BY <1>1, <1>2, <1>3, <1>4, <1>5, <1>6, DueIsNotOut, IdleStep

\* A process takes the place of one that ended.
LEMMA RestartStep == ASSUME IInv, Restart PROVE IInv'
<1> USE DEF mainVars, taskVars, faultVars
<1>1. /\ main = "exited" /\ main' = "load" /\ exit' = "none"
      /\ config' = NoConfig /\ token' = FALSE /\ signalled' = FALSE
      /\ scheduler' = "none" /\ batch' = {} /\ current' = None /\ grpc' = "none"
      /\ UNCHANGED <<deployment, rows, natsVars, faultVars>>
  BY DEF Restart
<1>2. KeepsPublished
  BY <1>1, NatsUnchanged
<1>3. TypeOK'
  BY <1>1, <1>2
     DEF IInv, TypeOK, MainPhases, SchedulerPhases, KeepsPublished
<1>4. PhasesMatch'
  BY <1>1 DEF PhasesMatch
<1>5. \A m \in Messages : rows[m] = "due" => m \notin Published
  BY <1>1, DueIsNotOut DEF Running
<1>6. \A m \in Messages : rows'[m] = rows[m]
  BY <1>1
<1> QED
  BY <1>1, <1>2, <1>3, <1>4, <1>5, <1>6, IdleStep

-----------------------------------------------------------------------------
(***************************************************************************)
(* The scheduler.                                                          *)
(***************************************************************************)

\* A scheduler that moves, in a process that runs and is configured.
LEMMA MovesPhases ==
  ASSUME IInv, NEW from, from # "none", NEW to, Moves(from, to)
  PROVE  /\ Running /\ config # NoConfig
         /\ main \in {"listen", "waiting", "stopping"}
         /\ scheduler = from /\ scheduler' = to
         /\ from \notin {"save", "reschedule"} => current = None
         /\ from \notin {"publish", "save", "reschedule"} => batch = {}
BY DEF Moves, Running, IInv, PhasesMatch

\* What a poll leaves: locked rows in the database, the same in memory.
LEMMA PolledType ==
  ASSUME TypeOK
  PROVE  /\ PolledRows \in [Messages -> {"never", "due", "locked", "sent", "gone"}]
         /\ \A m \in Messages :
              PolledRows[m] = IF rows[m] = "due" /\ IsPostgres
                              THEN "locked" ELSE rows[m]
BY DEF TypeOK, PolledRows, Locked

\* The scheduler sleeps, wakes, finishes, or polls in vain.
LEMMA SleepStep == ASSUME IInv, Wake \/ Finish \/ PollFails PROVE IInv'
<1> USE DEF mainVars, taskVars, faultVars
<1>1. /\ scheduler \in {"sleep", "poll"}
      /\ scheduler' \in {"poll", "finished", "sleep"}
      /\ Running /\ config # NoConfig
      /\ main \in {"listen", "waiting", "stopping"}
      /\ batch = {} /\ current = None
  <2>1. \/ Moves("sleep", "poll")
        \/ Moves("sleep", "finished")
        \/ Moves("poll", "sleep")
    BY DEF Wake, Finish, PollFails
  <2>2. scheduler' \in {"poll", "finished", "sleep"}
    BY <2>1 DEF Moves
  <2>3. PICK from \in {"sleep", "poll"}, to \in SchedulerPhases : Moves(from, to)
    BY <2>1 DEF SchedulerPhases
  <2>4. from # "none" /\ from \notin {"publish", "save", "reschedule"}
    BY <2>3
  <2> QED
    BY <2>2, <2>3, <2>4, MovesPhases
<1>2. /\ rows' \in {rows, PolledRows}
      /\ faults' \in 0 .. MaxFaults /\ disturbed' \in BOOLEAN
      /\ batch' = {} /\ current' = None
      /\ UNCHANGED <<main, mainVars, grpc, natsVars>>
  <2>1. CASE Wake \/ Finish
    BY <1>1, <2>1 DEF Wake, Finish, IInv, TypeOK
  <2>2. CASE PollFails
    <3>1. faults' \in 0 .. MaxFaults /\ disturbed' \in BOOLEAN
      BY <2>2, FaultType DEF PollFails, IInv, TypeOK
    <3>2. /\ rows' \in {rows, PolledRows}
          /\ batch' = {} /\ current' = None
          /\ UNCHANGED <<main, mainVars, grpc, natsVars>>
      BY <1>1, <2>2 DEF PollFails
    <3> QED
      BY <3>1, <3>2
  <2> QED
    BY <2>1, <2>2
<1>3. KeepsPublished
  <2>1. UNCHANGED natsVars
    BY <1>2
  <2> QED
    BY <2>1, NatsUnchanged
<1>4. TypeOK'
  BY <1>1, <1>2, <1>3, PolledType
     DEF IInv, TypeOK, SchedulerPhases, KeepsPublished
<1>5. PhasesMatch'
  BY <1>1, <1>2 DEF IInv, PhasesMatch
<1>6. \A m \in Messages : \/ rows'[m] = rows[m]
                          \/ rows'[m] \in {"locked", "gone"} /\ rows[m] # "never"
  BY <1>2, PolledType DEF IInv
<1> QED
  BY <1>1, <1>2, <1>3, <1>4, <1>5, <1>6, DueIsNotOut, IdleStep

\* What a poll returns was not published: all of it is held from now on.
\* What the LIMIT keeps back is locked on PostgreSQL, and due in memory still.
LEMMA PollStep == ASSUME IInv, Poll PROVE IInv'
<1> USE DEF mainVars, taskVars, faultVars
<1>1. /\ scheduler = "poll" /\ scheduler' = NextOf(batch')
      /\ Running /\ config # NoConfig
      /\ main \in {"listen", "waiting", "stopping"}
      /\ current = None
  BY MovesPhases DEF Poll
<1>2. /\ batch' \subseteq Due /\ rows' = PolledRows
      /\ UNCHANGED <<main, mainVars, current, grpc, natsVars, faultVars>>
  BY DEF Poll, Batches
<1>3. KeepsPublished
  BY <1>2, NatsUnchanged
<1>4. TypeOK'
  BY <1>1, <1>2, <1>3, PolledType
     DEF IInv, TypeOK, SchedulerPhases, NextOf, Due, KeepsPublished
<1>5. PhasesMatch'
  BY <1>1, <1>2 DEF IInv, PhasesMatch, NextOf
<1>6. Apart' /\ Published' = Published
  BY <1>3 DEF KeepsPublished
<1>7. Agrees'
  BY <1>2, <1>6, IInvGives, PolledType DEF Agrees
<1>8. \A m \in Messages : rows[m] = "due" => m \notin Published
  BY <1>1, DueIsNotOut
<1>9. IsPostgres' = IsPostgres /\ None \notin Due /\ Due \subseteq Messages
  BY <1>2, LifecycleAssumption DEF IsPostgres, Due
<1>10. /\ current' \notin batch'
       /\ \A m \in batch' \cup ({current'} \ {None}) :
            /\ rows'[m] = HeldRow'
            /\ m \in Published' <=> m = current' /\ scheduler' = "save"
  BY <1>1, <1>2, <1>6, <1>8, <1>9, PolledType, IInvGives DEF HeldRow, Due
<1>11. \A m \in Messages : ~(rows'[m] = "due" /\ m \in Published')
  BY <1>2, <1>6, <1>8, PolledType, IInvGives
<1> QED
  BY <1>4, <1>5, <1>6, <1>7, <1>10, <1>11, IInvFrom

\* A message leaves the batch to be published, and is held until it is recorded.
LEMMA TakeStep == ASSUME IInv, PublishOk \/ PublishErr PROVE IInv'
<1> USE DEF mainVars, taskVars, faultVars
<1>1. PICK m \in Messages : /\ Take(m)
                            /\ \/ PublishOk /\ Publish(m)
                               \/ PublishErr
  BY DEF PublishOk, PublishErr
<1>2. /\ scheduler = "publish"
      /\ scheduler' \in {"save", "reschedule"}
      /\ Running /\ config # NoConfig
      /\ main \in {"listen", "waiting", "stopping"}
      /\ current = None
  <2>1. PICK from \in {"publish"}, to \in {"save", "reschedule"} : Moves(from, to)
    BY DEF PublishOk, PublishErr
  <2>2. from # "none" /\ from \notin {"save", "reschedule"}
    BY <2>1
  <2> QED
    BY <2>1, <2>2, MovesPhases
<1>3. /\ m \in batch /\ batch' = batch \ {m} /\ current' = m
      /\ UNCHANGED <<main, mainVars, grpc, rows>>
      /\ faults' \in 0 .. MaxFaults /\ disturbed' \in BOOLEAN
  <2>1. faults \in 0 .. MaxFaults /\ disturbed \in BOOLEAN
    BY DEF IInv, TypeOK
  <2>2. faults' \in 0 .. MaxFaults /\ disturbed' \in BOOLEAN
    <3>1. CASE PublishOk
      BY <2>1, <3>1 DEF PublishOk
    <3>2. CASE PublishErr
      BY <2>1, <3>2, FaultType DEF PublishErr
    <3> QED
      BY <3>1, <3>2
  <2>3. UNCHANGED <<main, mainVars, grpc, rows>>
    BY DEF PublishOk, PublishErr
  <2> QED
    BY <1>1, <2>2, <2>3 DEF Take
<1>4. /\ m \notin Published /\ m # None
      /\ \A n \in batch : rows[n] = HeldRow /\ n \notin Published
  BY <1>2, <1>3, IInvGives, LifecycleAssumption
<1>5. /\ NatsTypeOK' /\ Apart'
      /\ Published' = IF scheduler' = "save" THEN Published \cup {m}
                                             ELSE Published
  <2>1. CASE PublishOk /\ Publish(m)
    BY <1>4, <2>1, PublishAdds, IInvGives DEF PublishOk, Moves
  <2>2. CASE PublishErr
    <3>1. scheduler' = "reschedule" /\ UNCHANGED natsVars
      BY <2>2 DEF PublishErr, Moves
    <3>2. KeepsPublished
      BY <3>1, NatsUnchanged
    <3> QED
      BY <3>1, <3>2 DEF KeepsPublished
  <2> QED
    BY <1>1, <2>1, <2>2
<1>6. TypeOK'
  BY <1>2, <1>3, <1>5 DEF IInv, TypeOK, SchedulerPhases
<1>7. PhasesMatch'
  BY <1>2, <1>3, <1>4 DEF IInv, PhasesMatch
<1>8. rows[m] = HeldRow /\ HeldRow' = HeldRow /\ IsPostgres' = IsPostgres
  BY <1>3, <1>4 DEF HeldRow, IsPostgres
<1>9. Agrees'
  BY <1>3, <1>5, <1>8, IInvGives DEF Agrees, HeldRow
<1>10. /\ current' \notin batch'
       /\ \A n \in batch' \cup ({current'} \ {None}) :
            /\ rows'[n] = HeldRow'
            /\ n \in Published' <=> n = current' /\ scheduler' = "save"
  BY <1>3, <1>4, <1>5, <1>8
<1>11. ASSUME NEW n \in Messages, rows'[n] = "due", n \in Published'
       PROVE  /\ Running'
              /\ ~IsPostgres'
              /\ scheduler' = "save" /\ current' = n
  <2>1. n \notin Published
    BY <1>2, <1>3, <1>11, DueIsNotOut
  <2>2. n = m /\ scheduler' = "save"
    BY <1>5, <1>11, <2>1
  <2> QED
    BY <1>2, <1>3, <1>8, <1>11, <2>2 DEF HeldRow, Running
<1> QED
  BY <1>5, <1>6, <1>7, <1>9, <1>10, <1>11, IInvFrom

\* A row recorded as sent.
LEMMA RecordedType ==
  ASSUME TypeOK, NEW m
  PROVE  /\ Recorded(m) \in [Messages -> {"never", "due", "locked", "sent", "gone"}]
         /\ \A n \in Messages :
              Recorded(m)[n] = IF n = m THEN "sent" ELSE rows[n]
BY DEF TypeOK, Recorded

\* What was taken is put away; only what was published is recorded as sent.
LEMMA FinishStep == ASSUME IInv, Save \/ SaveFails \/ Reschedule PROVE IInv'
<1> USE DEF mainVars, taskVars, faultVars
<1>1. /\ scheduler \in {"save", "reschedule"} /\ scheduler' = NextOf(batch)
      /\ Running /\ config # NoConfig
      /\ main \in {"listen", "waiting", "stopping"}
  <2>1. Moves("save", NextOf(batch)) \/ Moves("reschedule", NextOf(batch))
    BY DEF Save, SaveFails, Reschedule
  <2>2. PICK from \in {"save", "reschedule"} : Moves(from, NextOf(batch))
    BY <2>1
  <2> QED
    BY <2>2, MovesPhases
<1>2. /\ current' = None
      /\ UNCHANGED <<main, mainVars, batch, grpc, natsVars>>
      /\ faults' \in 0 .. MaxFaults /\ disturbed' \in BOOLEAN
  <2>1. CASE Save \/ Reschedule
    BY <2>1 DEF Save, Reschedule, IInv, TypeOK
  <2>2. CASE SaveFails
    BY <2>2, FaultType DEF SaveFails, IInv, TypeOK
  <2> QED
    BY <2>1, <2>2
<1>3. \/ scheduler = "save" /\ rows' = Recorded(current)
      \/ scheduler = "save" /\ rows' = rows /\ IsPostgres
      \/ scheduler = "reschedule" /\ rows' = rows
  BY DEF Save, SaveFails, Reschedule, Moves
<1>4. /\ current \in Messages /\ current \notin batch
      /\ scheduler = "save" => current \in Published
  <2>1. current \in Messages
    BY <1>1 DEF IInv, TypeOK, PhasesMatch
  <2>2. current # None
    BY <2>1, LifecycleAssumption
  <2> QED
    BY <1>1, <2>1, <2>2, IInvGives
<1>5. \A m \in Messages :
        \/ rows'[m] = rows[m]
        \/ m = current /\ scheduler = "save" /\ rows'[m] = "sent"
  BY <1>3, RecordedType DEF IInv
<1>6. KeepsPublished
  <2>1. UNCHANGED natsVars
    BY <1>2
  <2> QED
    BY <2>1, NatsUnchanged
<1>7. TypeOK'
  <2>1. rows' \in [Messages -> {"never", "due", "locked", "sent", "gone"}]
    BY <1>3, RecordedType DEF IInv, TypeOK
  <2> QED
    BY <1>1, <1>2, <1>6, <2>1
       DEF IInv, TypeOK, SchedulerPhases, NextOf, KeepsPublished
<1>8. PhasesMatch'
  BY <1>1, <1>2 DEF IInv, PhasesMatch, NextOf
<1>9. Apart' /\ Published' = Published
  BY <1>6 DEF KeepsPublished
<1>10. Agrees'
  BY <1>4, <1>5, <1>9, IInvGives DEF Agrees
<1>11. /\ HeldRow' = HeldRow /\ batch' = batch /\ None \notin batch
       /\ scheduler' # "save" /\ batch \subseteq Messages
  BY <1>1, <1>2, LifecycleAssumption
     DEF HeldRow, IsPostgres, NextOf, IInv, TypeOK
<1>12. \A m \in batch : rows'[m] = HeldRow' /\ m \notin Published'
  BY <1>1, <1>4, <1>5, <1>9, <1>11, IInvGives
<1>13. \A m \in Messages : ~(rows'[m] = "due" /\ m \in Published')
  <2> SUFFICES ASSUME NEW m \in Messages, rows'[m] = "due", m \in Published'
               PROVE  FALSE
    OBVIOUS
  <2>1. rows[m] = "due" /\ m \in Published
    BY <1>5, <1>9
  <2>2. ~IsPostgres /\ scheduler = "save" /\ current = m
    BY <1>1, <2>1, IInvGives
  <2> QED
    BY <1>3, <2>2, RecordedType DEF IInv
<1>14. /\ current' \notin batch'
       /\ \A m \in batch' \cup ({current'} \ {None}) :
            /\ rows'[m] = HeldRow'
            /\ m \in Published' <=> m = current' /\ scheduler' = "save"
  BY <1>2, <1>11, <1>12
<1> QED
  BY <1>7, <1>8, <1>9, <1>10, <1>13, <1>14, IInvFrom

\* A scheduler that died leaves what it had published due, in memory only.
LEMMA PanicStep == ASSUME IInv, SchedulerPanics PROVE IInv'
<1> USE DEF mainVars, taskVars, faultVars
<1>1. /\ scheduler = "save" /\ scheduler' = "dead"
      /\ Running /\ config # NoConfig
      /\ main \in {"listen", "waiting", "stopping"}
  BY MovesPhases DEF SchedulerPanics
<1>2. /\ batch' = {} /\ current' = None
      /\ UNCHANGED <<main, mainVars, grpc, rows, natsVars>>
      /\ faults' \in 0 .. MaxFaults /\ disturbed' \in BOOLEAN
  BY FaultType DEF SchedulerPanics, IInv, TypeOK
<1>3. KeepsPublished
  <2>1. UNCHANGED natsVars
    BY <1>2
  <2> QED
    BY <2>1, NatsUnchanged
<1>4. TypeOK'
  BY <1>1, <1>2, <1>3 DEF IInv, TypeOK, SchedulerPhases, KeepsPublished
<1>5. PhasesMatch'
  BY <1>1, <1>2 DEF IInv, PhasesMatch
<1>6. Apart' /\ Published' = Published
  BY <1>3 DEF KeepsPublished
<1>7. Agrees'
  BY <1>2, <1>6, IInvGives DEF Agrees
<1>8. Running' /\ IsPostgres' = IsPostgres
  BY <1>1, <1>2 DEF Running, IsPostgres
<1>9. \A m \in Messages :
        rows'[m] = "due" /\ m \in Published' => ~IsPostgres'
  BY <1>2, <1>6, <1>8, IInvGives
<1> QED
  BY <1>1, <1>2, <1>4, <1>5, <1>6, <1>7, <1>8, <1>9, IInvFrom

-----------------------------------------------------------------------------
(***************************************************************************)
(* The gRPC server stores; the process ends.                               *)
(***************************************************************************)

\* A transmission is stored, of a message that was never published.
LEMMA ScheduleStep == ASSUME IInv, NEW m \in Messages, Schedule(m) PROVE IInv'
<1> USE DEF mainVars, taskVars, faultVars
<1>1. /\ Running /\ rows[m] = "never" /\ rows' = [rows EXCEPT ![m] = "due"]
      /\ UNCHANGED <<main, mainVars, scheduler, batch, current, grpc, natsVars,
                     faultVars>>
  BY DEF Schedule
<1>2. /\ rows'[m] = "due"
      /\ \A n \in Messages : n # m => rows'[n] = rows[n]
      /\ rows' \in [Messages -> {"never", "due", "locked", "sent", "gone"}]
  BY <1>1 DEF IInv, TypeOK
<1>3. KeepsPublished
  BY <1>1, NatsUnchanged
<1>4. TypeOK'
  BY <1>1, <1>2, <1>3 DEF IInv, TypeOK, KeepsPublished
<1>5. PhasesMatch'
  BY <1>1 DEF IInv, PhasesMatch
<1>6. Apart' /\ Published' = Published /\ m \notin Published
  BY <1>1, <1>3, IInvGives DEF KeepsPublished, Agrees
<1>7. Agrees'
  BY <1>2, <1>6, IInvGives DEF Agrees
<1>8. /\ HeldRow' = HeldRow /\ IsPostgres' = IsPostgres /\ Running' = Running
      /\ batch \cup ({current} \ {None}) \subseteq Messages
  BY <1>1 DEF HeldRow, IsPostgres, Running, IInv, TypeOK
<1>9. m \notin batch \cup ({current} \ {None})
  <2>1. HeldRow # "never"
    BY DEF HeldRow
  <2> QED
    BY <1>1, <2>1, IInvGives
<1>10. /\ current' \notin batch'
       /\ \A n \in batch' \cup ({current'} \ {None}) :
            /\ rows'[n] = HeldRow'
            /\ n \in Published' <=> n = current' /\ scheduler' = "save"
  BY <1>1, <1>2, <1>6, <1>8, <1>9, IInvGives
<1>11. \A n \in Messages :
         rows'[n] = "due" /\ n \in Published' =>
           /\ Running'
           /\ ~IsPostgres'
           /\ scheduler' = "dead" \/ (scheduler' = "save" /\ current' = n)
  BY <1>1, <1>2, <1>6, <1>8, IInvGives
<1> QED
  BY <1>4, <1>5, <1>6, <1>7, <1>10, <1>11, IInvFrom

\* What the end leaves of the rows: a statement under way is done, or not.
LEMMA AfterwardsType ==
  ASSUME IInv, Running, rows' \in RowsAfterwards
  PROVE  /\ rows' \in [Messages -> {"never", "due", "locked", "sent", "gone"}]
         /\ \A m \in Messages :
              \/ rows'[m] = rows[m]
              \/ rows'[m] \in {"locked", "gone"} /\ rows[m] # "never"
              \/ rows'[m] = "sent" /\ m \in Published
         /\ \A m \in Messages : rows'[m] = "due" => m \notin Published
<1>1. rows \in [Messages -> {"never", "due", "locked", "sent", "gone"}]
  BY DEF IInv, TypeOK
<1>2. CASE rows' = Forgotten
  <2>1. \A m \in Messages : rows'[m] \in {"never", "gone"}
    BY <1>2 DEF Forgotten
  <2> QED
    BY <1>2, <2>1, ForgottenType DEF IInv
<1>3. CASE rows' # Forgotten
  <2>1. \/ rows' = rows
        \/ rows' = PolledRows
        \/ scheduler = "save" /\ rows' = Recorded(current)
    BY <1>3 DEF RowsAfterwards
  <2>2. \A m \in Messages : rows[m] = "due" => m \notin Published
    <3>1. CASE config = NoConfig
      <4>1. scheduler = "none"
        BY <3>1 DEF IInv, PhasesMatch
      <4> QED
        BY <4>1, DueIsNotOut
    <3>2. CASE config # NoConfig
      <4>1. IsPostgres
        BY <1>3, <3>2 DEF RowsAfterwards
      <4> QED
        BY <4>1, IInvGives
    <3> QED
      BY <3>1, <3>2
  <2>3. CASE rows' = rows
    BY <1>1, <2>2, <2>3
  <2>4. CASE rows' = PolledRows
    BY <2>2, <2>4, PolledType DEF IInv
  <2>5. CASE scheduler = "save" /\ rows' = Recorded(current)
    <3>1. current \in Messages
      BY <2>5 DEF IInv, TypeOK, PhasesMatch
    <3>2. current # None
      BY <3>1, LifecycleAssumption
    <3>3. current \in Published
      BY <2>5, <3>2, IInvGives
    <3> QED
      BY <2>2, <2>5, <3>3, RecordedType DEF IInv
  <2> QED
    BY <2>1, <2>3, <2>4, <2>5
<1> QED
  BY <1>2, <1>3

\* The process ends, with whatever was on its way to the database done or not.
LEMMA EndStep ==
  ASSUME IInv, Running, NEW how \in {"ok", "error", "killed"}, End(how),
         faults' \in 0 .. MaxFaults, disturbed' \in BOOLEAN
  PROVE  IInv'
<1>1. /\ main' = "exited" /\ exit' = how /\ rows' \in RowsAfterwards
      /\ UNCHANGED <<deployment, config, token, signalled,
                     scheduler, batch, current, grpc>>
  BY DEF End
<1>2. KeepsPublished
  BY DisconnectKeeps, IInvGives DEF End
<1>3. TypeOK'
  BY <1>1, <1>2, AfterwardsType DEF IInv, TypeOK, MainPhases, KeepsPublished
<1>4. PhasesMatch'
  BY <1>1 DEF IInv, PhasesMatch
<1>5. Apart' /\ Published' = Published
  BY <1>2 DEF KeepsPublished
<1>6. Agrees'
  BY <1>1, <1>5, AfterwardsType, IInvGives DEF Agrees
<1>7. \A m \in Messages : ~(rows'[m] = "due" /\ m \in Published')
  BY <1>1, <1>5, AfterwardsType
<1>8. ~Running'
  BY <1>1 DEF Running
<1> QED
  BY <1>3, <1>4, <1>5, <1>6, <1>7, <1>8, IInvFrom

\* Every way a process ends.
LEMMA EndingStep ==
  ASSUME IInv,
         LoadFails \/ StartFails \/ Return \/ MetricsServerFails \/ Kill
  PROVE  IInv'
<1>1. /\ Running
      /\ End("ok") \/ End("error") \/ End("killed")
  BY DEF LoadFails, StartFails, Return, MetricsServerFails, Kill, Running,
     Started
<1>2. faults' \in 0 .. MaxFaults /\ disturbed' \in BOOLEAN
  <2>1. \/ UNCHANGED faultVars
        \/ \E kind \in {"start", "metrics", "crash", "signal"} : Fault(kind)
    BY DEF LoadFails, StartFails, Return, MetricsServerFails, Kill
  <2> QED
    BY <2>1, FaultType DEF faultVars, IInv, TypeOK
<1> QED
  BY <1>1, <1>2, EndStep

-----------------------------------------------------------------------------
(***************************************************************************)
(* The theorems.                                                           *)
(***************************************************************************)

\* Every step keeps the invariant.
LEMMA NextIInv == IInv /\ [Next]_vars => IInv'
<1> SUFFICES ASSUME IInv, [Next]_vars PROVE IInv'
  OBVIOUS
<1>1. CASE UNCHANGED vars
  <2>1. KeepsPublished
    BY <1>1, NatsUnchanged DEF vars
  <2>2. TypeOK' /\ PhasesMatch'
    BY <1>1, <2>1
       DEF vars, mainVars, taskVars, faultVars, IInv, TypeOK, PhasesMatch,
           KeepsPublished
  <2> QED
    BY <1>1, <2>1, <2>2, QuietStep DEF vars, mainVars, taskVars, Running
<1>2. CASE MainStep
  BY <1>2, LoadStep, EndingStep, OtherTaskStep, ResetSpawnStep DEF MainStep
<1>3. CASE SchedulerStep
  BY <1>3, PollStep, TakeStep, FinishStep, SleepStep DEF SchedulerStep
<1>4. CASE PollFails \/ PublishErr \/ SaveFails \/ SchedulerPanics
  BY <1>4, SleepStep, TakeStep, FinishStep, PanicStep
<1>5. CASE GrpcStep \/ BindFails
  BY <1>5, OtherTaskStep DEF GrpcStep
<1>6. CASE \E m \in Messages : Schedule(m)
  BY <1>6, ScheduleStep
<1>7. CASE StartFails \/ MetricsServerFails \/ Kill
  BY <1>7, EndingStep
<1>8. CASE Signal \/ Restart
  BY <1>8, OtherTaskStep, RestartStep
<1>9. CASE NatsStep \/ ConnectionBreaks
  BY <1>9, NatsStepKeeps
<1> QED
  BY <1>1, <1>2, <1>3, <1>4, <1>5, <1>6, <1>7, <1>8, <1>9 DEF Next

\* However often the process starts, is signalled, killed or loses its
\* connections, wherever a poll, a publish or a save is interrupted: the phases
\* of main and of the scheduler match, and what the scheduler holds in memory
\* is what the repository and the broker say it is.
THEOREM Invariance == Spec => []IInv
BY InitIInv, NextIInv, PTL DEF Spec

\* Every state is one the types of main.rs and of the clients allow; the
\* client's channel never holds more than its capacity.
THEOREM TypeCorrectness == Spec => []TypeOK
<1>1. IInv => TypeOK
  BY DEF IInv
<1> QED
  BY <1>1, Invariance, PTL

\* No message is twice on its way or received twice; one recorded as sent was
\* published, one never scheduled was not, and one that can still be polled
\* was published only if memory alone holds it and its scheduler died or is
\* about to record it.
THEOREM BooksAgree == Spec => []OnePlace
<1>1. IInv => OnePlace
  BY DEF IInv
<1> QED
  BY <1>1, Invariance, PTL
=============================================================================
