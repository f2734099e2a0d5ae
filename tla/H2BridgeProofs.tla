---------------------------- MODULE H2BridgeProofs ----------------------------
(***************************************************************************)
(* Neither side of a downstream HTTP/2 stream takes a cut body for a whole *)
(* one: for every set of responses a pipeline may write, any number of     *)
(* request frames and channels of any size.                                *)
(***************************************************************************)
EXTENDS H2Bridge, TLAPS, FiniteSetTheorems

(***************************************************************************)
(* The shape of the state.  What is left to count in a response matters to *)
(* it only when no expectation precedes it, see StreamInv.                 *)
(***************************************************************************)
Stages == {"run", "writing", "failing", "finishing", "dropping", "gone"}

Clients == [sent : Nat, end : {None, "end", "trailers", "bad-trailers", "reset", "cancel"},
            reads : BOOLEAN, status : {None, "100", "200", "502"}, got : Seq(Nat),
            over : {None, "reset", "clean", "reset-by-proxy"}]
Pumps == [state : {"run", "done", "trailers", Err}, taken : Nat]
Readers == [read : Seq(Nat), end : {None, Err, "terminal", "timeout"}]
Heads == {None, "100", "200", Err, "dropped"}
Workers == [pc : Stages, body : BOOLEAN, expects : BOOLEAN, response : Responses,
            interim : BOOLEAN, headed : BOOLEAN, pos : Nat]

Between == {"size", "data", "crlf", "trailer"}
Writers == [state : Between \cup {"head", "counted", "until-close", "discard", "done", "failed"},
            left : Int]

Types ==
    /\ client \in Clients /\ pump \in Pumps /\ reader \in Readers /\ worker \in Workers
    /\ reqChan \in Seq(Nat) /\ reqOpen \in BOOLEAN
    /\ head \in Heads /\ bodyChan \in Seq(Nat) /\ bodyOpen \in BOOLEAN
    /\ listening \in BOOLEAN

(***************************************************************************)
(* The request: as long as the pipeline may read, the channel holds the    *)
(* frames that follow what was read, and behind them the mark that the     *)
(* pump leaves when the request ends other than by its last data frame.    *)
(***************************************************************************)
Marked == pump.state \in {"trailers", Err}

PumpInv ==
    /\ reqOpen = (pump.state = "run")
    /\ pump.state = "done" =>
         (client.end = "end" /\ pump.taken = client.sent) \/ client.end = "cancel"
    /\ pump.state = "trailers" => client.end = "trailers" /\ pump.taken = client.sent
    /\ pump.state = Err => client.end \in {"reset", "bad-trailers"}

ChannelInv ==
    LET ahead == pump.taken - Len(reader.read)
    IN  /\ Len(reader.read) <= pump.taken
        /\ Len(reqChan) = IF Marked THEN ahead + 1 ELSE ahead
        /\ \A i \in 1..Len(reqChan) :
             reqChan[i] = IF i <= ahead THEN Len(reader.read) + i ELSE 0

RequestInv ==
    /\ RequestTruth
    /\ ~Gone => PumpInv
    /\ ~Gone /\ reader.end = None => ChannelInv

(***************************************************************************)
(* The response, of a request without an expectation.                      *)
(***************************************************************************)

\* Of the frames owed, those up to place p are with the client or on their way to it,
\* in order; only an error may follow them.
FramesAt(owed, got, chan, p) ==
    /\ \A i \in 1..Len(got) : got[i] \in owed /\ got[i] <= p
    /\ \A i, j \in 1..Len(got) : i < j => got[i] < got[j]
    /\ \A i \in 1..Len(chan) :
         (chan[i] = ErrFrame /\ i = Len(chan)) \/ (chan[i] \in owed /\ chan[i] <= p)
    /\ \A i, j \in 1..Len(chan) : i < j /\ chan[j] # ErrFrame => chan[i] < chan[j]
    /\ \A i \in 1..Len(got), j \in 1..Len(chan) : chan[j] # ErrFrame => got[i] < chan[j]
    /\ \A q \in owed : q <= p =>
         (\E i \in 1..Len(got) : got[i] = q) \/ (\E i \in 1..Len(chan) : chan[i] = q)

NoError(chan) == \A i \in 1..Len(chan) : chan[i] # ErrFrame

\* The response is written as far as it has to be.
Whole(r, p) == r.framing = "close" \/ \A q \in FramesOf(r) : q <= p

\* Where the writer is when p tokens of the response r are written.
WriterAt(r, w, p) ==
    /\ w.state \in Between \cup {"counted", "until-close", "discard", "done", "failed"}
    /\ w.state = "counted" =>
         r.framing = "length" /\ w.left = Len(r.tokens) - p /\ p < Len(r.tokens)
    /\ w.state \in Between => r.framing = "chunked"
    /\ w.state = "size" => p = 0 \/ r.tokens[p] = "crlf"
    /\ w.state = "data" => p > 0 /\ r.tokens[p] = "size"
    /\ w.state = "crlf" => p > 0 /\ r.tokens[p] = "data"
    /\ w.state = "trailer" => p > 0 /\ r.tokens[p] = "last"
    /\ w.state = "until-close" => r.framing = "close"
    /\ w.state = "discard" => r.framing = "none"
    /\ w.state = "done" => Whole(r, p)

\* A closed channel has all of the body or the error, unless nobody listens.
ClosedInv ==
    /\ ~bodyOpen => Whole(worker.response, worker.pos) \/ ~listening \/ ~NoError(bodyChan)
    /\ writer.state = "failed" => ~bodyOpen
    /\ writer.state # "failed" => NoError(bodyChan)

\* The head comes first; a head that could not be sent ends the response.
ProgressInv ==
    /\ head \in {None, "200", Err, "dropped"}
    /\ worker.headed => head # None
    /\ head = "200" => worker.headed
    /\ worker.headed /\ head # "200" => writer.state = "failed"
    /\ ~worker.headed => worker.pc \notin {"writing", "finishing"} /\ worker.pos = 0
    /\ ~worker.headed /\ worker.pc = "run" =>
         writer.state = "head" /\ head = None /\ bodyOpen
    /\ worker.pc = "writing" => worker.pos < Len(worker.response.tokens)
    /\ worker.pc \in {"dropping", "gone"} => writer.state \in {"done", "failed"}
    /\ bodyOpen => NoError(bodyChan)
    /\ head # "200" => client.got = <<>> /\ \A i \in 1..Len(bodyChan) : bodyChan[i] = ErrFrame

ClientInv ==
    /\ listening = (client.over = None)
    /\ client.over = None => client.status \in {None, "200"}
    /\ client.status = "200" => head = "200"
    /\ client.status = "502" => head \in {Err, "dropped"}
    /\ client.over = "clean" =>
         \/ client.status = "502"
         \/ /\ client.status = "200"
            /\ ToSet(client.got) = Owed \/ worker.response.framing = "close"

StreamInv ==
    /\ FramesAt(Owed, client.got, bodyChan, worker.pos)
    /\ writer \in Writers /\ ProgressInv /\ ClientInv
    /\ head = "200" => WriterAt(worker.response, writer, worker.pos) /\ ClosedInv

\* Neither channel holds more than its capacity: whoever sends has waited for room.
Bounded == Len(reqChan) <= Capacity /\ Len(bodyChan) <= Capacity

BridgeInv == Types /\ Bounded /\ RequestInv /\ (~worker.expects => StreamInv)

-----------------------------------------------------------------------------
(***************************************************************************)
(* The responses and their frames.                                         *)
(***************************************************************************)

\* Frames have the places of tokens.
LEMMA FramesPlaces ==
    ASSUME NEW r \in Responses
    PROVE  /\ r.tokens \in Seq(Tokens) /\ Len(r.tokens) \in Nat
           /\ FramesOf(r) \subseteq 1..Len(r.tokens) /\ FramesOf(r) \subseteq Nat \ {0}
           /\ \A p \in 1..Len(r.tokens) :
                p \in FramesOf(r) <=> r.framing # "none" /\ IsContent(r.tokens[p])
<1>1. r.tokens \in Seq(Tokens) /\ Len(r.tokens) \in Nat
  BY H2BridgeAssumption
<1>2. FramesOf(r) \subseteq 1..Len(r.tokens)
  BY DEF FramesOf
<1>3. 1..Len(r.tokens) \subseteq Nat \ {0}
  BY <1>1
<1> QED
  BY <1>1, <1>2, <1>3 DEF FramesOf

\* A new frame goes behind the others.
LEMMA FramesPush ==
    ASSUME NEW owed \in SUBSET (Nat \ {0}), NEW got \in Seq(Nat), NEW chan \in Seq(Nat),
           NEW p \in Nat, FramesAt(owed, got, chan, p), NoError(chan), p + 1 \in owed
    PROVE  FramesAt(owed, got, Append(chan, p + 1), p + 1) /\ NoError(Append(chan, p + 1))
<1> DEFINE c == Append(chan, p + 1)
<1>1. /\ Len(c) = Len(chan) + 1 /\ Len(chan) \in Nat /\ c[Len(chan) + 1] = p + 1
      /\ \A i \in 1..Len(chan) : c[i] = chan[i]
  OBVIOUS
<1>2. \A i \in 1..Len(got) : got[i] \in Nat
  OBVIOUS
<1>3. \A i \in 1..Len(chan) : chan[i] \in Nat
  OBVIOUS
<1> HIDE DEF c
<1>4. \A i \in 1..Len(c) : i \in 1..Len(chan) \/ i = Len(chan) + 1
  BY <1>1
<1>5. \A i \in 1..Len(got) : got[i] \in owed /\ got[i] <= p + 1 /\ got[i] < p + 1
  BY <1>2 DEF FramesAt
<1>6. \A i \in 1..Len(chan) : chan[i] \in owed /\ chan[i] <= p + 1 /\ chan[i] < p + 1
  BY <1>3 DEF FramesAt, NoError
<1>7. ASSUME NEW q \in owed, q <= p + 1
      PROVE  (\E i \in 1..Len(got) : got[i] = q) \/ (\E i \in 1..Len(c) : c[i] = q)
  <2>1. q \in Nat
    OBVIOUS
  <2>2. CASE q = p + 1
    <3>1. Len(chan) + 1 \in 1..Len(c)
      BY <1>1
    <3> QED
      BY <1>1, <2>2, <3>1
  <2>3. CASE q <= p
    <3>1. (\E i \in 1..Len(got) : got[i] = q) \/ (\E i \in 1..Len(chan) : chan[i] = q)
      BY <2>3 DEF FramesAt
    <3>2. 1..Len(chan) \subseteq 1..Len(c)
      BY <1>1
    <3> QED
      BY <1>1, <3>1, <3>2
  <2> QED
    BY <1>7, <2>1, <2>2, <2>3
<1>8. ASSUME NEW i \in 1..Len(c) PROVE c[i] \in owed /\ c[i] <= p + 1 /\ c[i] # ErrFrame
  <2>1. CASE i \in 1..Len(chan)
    BY <1>1, <1>6, <2>1 DEF NoError
  <2>2. CASE i = Len(chan) + 1
    BY <1>1, <2>2 DEF ErrFrame
  <2> QED
    BY <1>4, <2>1, <2>2
<1>9. ASSUME NEW i \in 1..Len(c), NEW j \in 1..Len(c), i < j PROVE c[i] < c[j]
  <2>1. i \in 1..Len(chan)
    BY <1>1, <1>9
  <2>2. CASE j \in 1..Len(chan)
    BY <1>1, <1>9, <2>1, <2>2 DEF FramesAt, NoError
  <2>3. CASE j = Len(chan) + 1
    BY <1>1, <1>6, <2>1, <2>3
  <2> QED
    BY <1>4, <2>2, <2>3
<1>10. ASSUME NEW i \in 1..Len(got), NEW j \in 1..Len(c) PROVE got[i] < c[j]
  <2>2. CASE j \in 1..Len(chan)
    BY <1>1, <2>2 DEF FramesAt, NoError
  <2>3. CASE j = Len(chan) + 1
    BY <1>1, <1>5, <2>3
  <2> QED
    BY <1>4, <2>2, <2>3
<1>11. \A i, j \in 1..Len(got) : i < j => got[i] < got[j]
  BY DEF FramesAt
<1>12. FramesAt(owed, got, c, p + 1)
  BY <1>5, <1>7, <1>8, <1>9, <1>10, <1>11 DEF FramesAt
<1> QED
  BY <1>8, <1>12 DEF c, NoError

\* A token that is no frame changes nothing.
LEMMA FramesSkip ==
    ASSUME NEW owed \in SUBSET (Nat \ {0}), NEW got \in Seq(Nat), NEW chan \in Seq(Nat),
           NEW p \in Nat, FramesAt(owed, got, chan, p), p + 1 \notin owed
    PROVE  FramesAt(owed, got, chan, p + 1)
<1>1. \A q \in owed : q \in Nat /\ (q <= p + 1 => q <= p) /\ (q <= p => q <= p + 1)
  OBVIOUS
<1> QED
  BY <1>1 DEF FramesAt

\* An error goes behind the frames.
LEMMA FramesError ==
    ASSUME NEW owed \in SUBSET (Nat \ {0}), NEW got \in Seq(Nat), NEW chan \in Seq(Nat),
           NEW p \in Nat, FramesAt(owed, got, chan, p), NoError(chan)
    PROVE  FramesAt(owed, got, Append(chan, ErrFrame), p) /\ ~NoError(Append(chan, ErrFrame))
<1> DEFINE c == Append(chan, ErrFrame)
<1>1. /\ Len(c) = Len(chan) + 1 /\ Len(chan) \in Nat /\ c[Len(chan) + 1] = ErrFrame
      /\ \A i \in 1..Len(chan) : c[i] = chan[i]
  OBVIOUS
<1> HIDE DEF c
<1>2. /\ \A i \in 1..Len(c) : i \in 1..Len(chan) \/ i = Len(chan) + 1
      /\ 1..Len(chan) \subseteq 1..Len(c) /\ Len(chan) + 1 \in 1..Len(c)
  BY <1>1
<1>3. \A i \in 1..Len(c) :
         (c[i] = ErrFrame /\ i = Len(c)) \/ (c[i] \in owed /\ c[i] <= p)
  BY <1>1, <1>2 DEF FramesAt, NoError
<1>4. ASSUME NEW i \in 1..Len(c), NEW j \in 1..Len(c), i < j, c[j] # ErrFrame
      PROVE  c[i] < c[j]
  <2>1. j \in 1..Len(chan) /\ i \in 1..Len(chan)
    BY <1>1, <1>2, <1>4
  <2> QED
    BY <1>1, <1>4, <2>1 DEF FramesAt
<1>5. \A i \in 1..Len(got), j \in 1..Len(c) : c[j] # ErrFrame => got[i] < c[j]
  BY <1>1, <1>2 DEF FramesAt
<1>6. \A q \in owed : q <= p =>
         (\E i \in 1..Len(got) : got[i] = q) \/ (\E i \in 1..Len(c) : c[i] = q)
  BY <1>1, <1>2 DEF FramesAt
<1>7. FramesAt(owed, got, c, p)
  BY <1>3, <1>4, <1>5, <1>6 DEF FramesAt
<1> QED
  BY <1>1, <1>2, <1>7 DEF c, NoError

\* The client takes the first frame that is on its way.
LEMMA FramesTake ==
    ASSUME NEW owed \in SUBSET (Nat \ {0}), NEW got \in Seq(Nat), NEW chan \in Seq(Nat),
           NEW p \in Nat, FramesAt(owed, got, chan, p), chan # <<>>, Head(chan) # ErrFrame
    PROVE  FramesAt(owed, Append(got, Head(chan)), Tail(chan), p)
<1> DEFINE c == Tail(chan)
           g == Append(got, Head(chan))
<1>1. /\ Len(c) = Len(chan) - 1 /\ Len(chan) \in Nat \ {0} /\ \A i \in 1..Len(c) : c[i] = chan[i + 1]
  OBVIOUS
<1>2. /\ Len(g) = Len(got) + 1 /\ Len(got) \in Nat /\ g[Len(got) + 1] = chan[1]
      /\ \A i \in 1..Len(got) : g[i] = got[i]
  OBVIOUS
<1> HIDE DEF c, g
<1>3. /\ 1 \in 1..Len(chan) /\ chan[1] # ErrFrame
      /\ \A i \in 1..Len(c) : i + 1 \in 1..Len(chan) /\ 1 < i + 1
      /\ \A i \in 1..Len(chan) : i = 1 \/ i - 1 \in 1..Len(c)
  BY <1>1
<1>4. /\ \A i \in 1..Len(g) : i \in 1..Len(got) \/ i = Len(got) + 1
      /\ 1..Len(got) \subseteq 1..Len(g) /\ Len(got) + 1 \in 1..Len(g)
  BY <1>2
<1>5. \A i \in 1..Len(g) : g[i] \in owed /\ g[i] <= p
  BY <1>2, <1>3, <1>4 DEF FramesAt
<1>6. ASSUME NEW i \in 1..Len(g), NEW j \in 1..Len(g), i < j PROVE g[i] < g[j]
  <2>1. i \in 1..Len(got)
    BY <1>2, <1>6
  <2>2. CASE j \in 1..Len(got)
    BY <1>2, <1>6, <2>1, <2>2 DEF FramesAt
  <2>3. CASE j = Len(got) + 1
    BY <1>2, <1>3, <2>1, <2>3 DEF FramesAt
  <2> QED
    BY <1>4, <2>2, <2>3
<1>7. ASSUME NEW i \in 1..Len(c)
      PROVE  (c[i] = ErrFrame /\ i = Len(c)) \/ (c[i] \in owed /\ c[i] <= p)
  <2>1. i + 1 \in 1..Len(chan) /\ c[i] = chan[i + 1] /\ (i + 1 = Len(chan) => i = Len(c))
    BY <1>1, <1>3
  <2> QED
    BY <2>1 DEF FramesAt
<1>8. ASSUME NEW i \in 1..Len(c), NEW j \in 1..Len(c), i < j, c[j] # ErrFrame
      PROVE  c[i] < c[j]
  <2>1. /\ i + 1 \in 1..Len(chan) /\ j + 1 \in 1..Len(chan) /\ i + 1 < j + 1
        /\ c[i] = chan[i + 1] /\ c[j] = chan[j + 1]
    BY <1>1, <1>3, <1>8
  <2> QED
    BY <1>8, <2>1 DEF FramesAt
<1>9. ASSUME NEW i \in 1..Len(g), NEW j \in 1..Len(c), c[j] # ErrFrame PROVE g[i] < c[j]
  <2>1. j + 1 \in 1..Len(chan) /\ 1 < j + 1 /\ c[j] = chan[j + 1]
    BY <1>1, <1>3
  <2>2. CASE i \in 1..Len(got)
    BY <1>2, <1>9, <2>1, <2>2 DEF FramesAt
  <2>3. CASE i = Len(got) + 1
    BY <1>2, <1>3, <1>9, <2>1, <2>3 DEF FramesAt
  <2> QED
    BY <1>4, <2>2, <2>3
<1>10. ASSUME NEW q \in owed, q <= p
       PROVE  (\E i \in 1..Len(g) : g[i] = q) \/ (\E i \in 1..Len(c) : c[i] = q)
  <2>1. (\E i \in 1..Len(got) : got[i] = q) \/ (\E i \in 1..Len(chan) : chan[i] = q)
    BY <1>10 DEF FramesAt
  <2>2. CASE \E i \in 1..Len(got) : got[i] = q
    BY <1>2, <1>4, <2>2
  <2>3. ASSUME NEW i \in 1..Len(chan), chan[i] = q
        PROVE  (\E k \in 1..Len(g) : g[k] = q) \/ (\E k \in 1..Len(c) : c[k] = q)
    <3>1. CASE i = 1
      BY <1>2, <1>4, <2>3, <3>1
    <3>2. CASE i - 1 \in 1..Len(c)
      <4>1. c[i - 1] = chan[i]
        BY <1>1, <3>2
      <4> QED
        BY <2>3, <3>2, <4>1
    <3> QED
      BY <1>3, <3>1, <3>2
  <2> QED
    BY <2>1, <2>2, <2>3
<1> QED
  BY <1>5, <1>6, <1>7, <1>8, <1>9, <1>10 DEF FramesAt, c, g

\* The error is the last thing on its way.
LEMMA FramesEnd ==
    ASSUME NEW owed \in SUBSET (Nat \ {0}), NEW got \in Seq(Nat), NEW chan \in Seq(Nat),
           NEW p \in Nat, FramesAt(owed, got, chan, p), chan # <<>>, Head(chan) = ErrFrame
    PROVE  Len(Tail(chan)) = 0 /\ FramesAt(owed, got, Tail(chan), p)
<1>1. Len(chan) \in Nat \ {0} /\ chan[1] = ErrFrame /\ 1 \in 1..Len(chan)
  OBVIOUS
<1>2. 0 \notin owed
  OBVIOUS
<1>3. Len(chan) = 1
  BY <1>1, <1>2 DEF FramesAt, ErrFrame
<1>4. Len(Tail(chan)) = 0
  BY <1>3
<1>5. \A i \in 1..Len(chan) : chan[i] \notin owed
  BY <1>1, <1>2, <1>3 DEF ErrFrame
<1> QED
  BY <1>4, <1>5 DEF FramesAt

-----------------------------------------------------------------------------
(***************************************************************************)
(* The writer.                                                             *)
(***************************************************************************)

\* The numbers from one to n are n.
LEMMA OneTo ==
    ASSUME NEW n \in Nat
    PROVE  Cardinality(1..n) = n
<1>1. 1 \in Int /\ n \in Int
  OBVIOUS
<1>2. Cardinality(1..n) = IF 1 > n THEN 0 ELSE n - 1 + 1
  BY <1>1, FS_Interval
<1> QED
  BY <1>2

\* A response of a fixed length is data only, so its length is the number of its tokens.
LEMMA LengthOfData ==
    ASSUME NEW r \in Responses, r.framing = "length"
    PROVE  DataLen(r.tokens) = Len(r.tokens)
<1>1. Len(r.tokens) \in Nat
  BY FramesPlaces
<1>2. \A i \in 1..Len(r.tokens) : r.tokens[i] = "data"
  BY H2BridgeAssumption
<1>3. { i \in 1..Len(r.tokens) : r.tokens[i] = "data" } = 1..Len(r.tokens)
  BY <1>2
<1> QED
  BY <1>1, <1>3, OneTo DEF DataLen

\* The writer after the head of a response.
LEMMA WriterStarts ==
    ASSUME NEW r \in Responses, r.framing # "upgrade",
           NEW state, state = StateOf(r.framing, r.tokens)
    PROVE  /\ WriterAt(r, [state |-> state, left |-> DataLen(r.tokens)], 0)
           /\ state \in {"discard", "done"} => Whole(r, 0)
           /\ state \notin {"failed", "head"}
           /\ [state |-> state, left |-> DataLen(r.tokens)] \in Writers
<1> DEFINE w == [state |-> state, left |-> DataLen(r.tokens)]
<1>1. w.state = state /\ w.left = DataLen(r.tokens)
  OBVIOUS
<1>a. DataLen(r.tokens) \in Nat
  <2>1. IsFiniteSet(1..Len(r.tokens))
    BY FramesPlaces, FS_Interval
  <2>2. IsFiniteSet({ i \in 1..Len(r.tokens) : r.tokens[i] = "data" })
    BY <2>1, FS_Subset
  <2> QED
    BY <2>2, FS_CardinalityType DEF DataLen
<1>b. state \in Between \cup {"counted", "until-close", "discard", "done"} => w \in Writers
  BY <1>a DEF Writers, Between
<1> HIDE DEF w
<1>2. r.framing \in {"none", "length", "chunked", "close"} /\ Len(r.tokens) \in Nat
  BY H2BridgeAssumption, FramesPlaces
<1>3. CASE r.framing = "none"
  <2>1. state = "discard" /\ FramesOf(r) = {}
    BY <1>3 DEF StateOf, FramesOf
  <2> QED
    BY <1>1, <1>b, <1>3, <2>1 DEF WriterAt, Whole, Between, w
<1>4. CASE r.framing = "chunked"
  <2>1. state = "size"
    BY <1>4 DEF StateOf
  <2> QED
    BY <1>1, <1>b, <1>4, <2>1 DEF WriterAt, Between, w
<1>5. CASE r.framing = "close"
  <2>1. state = "until-close"
    BY <1>5 DEF StateOf
  <2> QED
    BY <1>1, <1>b, <1>5, <2>1 DEF WriterAt, Between, w
<1>6. CASE r.framing = "length"
  <2>1. DataLen(r.tokens) = Len(r.tokens)
    BY <1>6, LengthOfData
  <2>2. state = IF DataLen(r.tokens) = 0 THEN "done" ELSE "counted"
    BY <1>6 DEF StateOf
  <2>3. CASE Len(r.tokens) = 0
    <3>1. FramesOf(r) = {}
      BY <2>3, FramesPlaces
    <3> QED
      BY <1>1, <1>b, <2>1, <2>2, <2>3, <3>1 DEF WriterAt, Whole, Between, w
  <2>4. CASE Len(r.tokens) # 0
    <3>1. state = "counted" /\ w.left = Len(r.tokens)
      BY <1>1, <2>1, <2>2, <2>4
    <3>2. w.left = Len(r.tokens) - 0 /\ 0 < Len(r.tokens)
      BY <1>2, <2>4, <3>1
    <3> QED
      BY <1>1, <1>b, <1>6, <3>1, <3>2 DEF WriterAt, Between, w
  <2> QED
    BY <2>3, <2>4
<1> QED
  BY <1>2, <1>3, <1>4, <1>5, <1>6

\* The grammar of a chunked body, from one token to the next.
LEMMA NextToken ==
    ASSUME NEW r \in Responses, r.framing = "chunked", NEW p \in Nat, p < Len(r.tokens)
    PROVE  /\ p = 0 => r.tokens[p + 1] \in {"size", "last"}
           /\ p > 0 =>
                /\ r.tokens[p] = "size" => r.tokens[p + 1] = "data"
                /\ r.tokens[p] = "data" => r.tokens[p + 1] = "crlf"
                /\ r.tokens[p] = "crlf" => r.tokens[p + 1] \in {"size", "last"}
                /\ r.tokens[p] = "last" =>
                     r.tokens[p + 1] \in {"crlf", "trailers"} /\ p + 1 = Len(r.tokens)
<1>1. Chunked(r.tokens) /\ Len(r.tokens) \in Nat
  BY H2BridgeAssumption, FramesPlaces
<1>2. p > 0 => p \in 1..Len(r.tokens) - 1
  BY <1>1
<1> QED
  BY <1>1, <1>2 DEF Chunked

\* One token of the body moves the writer as far as the response has come, and a frame
\* is sent for the tokens that are frames of the response.
LEMMA WriterMoves ==
    ASSUME NEW r \in Responses, NEW p \in Nat, p < Len(r.tokens), WriterAt(r, writer, p),
           writer.state \notin {"done", "failed"}, writer \in Writers,
           NEW next, next = TokenState(r.tokens[p + 1])
    PROVE  /\ WriterAt(r, next, p + 1)
           /\ next.state \notin {"failed", "head"} /\ next \in Writers
           /\ p + 1 \in FramesOf(r) <=>
                IsContent(r.tokens[p + 1]) /\ writer.state # "discard"
<1> DEFINE t == r.tokens[p + 1]
<1>1. /\ Len(r.tokens) \in Nat /\ p + 1 \in 1..Len(r.tokens)
      /\ p + 1 \in FramesOf(r) <=> r.framing # "none" /\ IsContent(t)
  BY FramesPlaces
<1> HIDE DEF t
<1>2. CASE writer.state = "counted"
  <2>1. t = "data"
    BY <1>1, <1>2, H2BridgeAssumption DEF WriterAt, t
  <2>2. next = [state |-> IF writer.left - 1 = 0 THEN "done" ELSE "counted", left |-> writer.left - 1]
    BY <1>2, <2>1 DEF TokenState, t
  <2>3. r.framing = "length" /\ writer.left = Len(r.tokens) - p
    BY <1>2 DEF WriterAt
  <2>3a. next \in Writers
    <3>1. writer.left - 1 \in Int
      BY DEF Writers
    <3> QED
      BY <2>2, <3>1 DEF Writers
  <2>4. CASE p + 1 = Len(r.tokens)
    <3>1. next.state = "done"
      BY <1>1, <2>2, <2>3, <2>4
    <3>2. \A q \in FramesOf(r) : q <= p + 1
      BY <1>1, <2>4, FramesPlaces
    <3> QED
      BY <1>1, <1>2, <2>3, <2>3a, <3>1, <3>2 DEF WriterAt, Whole, Between, t
  <2>5. CASE p + 1 # Len(r.tokens)
    <3>1. next.state = "counted" /\ next.left = Len(r.tokens) - (p + 1) /\ p + 1 < Len(r.tokens)
      BY <1>1, <2>2, <2>3, <2>5
    <3> QED
      BY <1>1, <1>2, <2>3, <2>3a, <3>1 DEF WriterAt, Between, t
  <2> QED
    BY <2>4, <2>5
<1>3. CASE writer.state \in Between
  <2>1. r.framing = "chunked"
    BY <1>3 DEF WriterAt
  <2>2. /\ writer.state = "size" => t \in {"size", "last"}
        /\ writer.state = "data" => t = "data"
        /\ writer.state = "crlf" => t = "crlf"
        /\ writer.state = "trailer" => t \in {"crlf", "trailers"} /\ p + 1 = Len(r.tokens)
    BY <1>3, <2>1, NextToken DEF WriterAt, t
  <2>3a. \E s \in Between \cup {"done"} : next = [writer EXCEPT !.state = s]
    BY <1>3, <2>2 DEF TokenState, t, Between
  <2>3b. next \in Writers
    BY <2>3a DEF Writers
  <2>3. /\ writer.state = "size" /\ t = "size" => next.state = "data"
        /\ writer.state = "size" /\ t = "last" => next.state = "trailer"
        /\ writer.state = "data" => next.state = "crlf"
        /\ writer.state = "crlf" => next.state = "size"
        /\ writer.state = "trailer" => next.state = "done"
    BY <1>3, <2>2 DEF TokenState, t, Between, Writers
  <2>4. p + 1 = Len(r.tokens) => \A q \in FramesOf(r) : q <= p + 1
    BY <1>1, FramesPlaces
  <2>5. next.state = "done" => Whole(r, p + 1)
    BY <1>3, <2>2, <2>3, <2>4 DEF Whole, Between
  <2>6. next.state \in Between \cup {"done"}
    BY <1>3, <2>2, <2>3 DEF Between
  <2>7. /\ next.state = "size" => r.tokens[p + 1] = "crlf"
        /\ next.state = "data" => r.tokens[p + 1] = "size"
        /\ next.state = "crlf" => r.tokens[p + 1] = "data"
        /\ next.state = "trailer" => r.tokens[p + 1] = "last"
    BY <1>3, <2>2, <2>3 DEF Between, t
  <2>8. p + 1 > 0
    OBVIOUS
  <2>9. WriterAt(r, next, p + 1)
    BY <2>1, <2>5, <2>6, <2>7, <2>8 DEF WriterAt, Between
  <2> QED
    BY <1>1, <1>3, <2>1, <2>3b, <2>6, <2>9 DEF Between, t
<1>4. CASE writer.state = "until-close"
  <2>1. next = writer /\ r.framing = "close"
    BY <1>4 DEF WriterAt, TokenState
  <2> QED
    BY <1>1, <1>4, <2>1 DEF WriterAt, Between, t
<1>5. CASE writer.state = "discard"
  <2>1. next = writer /\ r.framing = "none"
    BY <1>5 DEF WriterAt, TokenState
  <2> QED
    BY <1>1, <1>5, <2>1 DEF WriterAt, Between, t
<1> QED
  BY <1>2, <1>3, <1>4, <1>5 DEF WriterAt, Between

-----------------------------------------------------------------------------
(***************************************************************************)
(* Types.                                                                  *)
(***************************************************************************)

\* What writing a head or a token does to the variables of the bridge.
WriteTypes ==
    /\ head' \in Heads /\ bodyChan' \in Seq(Nat) /\ bodyOpen' \in BOOLEAN

\* An error goes to the head or to the body.
LEMMA SignalTypes ==
    ASSUME Types, SignalError
    PROVE  WriteTypes
<1>1. Append(bodyChan, ErrFrame) \in Seq(Nat) /\ Err \in Heads
  BY DEF Types, ErrFrame, Heads
<1> QED
  BY <1>1 DEF Types, WriteTypes, SignalError

\* A head is sent or an error is signalled.
LEMMA HeadTypes ==
    ASSUME Types, NEW status \in {"100", "200"}, NEW framing, NEW tokens,
           WriteHead(status, framing, tokens)
    PROVE  WriteTypes
<1>1. CASE SignalError
  BY <1>1, SignalTypes
<1>2. CASE UNCHANGED <<writer, head, bodyChan, bodyOpen>>
  BY <1>2 DEF Types, WriteTypes
<1>3. CASE head' = "dropped" /\ bodyOpen' = FALSE /\ UNCHANGED bodyChan
  BY <1>3 DEF Types, WriteTypes, Heads
<1>4. CASE /\ head' = status /\ UNCHANGED bodyChan
           /\ bodyOpen' = (StateOf(framing, tokens) \notin {"discard", "done"})
  BY <1>4 DEF Types, WriteTypes, Heads
<1> QED
  BY <1>1, <1>2, <1>3, <1>4 DEF WriteHead

\* A frame goes to the body.
LEMMA TokenTypes ==
    ASSUME Types, NEW token, WriteToken(token)
    PROVE  WriteTypes
<1>1. CASE SignalError
  BY <1>1, SignalTypes
<1>2. CASE UNCHANGED <<writer, head, bodyChan, bodyOpen>>
  BY <1>2 DEF Types, WriteTypes
<1>3. CASE /\ bodyChan' \in {bodyChan, Append(bodyChan, worker.pos + 1)} /\ UNCHANGED head
           /\ bodyOpen' \in BOOLEAN
  <2>1. Append(bodyChan, worker.pos + 1) \in Seq(Nat)
    BY DEF Types, Workers
  <2> QED
    BY <1>3, <2>1 DEF Types, WriteTypes
<1>4. (bodyOpen /\ TokenState(token).state # "done") \in BOOLEAN
  OBVIOUS
<1> QED
  BY <1>1, <1>2, <1>3, <1>4 DEF WriteToken

\* Every step keeps the types.
LEMMA TypesStep ==
    ASSUME Types, [Next]_vars
    PROVE  Types'
<1>1. CASE UNCHANGED vars
  BY <1>1 DEF Types, vars
<1>2. CASE ClientSends
  <2>1. client' \in Clients
    <3>1. PICK n \in Nat : n = client.sent + 1
      BY DEF Types, Clients
    <3>2. \/ client' = [client EXCEPT !.sent = n]
          \/ \E e \in {"end", "trailers", "bad-trailers"} : client' = [client EXCEPT !.end = e]
      BY <1>2, <3>1 DEF ClientSends
    <3> QED
      BY <3>2 DEF Types, Clients
  <2> QED
    BY <1>2, <2>1 DEF Types, ClientSends
<1>3. CASE ClientResets
  <2>1. client' \in Clients
    BY <1>3 DEF Types, ClientResets, Clients, Cuts
  <2> QED
    BY <1>3, <2>1 DEF Types, ClientResets
<1>15. CASE ClientStalls
  <2>1. client' \in Clients
    BY <1>15 DEF Types, ClientStalls, Clients
  <2> QED
    BY <1>15, <2>1 DEF Types, ClientStalls
<1>4. CASE PumpFrame
  <2>1. pump.taken + 1 \in Nat /\ pump.taken \in Nat
    BY DEF Types, Pumps
  <2>2. reqChan' \in Seq(Nat) /\ reqOpen' \in BOOLEAN
    <3>1. \A x \in Nat : Append(reqChan, x) \in Seq(Nat)
      BY DEF Types
    <3> QED
      BY <1>4, <2>1, <3>1 DEF Types, PumpFrame
  <2>3. pump' \in Pumps
    <3> DEFINE last == CASE client.end = "trailers" -> "trailers"
                         [] client.end \in {"reset", "bad-trailers"} -> Err
                         [] OTHER -> None
    <3>1. client.end \notin {None, "end", "cancel"} => last \in {"trailers", Err}
      <4>1. client.end \in {None, "end", "trailers", "bad-trailers", "reset", "cancel"}
        BY DEF Types, Clients
      <4> QED
        BY <4>1
    <3>2. PICK data \in BOOLEAN :
            /\ ~data => client.end # None
            /\ \/ pump' = [pump EXCEPT !.state = "done"]
               \/ /\ data \/ client.end \notin {"end", "cancel"}
                  /\ pump' = [state |-> IF ~data \/ Gone THEN (IF data THEN "done" ELSE last) ELSE "run",
                              taken |-> IF data THEN pump.taken + 1 ELSE pump.taken]
      BY <1>4, Zenon DEF PumpFrame
    <3> HIDE DEF last
    <3>3. CASE pump' = [pump EXCEPT !.state = "done"]
      BY <3>3 DEF Types, Pumps
    <3>4. CASE /\ data \/ client.end \notin {"end", "cancel"}
               /\ pump' = [state |-> IF ~data \/ Gone THEN (IF data THEN "done" ELSE last) ELSE "run",
                           taken |-> IF data THEN pump.taken + 1 ELSE pump.taken]
      BY <2>1, <3>1, <3>2, <3>4 DEF Pumps
    <3> QED
      BY <3>2, <3>3, <3>4
  <2> QED
    BY <1>4, <2>2, <2>3 DEF Types, PumpFrame
<1>5. CASE ReadRequest
  <2>1. reqChan # <<>> => Head(reqChan) \in Nat /\ Tail(reqChan) \in Seq(Nat)
    BY DEF Types
  <2>2. reader' \in Readers
    <3>1. reqChan # <<>> => Append(reader.read, Head(reqChan)) \in Seq(Nat)
      BY <2>1 DEF Types, Readers
    <3>2. CASE reqChan # <<>> /\ reader' = [reader EXCEPT !.read = Append(@, Head(reqChan))]
      BY <3>1, <3>2 DEF Types, Readers
    <3>3. CASE \E e \in {Err, "terminal", "timeout"} : reader' = [reader EXCEPT !.end = e]
      BY <3>3 DEF Types, Readers
    <3> QED
      BY <1>5, <3>2, <3>3 DEF ReadRequest
  <2> QED
    BY <1>5, <2>1, <2>2 DEF Types, ReadRequest
<1>6. CASE Interim
  <2>1. worker' \in Workers
    BY <1>6 DEF Types, Interim, Workers, Stages
  <2>2. WriteTypes
    BY <1>6, HeadTypes DEF Interim
  <2> QED
    BY <1>6, <2>1, <2>2 DEF Types, Interim, WriteTypes
<1>7. CASE Respond
  <2>1. worker' \in Workers
    BY <1>7 DEF Types, Respond, Workers, Stages
  <2>2. WriteTypes
    BY <1>7, HeadTypes DEF Respond
  <2> QED
    BY <1>7, <2>1, <2>2 DEF Types, Respond, WriteTypes
<1>8. CASE StartWrite
  <2>1. worker' \in Workers
    BY <1>8 DEF Types, StartWrite, Workers, Stages
  <2> QED
    BY <1>8, <2>1 DEF Types, StartWrite
<1>9. CASE WriteBody
  <2>1. worker' \in Workers
    <3>1. PICK n \in Nat : n = worker.pos + 1
      BY DEF Types, Workers
    <3>2. \/ \E pc \in {"failing", "finishing"} : worker' = [worker EXCEPT !.pc = pc]
          \/ worker' = [worker EXCEPT !.pos = n, !.pc = "run"]
      BY <1>9, <3>1 DEF WriteBody
    <3> QED
      BY <3>2 DEF Types, Workers, Stages
  <2>2. WriteTypes
    BY <1>9, TokenTypes DEF WriteBody
  <2> QED
    BY <1>9, <2>1, <2>2 DEF Types, WriteBody, WriteTypes
<1>10. CASE Return
  <2>1. worker' \in Workers
    BY <1>10 DEF Types, Return, Workers, Stages
  <2> QED
    BY <1>10, <2>1 DEF Types, Return
<1>11. CASE End
  <2>1. WriteTypes
    <3>1. CASE SignalError
      BY <3>1, SignalTypes
    <3>2. CASE UNCHANGED <<head, bodyChan, bodyOpen>>
      BY <3>2 DEF Types, WriteTypes
    <3> QED
      BY <1>11, <3>1, <3>2 DEF End
  <2>2. worker' \in Workers
    BY <1>11 DEF Types, End, Workers, Stages
  <2> QED
    BY <1>11, <2>1, <2>2 DEF Types, End, WriteTypes
<1>12. CASE Drop
  <2>1. worker' \in Workers
    BY <1>12 DEF Types, Drop, Workers, Stages
  <2>2. head' \in Heads
    BY <1>12 DEF Types, Drop, Heads
  <2> QED
    BY <1>12, <2>1, <2>2 DEF Types, Drop
<1>13. CASE TakeHead
  <2>1. head \in Heads /\ client \in Clients
    BY DEF Types
  <2>2. client' \in Clients
    BY <1>13, <2>1 DEF TakeHead, Clients, Heads
  <2> QED
    BY <1>13, <2>2 DEF Types, TakeHead
<1>14. CASE TakeFrame
  <2>1. bodyChan # <<>> => Head(bodyChan) \in Nat /\ Tail(bodyChan) \in Seq(Nat)
    BY DEF Types
  <2>2. client' \in Clients
    <3>1. bodyChan # <<>> => Append(client.got, Head(bodyChan)) \in Seq(Nat)
      BY <2>1 DEF Types, Clients
    <3>2. CASE bodyChan # <<>> /\ client' = [client EXCEPT !.got = Append(@, Head(bodyChan))]
      BY <3>1, <3>2 DEF Types, Clients
    <3>3. CASE \E e \in {"clean", "reset-by-proxy"} : client' = [client EXCEPT !.over = e]
      BY <3>3 DEF Types, Clients
    <3> QED
      BY <1>14, <3>2, <3>3 DEF TakeFrame
  <2> QED
    BY <1>14, <2>1, <2>2 DEF Types, TakeFrame
<1> QED
  BY <1>1, <1>2, <1>3, <1>4, <1>5, <1>6, <1>7, <1>8, <1>9, <1>10, <1>11, <1>12, <1>13, <1>14,
     <1>15 DEF Next, Worker, Server

-----------------------------------------------------------------------------
(***************************************************************************)
(* The channels.                                                           *)
(***************************************************************************)

\* An error waits for room like a frame.
LEMMA SignalBound ==
    ASSUME Types, Bounded, CanSignal, SignalError
    PROVE  Len(bodyChan') <= Capacity
<1>1. Len(bodyChan) \in Nat /\ Len(Append(bodyChan, ErrFrame)) = Len(bodyChan) + 1
  BY DEF Types
<1>2. Capacity \in Nat
  BY H2BridgeAssumption
<1> QED
  BY <1>1, <1>2 DEF Bounded, CanSignal, SignalError

\* Every step keeps the channels within their capacity.
LEMMA BoundStep ==
    ASSUME Types, Bounded, [Next]_vars
    PROVE  Bounded'
<1>1. /\ Len(bodyChan) \in Nat /\ Len(reqChan) \in Nat /\ Capacity \in Nat
      /\ \A x : Len(Append(bodyChan, x)) = Len(bodyChan) + 1
      /\ \A x : Len(Append(reqChan, x)) = Len(reqChan) + 1
      /\ bodyChan # <<>> => Len(Tail(bodyChan)) = Len(bodyChan) - 1
      /\ reqChan # <<>> => Len(Tail(reqChan)) = Len(reqChan) - 1
  BY H2BridgeAssumption DEF Types
<1>2. ASSUME NEW status, NEW framing, NEW tokens, WriteHead(status, framing, tokens)
      PROVE  Len(bodyChan') <= Capacity
  <2>1. \/ bodyChan' = bodyChan
        \/ CanSignal /\ SignalError
    BY <1>2 DEF WriteHead
  <2> QED
    BY <2>1, SignalBound DEF Bounded
<1>3. ASSUME NEW token, WriteToken(token)
      PROVE  Len(bodyChan') <= Capacity
  <2>1. \/ bodyChan' = bodyChan
        \/ CanSignal /\ SignalError
        \/ Len(bodyChan) < Capacity /\ bodyChan' = Append(bodyChan, worker.pos + 1)
    BY <1>3 DEF WriteToken
  <2> QED
    BY <1>1, <2>1, SignalBound DEF Bounded
<1>4. CASE UNCHANGED <<reqChan, bodyChan>>
  BY <1>4 DEF Bounded
<1>5. CASE ClientSends \/ ClientResets \/ ClientStalls \/ StartWrite \/ Return \/ Drop \/ TakeHead
  BY <1>4, <1>5 DEF ClientSends, ClientResets, ClientStalls, StartWrite, Return, Drop, TakeHead
<1>6. CASE PumpFrame
  <2>1. /\ bodyChan' = bodyChan
        /\ \/ reqChan' = reqChan
           \/ Len(reqChan) < Capacity /\ \E x : reqChan' = Append(reqChan, x)
    BY <1>6 DEF PumpFrame
  <2> QED
    BY <1>1, <2>1 DEF Bounded
<1>7. CASE ReadRequest
  BY <1>1, <1>7 DEF ReadRequest, Bounded
<1>8. CASE Interim
  BY <1>2, <1>8 DEF Interim, Bounded
<1>9. CASE Respond
  BY <1>2, <1>9 DEF Respond, Bounded
<1>10. CASE WriteBody
  BY <1>3, <1>10 DEF WriteBody, Bounded
<1>11. CASE End
  <2>1. reqChan' = reqChan /\ (bodyChan' = bodyChan \/ (CanSignal /\ SignalError))
    BY <1>11 DEF End
  <2> QED
    BY <2>1, SignalBound DEF Bounded
<1>12. CASE TakeFrame
  BY <1>1, <1>12 DEF TakeFrame, Bounded
<1>13. CASE UNCHANGED vars
  BY <1>4, <1>13 DEF vars
<1> QED
  BY <1>5, <1>6, <1>7, <1>8, <1>9, <1>10, <1>11, <1>12, <1>13 DEF Next, Worker, Server

-----------------------------------------------------------------------------
(***************************************************************************)
(* The request.                                                            *)
(***************************************************************************)

\* The invariant is about the request's variables and whether the worker is gone.
LEMMA RequestKept ==
    ASSUME RequestInv, UNCHANGED <<client, pump, reqChan, reqOpen, reader>>,
           worker.pc = "gone" => worker'.pc = "gone"
    PROVE  RequestInv'
  BY DEF RequestInv, RequestTruth, PumpInv, ChannelInv, Gone, Marked

\* What the client may still do to a request that has not ended.
LEMMA ClientRequest ==
    ASSUME Types, RequestInv, ClientSends \/ ClientResets \/ ClientStalls
    PROVE  RequestInv'
<1>1. /\ UNCHANGED <<pump, reqChan, reqOpen, reader, worker>>
      /\ (client'.sent = client.sent /\ client'.end = client.end) \/ client.end = None
  BY DEF ClientSends, ClientResets, ClientStalls, Types, Clients
<1>2. RequestTruth'
  BY <1>1 DEF RequestInv, RequestTruth, None
<1>3. ~Gone => PumpInv'
  BY <1>1 DEF RequestInv, PumpInv, Gone, None
<1>4. ~Gone /\ reader.end = None => ChannelInv'
  BY <1>1 DEF RequestInv, ChannelInv, Marked
<1> QED
  BY <1>1, <1>2, <1>3, <1>4 DEF RequestInv, Gone

\* The pump puts the next frame behind the others, or the mark behind the last one.
LEMMA PumpRequest ==
    ASSUME Types, RequestInv, PumpFrame
    PROVE  RequestInv'
<1>1. UNCHANGED <<client, reader, worker>> /\ pump.state = "run"
  BY DEF PumpFrame
<1>2. RequestTruth'
  BY <1>1 DEF RequestInv, RequestTruth
<1>3. CASE Gone
  BY <1>1, <1>2, <1>3 DEF RequestInv, Gone
<1>4. CASE ~Gone
  <2> DEFINE last == CASE client.end = "trailers" -> "trailers"
                       [] client.end \in {"reset", "bad-trailers"} -> Err
                       [] OTHER -> None
             ahead == pump.taken - Len(reader.read)
  <2>1. /\ client.end = "trailers" => last = "trailers"
        /\ client.end \in {"reset", "bad-trailers"} => last = Err
    OBVIOUS
  <2>2. PICK data \in BOOLEAN :
          /\ IF data THEN pump.taken < client.sent
             ELSE client.end # None /\ (pump.taken = client.sent \/ client.end \in Cuts)
          /\ IF ~data /\ client.end \in {"end", "cancel"}
             THEN pump' = [pump EXCEPT !.state = "done"] /\ reqOpen' = FALSE /\ UNCHANGED reqChan
             ELSE /\ reqChan' = Append(reqChan, IF data THEN pump.taken + 1 ELSE 0)
                  /\ reqOpen' = data
                  /\ pump' = [state |-> IF data THEN "run" ELSE last,
                              taken |-> IF data THEN pump.taken + 1 ELSE pump.taken]
    <3>1. PICK data \in BOOLEAN :
          /\ IF data THEN pump.taken < client.sent
             ELSE client.end # None /\ (pump.taken = client.sent \/ client.end \in Cuts)
          /\ IF ~data /\ client.end \in {"end", "cancel"}
             THEN pump' = [pump EXCEPT !.state = "done"] /\ reqOpen' = FALSE /\ UNCHANGED reqChan
             ELSE /\ reqChan' = IF Gone THEN reqChan
                                ELSE Append(reqChan, IF data THEN pump.taken + 1 ELSE 0)
                  /\ reqOpen' = ~(~data \/ Gone)
                  /\ pump' = [state |-> IF ~data \/ Gone THEN (IF data THEN "done" ELSE last) ELSE "run",
                              taken |-> IF data THEN pump.taken + 1 ELSE pump.taken]
      BY Zenon DEF PumpFrame
    <3> HIDE DEF last
    <3> QED
      BY <1>4, <3>1
  <2> HIDE DEF last
  <2>3. /\ PumpInv /\ (reader.end = None => ChannelInv)
        /\ pump.taken \in Nat /\ reqChan \in Seq(Nat) /\ Len(reader.read) \in Nat
        /\ pump \in Pumps
        /\ client.end \in {None, "end", "trailers", "bad-trailers", "reset", "cancel"}
    BY <1>4 DEF RequestInv, Types, Pumps, Readers, Clients
  <2>4. reader.end = None => /\ ahead \in Nat /\ Len(reqChan) = ahead
                             /\ \A i \in 1..Len(reqChan) : reqChan[i] = Len(reader.read) + i
    BY <1>1, <2>3 DEF ChannelInv, Marked, Err
  <2>5. CASE data
    <3>1. /\ pump'.state = "run" /\ pump'.taken = pump.taken + 1 /\ reqOpen'
          /\ reqChan' = Append(reqChan, pump.taken + 1)
      BY <2>2, <2>5
    <3>2. PumpInv'
      BY <3>1 DEF PumpInv, Err
    <3>3. ASSUME reader.end = None PROVE ChannelInv'
      <4>1. /\ Len(reqChan') = ahead + 1 /\ reqChan'[ahead + 1] = pump.taken + 1
            /\ \A i \in 1..ahead : reqChan'[i] = Len(reader.read) + i
        BY <2>3, <2>4, <3>1, <3>3
      <4>2. ASSUME NEW i \in 1..Len(reqChan') PROVE reqChan'[i] = Len(reader.read) + i
        <5>1. i \in 1..ahead \/ i = ahead + 1
          BY <2>4, <3>3, <4>1
        <5>2. Len(reader.read) + (ahead + 1) = pump.taken + 1
          BY <2>3
        <5> QED
          BY <4>1, <5>1, <5>2
      <4>3. ~Marked'
        BY <3>1 DEF Marked, Err
      <4>4. /\ reader' = reader /\ Len(reader.read) <= pump'.taken
            /\ pump'.taken - Len(reader.read) = ahead + 1
        <5>1. \A m, n \in Nat : n - m \in Nat => m <= n + 1 /\ (n + 1) - m = (n - m) + 1
          OBVIOUS
        <5>2. pump.taken \in Nat /\ Len(reader.read) \in Nat
          BY <2>3
        <5>3. pump.taken - Len(reader.read) \in Nat
          BY <2>4, <3>3
        <5>4. /\ Len(reader.read) <= pump.taken + 1
              /\ (pump.taken + 1) - Len(reader.read) = ahead + 1
          BY <5>1, <5>2, <5>3
        <5> QED
          BY <1>1, <3>1, <5>4
      <4>5. \A i \in 1..Len(reqChan') : i <= ahead + 1
        BY <2>4, <3>3, <4>1
      <4> HIDE DEF ahead
      <4> QED
        BY <4>1, <4>2, <4>3, <4>4, <4>5 DEF ChannelInv
    <3> QED
      BY <1>1, <1>2, <3>2, <3>3 DEF RequestInv
  <2>6. CASE ~data /\ client.end \in {"end", "cancel"}
    <3>1. /\ pump'.state = "done" /\ pump'.taken = pump.taken /\ reqOpen' = FALSE
          /\ reqChan' = reqChan /\ (pump.taken = client.sent \/ client.end = "cancel")
      BY <2>2, <2>3, <2>6 DEF Pumps, Cuts
    <3>2. PumpInv'
      BY <1>1, <2>6, <3>1 DEF PumpInv, Err
    <3>3. reader.end = None => ChannelInv'
      BY <1>1, <2>3, <3>1 DEF ChannelInv, Marked, Err
    <3> QED
      BY <1>1, <1>2, <3>2, <3>3 DEF RequestInv
  <2>7. CASE ~data /\ client.end \notin {"end", "cancel"}
    <3>1. /\ pump'.state = last /\ pump'.taken = pump.taken /\ reqOpen' = FALSE
          /\ reqChan' = Append(reqChan, 0) /\ last \in {"trailers", Err}
          /\ last = "trailers" => client.end = "trailers" /\ pump.taken = client.sent
          /\ last = Err => client.end \in {"reset", "bad-trailers"}
      BY <2>1, <2>2, <2>3, <2>7 DEF Err, Cuts
    <3>2. PumpInv'
      BY <1>1, <3>1 DEF PumpInv, Err
    <3>3. ASSUME reader.end = None PROVE ChannelInv'
      <4>1. /\ Len(reqChan') = ahead + 1 /\ reqChan'[ahead + 1] = 0
            /\ \A i \in 1..ahead : reqChan'[i] = Len(reader.read) + i
        BY <2>3, <2>4, <3>1, <3>3
      <4>2. \A i \in 1..Len(reqChan') : reqChan'[i] = IF i <= ahead THEN Len(reader.read) + i ELSE 0
        BY <2>3, <2>4, <3>3, <4>1
      <4>3. Marked'
        BY <3>1 DEF Marked
      <4> QED
        BY <1>1, <2>3, <2>4, <3>1, <3>3, <4>1, <4>2, <4>3 DEF ChannelInv
    <3> QED
      BY <1>1, <1>2, <3>2, <3>3 DEF RequestInv
  <2> QED
    BY <2>5, <2>6, <2>7
<1> QED
  BY <1>3, <1>4

\* The pipeline reads the next frame, or learns how the request ended.
LEMMA ReadStep ==
    ASSUME Types, RequestInv, ReadRequest
    PROVE  RequestInv'
<1>1. /\ UNCHANGED <<client, pump, reqOpen, worker>> /\ reader.end = None /\ ~Gone
      /\ reader \in Readers /\ reqChan \in Seq(Nat)
  BY DEF ReadRequest, Running, Gone, Types
<1>2. /\ PumpInv /\ ChannelInv /\ RequestTruth
      /\ pump.taken \in Nat /\ reader.read \in Seq(Nat) /\ Len(reader.read) \in Nat
      /\ pump.state \in {"run", "done", "trailers", Err}
  BY <1>1 DEF RequestInv, Types, Pumps, Readers
<1> DEFINE n == Len(reader.read)
           ahead == pump.taken - n
<1>3. PumpInv'
  BY <1>1, <1>2 DEF PumpInv
<1>4. CASE reqChan # <<>> /\ Head(reqChan) # 0
  <2>1. reqChan' = Tail(reqChan) /\ reader' = [reader EXCEPT !.read = Append(@, Head(reqChan))]
    BY <1>4 DEF ReadRequest
  <2>2. /\ Len(reqChan) \in Nat \ {0} /\ Head(reqChan) = reqChan[1] /\ 1 \in 1..Len(reqChan)
        /\ Len(Tail(reqChan)) = Len(reqChan) - 1
        /\ \A i \in 1..Len(reqChan) - 1 : Tail(reqChan)[i] = reqChan[i + 1] /\ i + 1 \in 1..Len(reqChan)
    BY <1>1, <1>4
  <2>3. 1 <= ahead /\ reqChan[1] = n + 1
    BY <1>2, <1>4, <2>2 DEF ChannelInv
  <2>4. /\ reader'.read = Append(reader.read, n + 1) /\ reader'.end = None
        /\ Len(reader'.read) = n + 1
    BY <1>1, <1>2, <2>1, <2>2, <2>3 DEF Readers
  <2>5. RequestTruth'
    <3>1. reader.read = [i \in 1..n |-> i]
      BY <1>2 DEF RequestTruth
    <3>2. \A i \in 1..n + 1 : Append(reader.read, n + 1)[i] = i
      BY <1>2, <3>1
    <3>3. Append(reader.read, n + 1) = [i \in 1..n + 1 |-> i]
      BY <1>2, <3>2
    <3> QED
      BY <2>4, <3>3 DEF RequestTruth, None
  <2>6. ChannelInv'
    <3>1. pump' = pump /\ Marked' = Marked
      BY <1>1 DEF Marked
    <3>2. /\ n + 1 <= pump.taken /\ pump.taken - (n + 1) = ahead - 1 /\ ahead \in Nat
      BY <1>2, <2>3
    <3>3. Len(reqChan') = IF Marked THEN ahead - 1 + 1 ELSE ahead - 1
      BY <1>2, <2>1, <2>2, <3>2 DEF ChannelInv
    <3>4. ASSUME NEW i \in 1..Len(reqChan')
          PROVE  reqChan'[i] = IF i <= ahead - 1 THEN n + 1 + i ELSE 0
      <4>1. reqChan'[i] = reqChan[i + 1] /\ i + 1 \in 1..Len(reqChan) /\ i \in Nat
        BY <2>1, <2>2
      <4>2. reqChan[i + 1] = IF i + 1 <= ahead THEN n + (i + 1) ELSE 0
        BY <1>2, <4>1 DEF ChannelInv
      <4>3. (i + 1 <= ahead <=> i <= ahead - 1) /\ n + (i + 1) = n + 1 + i
        <5>1. n \in Nat /\ ahead \in Nat /\ i \in Nat
          BY <1>2, <3>2, <4>1
        <5> HIDE DEF n, ahead
        <5> QED
          BY <5>1
      <4>4. CASE i <= ahead - 1
        BY <4>1, <4>2, <4>3, <4>4
      <4>5. CASE ~(i <= ahead - 1)
        BY <4>1, <4>2, <4>3, <4>5
      <4> QED
        BY <4>4, <4>5
    <3> QED
      BY <2>4, <3>1, <3>2, <3>3, <3>4 DEF ChannelInv
  <2> QED
    BY <1>1, <1>3, <2>5, <2>6 DEF RequestInv, Gone
<1>5. CASE reqChan # <<>> /\ Head(reqChan) = 0
  <2>1. reader' = [reader EXCEPT !.end = IF pump.state = Err THEN Err ELSE "terminal"]
    BY <1>5 DEF ReadRequest
  <2>2. Len(reqChan) \in Nat \ {0} /\ reqChan[1] = 0 /\ 1 \in 1..Len(reqChan)
    BY <1>1, <1>5
  <2>3. ahead = 0 /\ Marked
    BY <1>2, <2>2 DEF ChannelInv
  <2>4. /\ reader'.read = reader.read
        /\ reader'.end = IF pump.state = Err THEN Err ELSE "terminal"
    BY <1>1, <2>1 DEF Readers
  <2>5. pump.state # Err => client.end = "trailers" /\ n = client.sent
    BY <1>2, <2>3 DEF Marked, PumpInv
  <2>6. RequestTruth'
    BY <1>1, <1>2, <2>4, <2>5 DEF RequestTruth, Err
  <2> QED
    BY <1>3, <2>4, <2>6 DEF RequestInv, None, Err
<1>6. CASE reqChan = <<>> /\ ~reqOpen
  <2>1. reader'.read = reader.read /\ reader'.end = "terminal"
    BY <1>1, <1>6 DEF ReadRequest, Readers
  <2>2. Len(reqChan) = 0
    BY <1>6
  <2>3. ahead = 0 /\ ~Marked
    BY <1>2, <2>2 DEF ChannelInv
  <2>4. (client.end = "end" /\ n = client.sent) \/ client.end = "cancel"
    <3>1. pump.state = "done"
      BY <1>2, <1>6, <2>3 DEF Marked, PumpInv
    <3>2. n = pump.taken
      BY <1>2, <2>3
    <3> QED
      BY <1>2, <3>1, <3>2 DEF PumpInv
  <2>5. RequestTruth'
    BY <1>1, <1>2, <2>1, <2>4 DEF RequestTruth
  <2> QED
    BY <1>3, <2>1, <2>5 DEF RequestInv, None
<1>7. CASE reqChan = <<>> /\ reqOpen
  <2>1. reader'.read = reader.read /\ reader'.end = "timeout"
    BY <1>1, <1>7 DEF ReadRequest, Readers
  <2>2. RequestTruth'
    BY <1>1, <1>2, <2>1 DEF RequestTruth
  <2> QED
    BY <1>3, <2>1, <2>2 DEF RequestInv, None
<1> QED
  BY <1>4, <1>5, <1>6, <1>7

\* Every step keeps what is known of the request.
LEMMA RequestStep ==
    ASSUME Types, RequestInv, [Next]_vars
    PROVE  RequestInv'
<1>1. CASE ClientSends \/ ClientResets \/ ClientStalls
  BY <1>1, ClientRequest
<1>2. CASE PumpFrame
  BY <1>2, PumpRequest
<1>3. CASE ReadRequest
  BY <1>3, ReadStep
<1>4. CASE Worker
  <2>1. UNCHANGED <<client, pump, reqChan, reqOpen, reader>> /\ worker.pc # "gone"
    BY <1>4, Zenon DEF Worker, Interim, Respond, StartWrite, WriteBody, Return, End, Drop, Running
  <2> QED
    BY <2>1, RequestKept
<1>5. CASE UNCHANGED vars
  BY <1>5, RequestKept DEF vars
<1>6. CASE TakeHead \/ TakeFrame
  <2>1. /\ UNCHANGED <<pump, reqChan, reqOpen, reader, worker>>
        /\ client'.sent = client.sent /\ client'.end = client.end
    BY <1>6 DEF TakeHead, TakeFrame, Types, Clients
  <2> QED
    BY <2>1 DEF RequestInv, RequestTruth, PumpInv, ChannelInv, Gone, Marked
<1> QED
  BY <1>1, <1>2, <1>3, <1>4, <1>5, <1>6 DEF Next, Server

-----------------------------------------------------------------------------
(***************************************************************************)
(* The response.                                                           *)
(***************************************************************************)

\* What is known of the response and of the sequences.
LEMMA StreamFacts ==
    ASSUME Types
    PROVE  /\ worker.response \in Responses /\ worker.pos \in Nat
           /\ Owed \in SUBSET (Nat \ {0}) /\ Owed = FramesOf(worker.response)
           /\ client.got \in Seq(Nat) /\ bodyChan \in Seq(Nat)
<1>1. worker.response \in Responses /\ worker.pos \in Nat
  BY DEF Types, Workers
<1>2. Owed \in SUBSET (Nat \ {0})
  BY <1>1, FramesPlaces DEF Owed
<1>3. client.got \in Seq(Nat) /\ bodyChan \in Seq(Nat)
  BY DEF Types, Clients
<1> QED
  BY <1>1, <1>2, <1>3 DEF Owed

\* A step that leaves the channel and what the client has received alone.
LEMMA StreamKept ==
    ASSUME StreamInv,
           UNCHANGED <<head, bodyChan, bodyOpen, listening, writer, worker>>,
           client'.got = client.got, client'.status = client.status, client'.over = client.over
    PROVE  StreamInv'
<1>1. Owed' = Owed
  BY DEF Owed
<1>2. ProgressInv' /\ ClosedInv' = ClosedInv
  BY DEF StreamInv, ProgressInv, ClosedInv
<1>3. ClientInv'
  BY <1>1 DEF StreamInv, ClientInv
<1> QED
  BY <1>1, <1>2, <1>3 DEF StreamInv

\* A client that resets its stream.
LEMMA ResetStep ==
    ASSUME Types, StreamInv, ClientResets
    PROVE  StreamInv'
<1>1. /\ client'.got = client.got /\ client'.status = client.status /\ client'.over = "reset"
      /\ listening' = FALSE /\ UNCHANGED <<head, bodyChan, bodyOpen, writer, worker>>
  BY DEF ClientResets, Types, Clients, Cuts
<1>2. Owed' = Owed
  BY <1>1 DEF Owed
<1>3. ProgressInv' /\ (head = "200" => ClosedInv')
  BY <1>1 DEF StreamInv, ProgressInv, ClosedInv
<1>4. ClientInv'
  BY <1>1, <1>2 DEF StreamInv, ClientInv, None
<1> QED
  BY <1>1, <1>2, <1>3, <1>4 DEF StreamInv

\* The worker goes on without touching the bridge.
LEMMA WorkerMoves ==
    ASSUME StreamInv, UNCHANGED <<client, head, bodyChan, bodyOpen, listening, writer>>,
           worker'.response = worker.response, worker'.pos = worker.pos,
           worker'.headed = worker.headed,
           worker'.pc \in {"writing", "failing", "finishing"},
           worker'.pc # "failing" => worker.headed,
           worker'.pc = "writing" => worker.pos < Len(worker.response.tokens)
    PROVE  StreamInv'
<1>1. Owed' = Owed
  BY DEF Owed
<1>2. ProgressInv' /\ ClosedInv' = ClosedInv
  BY DEF StreamInv, ProgressInv, ClosedInv
<1>3. ClientInv'
  BY <1>1 DEF StreamInv, ClientInv
<1> QED
  BY <1>1, <1>2, <1>3 DEF StreamInv

\* An error goes to the head when that is still owed, behind the frames otherwise.
LEMMA Signalled ==
    ASSUME Types, StreamInv, SignalError
    PROVE  /\ writer' \in Writers /\ writer'.state = "failed"
           /\ head' = IF head = None THEN Err ELSE head
           /\ FramesAt(Owed, client.got, bodyChan', worker.pos)
           /\ bodyOpen' => NoError(bodyChan')
           /\ head # "200" => \A i \in 1..Len(bodyChan') : bodyChan'[i] = ErrFrame
           /\ head = "200" =>
                /\ ~bodyOpen'
                /\ Whole(worker.response, worker.pos) \/ ~listening \/ ~NoError(bodyChan')
<1>1. writer' = [state |-> "failed", left |-> 0]
  BY DEF SignalError
<1>2. writer' \in Writers /\ writer'.state = "failed"
  BY <1>1 DEF Writers
<1>3. CASE head = None
  <2>1. head' = Err /\ bodyChan' = bodyChan /\ bodyOpen' = bodyOpen
    BY <1>3 DEF SignalError
  <2> QED
    BY <1>2, <1>3, <2>1 DEF StreamInv, ProgressInv, None
<1>4. CASE head # None /\ bodyOpen /\ listening
  <2>1. head' = head /\ bodyChan' = Append(bodyChan, ErrFrame) /\ bodyOpen' = FALSE
    BY <1>4 DEF SignalError
  <2>2. NoError(bodyChan) /\ FramesAt(Owed, client.got, bodyChan, worker.pos)
    BY <1>4 DEF StreamInv, ProgressInv
  <2>3. FramesAt(Owed, client.got, bodyChan', worker.pos) /\ ~NoError(bodyChan')
    BY <2>1, <2>2, StreamFacts, FramesError
  <2>4. head # "200" => \A i \in 1..Len(bodyChan') : bodyChan'[i] = ErrFrame
    <3>1. ASSUME head # "200", NEW i \in 1..Len(bodyChan') PROVE bodyChan'[i] = ErrFrame
      <4>1. bodyChan \in Seq(Nat) /\ \A j \in 1..Len(bodyChan) : bodyChan[j] = ErrFrame
        BY <3>1, StreamFacts DEF StreamInv, ProgressInv
      <4> QED
        BY <2>1, <4>1
    <3> QED
      BY <3>1
  <2> QED
    BY <1>2, <1>4, <2>1, <2>3, <2>4
<1>5. CASE head # None /\ ~(bodyOpen /\ listening)
  <2>1. head' = head /\ bodyChan' = bodyChan /\ bodyOpen' = FALSE
    BY <1>5 DEF SignalError
  <2> QED
    BY <1>2, <1>5, <2>1 DEF StreamInv, ProgressInv, ClosedInv
<1> QED
  BY <1>3, <1>4, <1>5

\* A response that ends with an error.
LEMMA StreamFails ==
    ASSUME Types, StreamInv, SignalError, UNCHANGED <<client, listening>>,
           worker'.response = worker.response, worker'.pos = worker.pos,
           worker.headed => worker'.headed,
           worker'.pc \in {"failing", "finishing", "dropping"},
           worker'.pc = "finishing" => worker'.headed
    PROVE  StreamInv'
<1>1. Owed' = Owed
  BY DEF Owed
<1>2. /\ writer' \in Writers /\ writer'.state = "failed"
      /\ head' = IF head = None THEN Err ELSE head
      /\ FramesAt(Owed, client.got, bodyChan', worker.pos)
      /\ bodyOpen' => NoError(bodyChan')
      /\ head # "200" => \A i \in 1..Len(bodyChan') : bodyChan'[i] = ErrFrame
      /\ head = "200" =>
           /\ ~bodyOpen'
           /\ Whole(worker.response, worker.pos) \/ ~listening \/ ~NoError(bodyChan')
  BY Signalled
<1>3. ProgressInv'
  BY <1>2 DEF StreamInv, ProgressInv, None, Err
<1>4. ClientInv'
  BY <1>1, <1>2 DEF StreamInv, ClientInv, None, Err
<1>5. head' = "200" => WriterAt(worker.response, writer', worker.pos) /\ ClosedInv'
  BY <1>2 DEF WriterAt, Between, ClosedInv, Err
<1> QED
  BY <1>1, <1>2, <1>3, <1>4, <1>5 DEF StreamInv

\* The worker writes the head of its response.
LEMMA RespondStep ==
    ASSUME Types, ~worker.expects, StreamInv, Respond
    PROVE  StreamInv'
<1> DEFINE r == worker.response
           state == StateOf(r.framing, r.tokens)
           w == [state |-> state, left |-> DataLen(r.tokens)]
<1>1. /\ ~worker.headed /\ worker.pc = "run" /\ UNCHANGED <<client, listening>>
      /\ WriteHead("200", r.framing, r.tokens)
      /\ worker' = [worker EXCEPT !.headed = TRUE,
                                  !.pc = IF writer'.state = "failed" THEN "failing" ELSE "run"]
  BY DEF Respond, Running
<1>2. /\ worker'.response = r /\ worker'.pos = worker.pos /\ worker'.headed
      /\ worker'.pc = IF writer'.state = "failed" THEN "failing" ELSE "run"
  BY <1>1 DEF Types, Workers
<1>3. /\ writer.state = "head" /\ head = None /\ bodyOpen /\ worker.pos = 0
      /\ NoError(bodyChan) /\ r \in Responses /\ client.got = <<>>
      /\ \A i \in 1..Len(bodyChan) : bodyChan[i] = ErrFrame
  BY <1>1, StreamFacts DEF StreamInv, ProgressInv, None
<1>4. Owed' = Owed
  BY <1>2 DEF Owed
<1> HIDE DEF r
<1>5. CASE r.framing = "upgrade"
  <2>1. SignalError
    BY <1>1, <1>3, <1>5 DEF WriteHead
  <2>2. writer'.state = "failed"
    BY <2>1 DEF SignalError
  <2> QED
    BY <1>1, <1>2, <2>1, <2>2, StreamFails DEF r
<1>6. CASE r.framing # "upgrade" /\ ~listening
  <2>1. /\ head' = "dropped" /\ bodyOpen' = FALSE /\ bodyChan' = bodyChan
        /\ writer' = [state |-> "failed", left |-> 0]
    BY <1>1, <1>3, <1>6 DEF WriteHead
  <2>2. writer' \in Writers /\ writer'.state = "failed"
    BY <2>1 DEF Writers
  <2>3. ProgressInv'
    BY <1>1, <1>2, <1>3, <2>1, <2>2 DEF ProgressInv, None
  <2>4. ClientInv'
    BY <1>1, <1>2, <1>3, <1>4, <2>1 DEF StreamInv, ClientInv, None, Err, r
  <2> QED
    BY <1>1, <1>2, <1>4, <2>1, <2>2, <2>3, <2>4 DEF StreamInv
<1>7. CASE r.framing # "upgrade" /\ listening
  <2>1. /\ head' = "200" /\ bodyChan' = bodyChan /\ writer' = w
        /\ bodyOpen' = (state \notin {"discard", "done"})
    BY <1>1, <1>3, <1>7 DEF WriteHead
  <2> HIDE DEF state, w
  <2>2. /\ WriterAt(r, w, 0) /\ w \in Writers /\ w.state = state
        /\ state \in {"discard", "done"} => Whole(r, 0)
        /\ state \notin {"failed", "head"}
    BY <1>3, <1>7, WriterStarts DEF state, w
  <2>3. ProgressInv'
    BY <1>1, <1>2, <1>3, <2>1, <2>2 DEF ProgressInv, None, NoError
  <2>4. ClientInv'
    BY <1>1, <1>2, <1>3, <1>4, <2>1 DEF StreamInv, ClientInv, None, Err, r
  <2>5. ClosedInv'
    BY <1>2, <1>3, <2>1, <2>2 DEF ClosedInv
  <2> QED
    BY <1>1, <1>2, <1>3, <1>4, <2>1, <2>2, <2>3, <2>4, <2>5 DEF StreamInv
<1> QED
  BY <1>5, <1>6, <1>7

\* The worker writes one token of the body, or fails to.
LEMMA WriteBodyStep ==
    ASSUME Types, ~worker.expects, StreamInv, WriteBody
    PROVE  StreamInv'
<1> DEFINE r == worker.response
           p == worker.pos
           token == r.tokens[p + 1]
           next == TokenState(token)
<1>1. /\ worker.pc = "writing" /\ WriteToken(token) /\ UNCHANGED <<client, listening>>
      /\ IF WriteFails(token)
         THEN \E pc \in {"failing", "finishing"} : worker' = [worker EXCEPT !.pc = pc]
         ELSE worker' = [worker EXCEPT !.pos = @ + 1, !.pc = "run"]
  BY DEF WriteBody
<1>2. /\ worker.headed /\ p < Len(r.tokens) /\ r \in Responses /\ p \in Nat
      /\ worker \in Workers /\ writer \in Writers
  BY <1>1, StreamFacts DEF StreamInv, ProgressInv, Types
<1>3. CASE WriteFails(token)
  <2>1. /\ worker'.response = r /\ worker'.pos = p /\ worker'.headed
        /\ worker'.pc \in {"failing", "finishing"}
    BY <1>1, <1>2, <1>3 DEF Workers
  <2>2. CASE writer.state = "done"
    <3>1. SignalError
      BY <1>1, <2>2 DEF WriteToken
    <3> QED
      BY <1>1, <2>1, <3>1, StreamFails
  <2>3. CASE writer.state # "done"
    <3>1. UNCHANGED <<writer, head, bodyChan, bodyOpen>>
      BY <1>1, <1>3, <2>3 DEF WriteToken, WriteFails
    <3> QED
      BY <1>1, <1>2, <2>1, <3>1, WorkerMoves
  <2> QED
    BY <2>2, <2>3
<1>4. CASE ~WriteFails(token)
  <2> DEFINE sends == IsContent(token) /\ writer.state # "discard"
  <2>1. worker'.response = r /\ worker'.pos = p + 1 /\ worker'.headed /\ worker'.pc = "run"
    BY <1>1, <1>2, <1>4 DEF Workers
  <2>2. /\ writer.state \notin {"done", "failed"} /\ head = "200"
    BY <1>2, <1>4 DEF WriteFails, StreamInv, ProgressInv
  <2>3. /\ bodyChan' = IF sends THEN Append(bodyChan, p + 1) ELSE bodyChan
        /\ bodyOpen' = (bodyOpen /\ next.state # "done")
        /\ writer' = next /\ head' = head
    BY <1>1, <1>4, <2>2 DEF WriteToken, WriteFails
  <2>4. /\ WriterAt(r, writer, p) /\ NoError(bodyChan)
        /\ FramesAt(Owed, client.got, bodyChan, p)
    BY <2>2 DEF StreamInv, ClosedInv
  <2>5. /\ WriterAt(r, next, p + 1) /\ next \in Writers
        /\ next.state \notin {"failed", "head"}
        /\ p + 1 \in FramesOf(r) <=> sends
    BY <1>2, <2>2, <2>4, WriterMoves
  <2> HIDE DEF next, sends
  <2>6. Owed' = Owed /\ Owed = FramesOf(r)
    BY <2>1 DEF Owed
  <2>7. FramesAt(Owed, client.got, bodyChan', p + 1) /\ NoError(bodyChan')
    <3>1. CASE sends
      BY <2>3, <2>4, <2>5, <2>6, <3>1, StreamFacts, FramesPush
    <3>2. CASE ~sends
      BY <2>3, <2>4, <2>5, <2>6, <3>2, StreamFacts, FramesSkip
    <3> QED
      BY <3>1, <3>2
  <2>8. ProgressInv'
    BY <1>2, <2>1, <2>2, <2>3, <2>7 DEF ProgressInv, None
  <2>9. ClientInv'
    BY <1>1, <2>1, <2>3, <2>6 DEF StreamInv, ClientInv
  <2>10. Whole(r, p) => Whole(r, p + 1)
    <3>1. \A q \in FramesOf(r) : q \in Nat /\ (q <= p => q <= p + 1)
      BY <1>2, FramesPlaces
    <3> QED
      BY <3>1 DEF Whole
  <2>11. ClosedInv'
    <3>1. ~bodyOpen' => Whole(r, p + 1) \/ ~listening
      <4>1. CASE next.state = "done"
        BY <2>5, <4>1 DEF WriterAt
      <4>2. CASE ~bodyOpen
        BY <2>2, <2>4, <2>10, <4>2 DEF StreamInv, ClosedInv
      <4> QED
        BY <2>3, <4>1, <4>2
    <3> QED
      BY <1>1, <2>1, <2>3, <2>5, <2>7, <3>1 DEF ClosedInv
  <2> QED
    BY <1>1, <2>1, <2>3, <2>5, <2>6, <2>7, <2>8, <2>9, <2>11 DEF StreamInv
<1> QED
  BY <1>3, <1>4

\* The pipeline has returned: its response is whole, or an error follows.
LEMMA EndStep ==
    ASSUME Types, ~worker.expects, StreamInv, End
    PROVE  StreamInv'
<1>1. worker' = [worker EXCEPT !.pc = "dropping"] /\ UNCHANGED <<client, listening>>
  BY DEF End
<1>2. /\ worker'.response = worker.response /\ worker'.pos = worker.pos
      /\ worker'.headed = worker.headed /\ worker'.pc = "dropping"
  BY <1>1 DEF Types, Workers
<1>3. CASE SignalError
  BY <1>1, <1>2, <1>3, StreamFails
<1>4. CASE /\ worker.pc = "finishing" /\ writer.state \in FinishStates
           /\ writer' = [writer EXCEPT !.state = IF @ = "failed" THEN @ ELSE "done"]
           /\ UNCHANGED <<head, bodyChan, bodyOpen>>
  <2>1. writer \in Writers /\ worker.headed
    BY <1>4 DEF StreamInv, ProgressInv
  <2>2. /\ writer' \in Writers
        /\ writer'.state = IF writer.state = "failed" THEN "failed" ELSE "done"
    BY <1>4, <2>1 DEF Writers
  <2>3. Owed' = Owed
    BY <1>2 DEF Owed
  <2>4. ProgressInv'
    BY <1>1, <1>2, <1>4, <2>1, <2>2 DEF StreamInv, ProgressInv
  <2>5. ClientInv'
    BY <1>1, <1>2, <1>4, <2>3 DEF StreamInv, ClientInv
  <2>6. ASSUME head = "200" PROVE WriterAt(worker.response, writer', worker.pos) /\ ClosedInv'
    <3>1. WriterAt(worker.response, writer, worker.pos) /\ ClosedInv
      BY <2>6 DEF StreamInv
    <3>2. writer.state # "failed" => Whole(worker.response, worker.pos)
      BY <1>4, <3>1 DEF FinishStates, WriterAt, Whole, FramesOf
    <3>3. WriterAt(worker.response, writer', worker.pos)
      BY <2>2, <3>2 DEF WriterAt, Between
    <3>4. ClosedInv'
      BY <1>1, <1>2, <1>4, <2>2, <3>1 DEF ClosedInv
    <3> QED
      BY <3>3, <3>4
  <2> QED
    BY <1>1, <1>2, <1>4, <2>2, <2>3, <2>4, <2>5, <2>6 DEF StreamInv
<1> QED
  BY <1>3, <1>4 DEF End

\* The bridge is dropped, and with it the senders.
LEMMA DropStep ==
    ASSUME Types, ~worker.expects, StreamInv, Drop
    PROVE  StreamInv'
<1>1. /\ worker.pc = "dropping" /\ worker' = [worker EXCEPT !.pc = "gone"]
      /\ bodyOpen' = FALSE /\ head' = IF head = None THEN "dropped" ELSE head
      /\ UNCHANGED <<client, bodyChan, listening, writer>>
  BY DEF Drop
<1>2. /\ worker'.response = worker.response /\ worker'.pos = worker.pos
      /\ worker'.headed = worker.headed /\ worker'.pc = "gone"
  BY <1>1 DEF Types, Workers
<1>3. Owed' = Owed
  BY <1>2 DEF Owed
<1>4. writer.state \in {"done", "failed"}
  BY <1>1 DEF StreamInv, ProgressInv
<1>5. ProgressInv'
  BY <1>1, <1>2, <1>4 DEF StreamInv, ProgressInv, None
<1>6. ClientInv'
  BY <1>1, <1>2, <1>3 DEF StreamInv, ClientInv, None, Err
<1>7. head = "200" => ClosedInv'
  BY <1>1, <1>2, <1>4 DEF StreamInv, ClosedInv, WriterAt
<1>8. head' = "200" => head = "200"
  BY <1>1
<1> QED
  BY <1>1, <1>2, <1>3, <1>5, <1>6, <1>7, <1>8 DEF StreamInv

\* The server task answers with the head, or with an error in its place.
LEMMA TakeHeadStep ==
    ASSUME Types, ~worker.expects, StreamInv, TakeHead
    PROVE  StreamInv'
<1>1. /\ listening /\ client.status = None /\ head # None
      /\ UNCHANGED <<head, bodyChan, bodyOpen, writer, worker>>
  BY DEF TakeHead
<1>2. Owed' = Owed
  BY <1>1 DEF Owed
<1>3. client.over = None /\ head \in {"200", Err, "dropped"}
  BY <1>1 DEF StreamInv, ClientInv, ProgressInv
<1>4. CASE head = "200"
  <2>1. client' = [client EXCEPT !.status = head] /\ listening' = TRUE
    BY <1>4 DEF TakeHead, Err
  <2>2. client'.got = client.got /\ client'.status = "200" /\ client'.over = None
    BY <1>3, <1>4, <2>1 DEF Types, Clients
  <2>3. listening' = listening
    BY <1>1, <2>1 DEF Types
  <2>4. ProgressInv' /\ ClosedInv'
    BY <1>1, <1>4, <2>2, <2>3 DEF StreamInv, ProgressInv, ClosedInv
  <2>5. ClientInv'
    BY <1>1, <1>4, <2>1, <2>2 DEF ClientInv, None
  <2> QED
    BY <1>1, <1>2, <1>4, <2>2, <2>4, <2>5 DEF StreamInv
<1>5. CASE head \in {Err, "dropped"}
  <2>1. client' = [client EXCEPT !.status = "502", !.over = "clean"] /\ listening' = FALSE
    BY <1>5 DEF TakeHead
  <2>2. client'.got = client.got /\ client'.status = "502" /\ client'.over = "clean"
    BY <2>1 DEF Types, Clients
  <2>3. ProgressInv'
    BY <1>1, <1>5, <2>2 DEF StreamInv, ProgressInv
  <2>4. ClientInv'
    BY <1>1, <1>5, <2>1, <2>2 DEF ClientInv, None
  <2> QED
    BY <1>1, <1>2, <1>5, <2>2, <2>3, <2>4 DEF StreamInv, Err
<1> QED
  BY <1>3, <1>4, <1>5

\* The server task passes a frame on, or learns how the body ended.
LEMMA TakeFrameStep ==
    ASSUME Types, ~worker.expects, StreamInv, TakeFrame
    PROVE  StreamInv'
<1>1. /\ listening /\ client.status # None
      /\ UNCHANGED <<head, bodyOpen, writer, worker>>
  BY DEF TakeFrame
<1>2. Owed' = Owed
  BY <1>1 DEF Owed
<1>3. client.over = None /\ client.status = "200" /\ head = "200"
  BY <1>1 DEF StreamInv, ClientInv
<1>4. FramesAt(Owed, client.got, bodyChan, worker.pos) /\ ProgressInv /\ ClosedInv /\ ClientInv
  BY <1>3 DEF StreamInv
<1>5. /\ Owed \in SUBSET (Nat \ {0}) /\ client.got \in Seq(Nat) /\ bodyChan \in Seq(Nat)
      /\ worker.pos \in Nat /\ Owed = FramesOf(worker.response)
  BY StreamFacts
<1>6. CASE bodyChan # <<>> /\ Head(bodyChan) = ErrFrame
  <2>1. /\ bodyChan' = Tail(bodyChan) /\ client' = [client EXCEPT !.over = "reset-by-proxy"]
        /\ listening' = FALSE
    BY <1>6 DEF TakeFrame
  <2>2. client'.got = client.got /\ client'.status = "200" /\ client'.over = "reset-by-proxy"
    BY <1>3, <2>1 DEF Types, Clients
  <2>3. Len(bodyChan') = 0 /\ FramesAt(Owed, client.got, bodyChan', worker.pos)
    BY <1>4, <1>5, <1>6, <2>1, FramesEnd
  <2>4. NoError(bodyChan')
    BY <2>3 DEF NoError
  <2>5. ProgressInv' /\ ClosedInv'
    BY <1>1, <1>3, <1>4, <2>1, <2>2, <2>4 DEF ProgressInv, ClosedInv
  <2>6. ClientInv'
    BY <1>1, <1>3, <2>1, <2>2 DEF ClientInv, None
  <2> QED
    BY <1>1, <1>2, <2>2, <2>3, <2>5, <2>6 DEF StreamInv
<1>7. CASE bodyChan # <<>> /\ Head(bodyChan) # ErrFrame
  <2>1. /\ bodyChan' = Tail(bodyChan)
        /\ client' = [client EXCEPT !.got = Append(@, Head(bodyChan))] /\ listening' = TRUE
    BY <1>7 DEF TakeFrame
  <2>2. /\ client'.got = Append(client.got, Head(bodyChan)) /\ client'.status = "200"
        /\ client'.over = None
    BY <1>3, <2>1 DEF Types, Clients
  <2>3. FramesAt(Owed, client'.got, bodyChan', worker.pos)
    BY <1>4, <1>5, <1>7, <2>1, <2>2, FramesTake
  <2>4. NoError(bodyChan') <=> NoError(bodyChan)
    <3>1. /\ Len(bodyChan) \in Nat \ {0} /\ Len(bodyChan') = Len(bodyChan) - 1
          /\ bodyChan[1] # ErrFrame /\ \A i \in 1..Len(bodyChan') : bodyChan'[i] = bodyChan[i + 1]
      BY <1>5, <1>7, <2>1
    <3>2. /\ \A i \in 1..Len(bodyChan) : i = 1 \/ i - 1 \in 1..Len(bodyChan')
          /\ \A i \in 1..Len(bodyChan') : i + 1 \in 1..Len(bodyChan)
          /\ \A i \in 1..Len(bodyChan) : (i - 1) + 1 = i
      BY <3>1
    <3>3. ASSUME NoError(bodyChan') PROVE NoError(bodyChan)
      <4>1. ASSUME NEW i \in 1..Len(bodyChan) PROVE bodyChan[i] # ErrFrame
        <5>1. CASE i = 1
          BY <3>1, <5>1
        <5>2. CASE i - 1 \in 1..Len(bodyChan')
          <6>1. bodyChan'[i - 1] = bodyChan[i]
            BY <3>1, <3>2, <5>2
          <6> QED
            BY <3>3, <5>2, <6>1 DEF NoError
        <5> QED
          BY <3>2, <5>1, <5>2
      <4> QED
        BY <4>1 DEF NoError
    <3>4. NoError(bodyChan) => NoError(bodyChan')
      BY <3>1, <3>2 DEF NoError
    <3> QED
      BY <3>3, <3>4
  <2>5. listening' = listening
    BY <1>1, <2>1 DEF Types
  <2>6. ProgressInv' /\ ClosedInv'
    BY <1>1, <1>3, <1>4, <2>1, <2>4, <2>5 DEF ProgressInv, ClosedInv
  <2>7. ClientInv'
    BY <1>1, <1>3, <2>1, <2>2 DEF ClientInv, None
  <2> QED
    BY <1>1, <1>2, <1>3, <2>3, <2>6, <2>7 DEF StreamInv
<1>8. CASE bodyChan = <<>>
  <2>1. /\ bodyChan' = bodyChan /\ ~bodyOpen /\ client' = [client EXCEPT !.over = "clean"]
        /\ listening' = FALSE
    BY <1>8 DEF TakeFrame
  <2>2. client'.got = client.got /\ client'.status = "200" /\ client'.over = "clean"
    BY <1>3, <2>1 DEF Types, Clients
  <2>3. Len(bodyChan) = 0 /\ NoError(bodyChan)
    BY <1>8 DEF NoError
  <2>4. Whole(worker.response, worker.pos)
    BY <1>1, <1>4, <2>1, <2>3 DEF ClosedInv
  <2>5. ToSet(client.got) = Owed \/ worker.response.framing = "close"
    <3>1. ASSUME worker.response.framing # "close" PROVE ToSet(client.got) = Owed
      <4>1. \A q \in Owed : \E i \in 1..Len(client.got) : client.got[i] = q
        BY <1>4, <1>5, <2>3, <2>4, <3>1 DEF Whole, FramesAt
      <4>2. \A i \in 1..Len(client.got) : client.got[i] \in Owed
        BY <1>4 DEF FramesAt
      <4>3. DOMAIN client.got = 1..Len(client.got)
        BY <1>5
      <4> QED
        BY <4>1, <4>2, <4>3 DEF ToSet
    <3> QED
      BY <3>1
  <2>6. ProgressInv' /\ ClosedInv'
    BY <1>1, <1>3, <1>4, <2>1, <2>2 DEF ProgressInv, ClosedInv
  <2>7. ClientInv'
    BY <1>1, <1>2, <1>3, <2>1, <2>2, <2>5 DEF ClientInv, None
  <2> QED
    BY <1>1, <1>2, <1>3, <1>4, <2>1, <2>2, <2>6, <2>7 DEF StreamInv
<1> QED
  BY <1>6, <1>7, <1>8

\* Every step keeps what is known of the response.
LEMMA StreamStep ==
    ASSUME Types, ~worker.expects, StreamInv, [Next]_vars
    PROVE  StreamInv'
<1>1. CASE ClientSends \/ ClientStalls
  <2>1. /\ UNCHANGED <<head, bodyChan, bodyOpen, listening, writer, worker>>
        /\ client'.got = client.got /\ client'.status = client.status
        /\ client'.over = client.over
    BY <1>1 DEF ClientSends, ClientStalls, Types, Clients
  <2> QED
    BY <2>1, StreamKept
<1>2. CASE ClientResets
  BY <1>2, ResetStep
<1>3. CASE PumpFrame \/ ReadRequest \/ UNCHANGED vars
  <2>1. UNCHANGED <<client, head, bodyChan, bodyOpen, listening, writer, worker>>
    BY <1>3, Zenon DEF PumpFrame, ReadRequest, vars
  <2> QED
    BY <2>1, StreamKept
<1>4. CASE Interim
  BY <1>4 DEF Interim
<1>5. CASE Respond
  BY <1>5, RespondStep
<1>6. CASE StartWrite
  <2>1. /\ worker' = [worker EXCEPT !.pc = "writing"] /\ worker.headed
        /\ worker.pos < Len(worker.response.tokens)
        /\ UNCHANGED <<client, head, bodyChan, bodyOpen, listening, writer>>
    BY <1>6 DEF StartWrite
  <2>2. /\ worker'.response = worker.response /\ worker'.pos = worker.pos
        /\ worker'.headed = worker.headed /\ worker'.pc = "writing"
    BY <2>1 DEF Types, Workers
  <2> QED
    BY <2>1, <2>2, WorkerMoves
<1>7. CASE WriteBody
  BY <1>7, WriteBodyStep
<1>8. CASE Return
  <2>1. /\ \/ worker' = [worker EXCEPT !.pc = "failing"]
           \/ worker.headed /\ worker' = [worker EXCEPT !.pc = "finishing"]
        /\ UNCHANGED <<client, head, bodyChan, bodyOpen, listening, writer>>
    BY <1>8 DEF Return
  <2>2. /\ worker'.response = worker.response /\ worker'.pos = worker.pos
        /\ worker'.headed = worker.headed /\ worker'.pc \in {"failing", "finishing"}
        /\ worker'.pc = "finishing" => worker.headed
    BY <2>1 DEF Types, Workers
  <2> QED
    BY <2>1, <2>2, WorkerMoves
<1>9. CASE End
  BY <1>9, EndStep
<1>10. CASE Drop
  BY <1>10, DropStep
<1>11. CASE TakeHead
  BY <1>11, TakeHeadStep
<1>12. CASE TakeFrame
  BY <1>12, TakeFrameStep
<1> QED
  BY <1>1, <1>2, <1>3, <1>4, <1>5, <1>6, <1>7, <1>8, <1>9, <1>10, <1>11, <1>12
     DEF Next, Worker, Server

-----------------------------------------------------------------------------
(***************************************************************************)
(* The invariant and what it means.                                        *)
(***************************************************************************)

\* A new stream.
LEMMA BridgeInit == Init => BridgeInv
<1> SUFFICES ASSUME Init PROVE BridgeInv
  OBVIOUS
<1>1. PICK body \in BOOLEAN, expects \in BOOLEAN, r \in Responses :
        /\ client = [sent |-> 0, end |-> IF body THEN None ELSE "end", status |-> None,
                     got |-> <<>>, over |-> None, reads |-> TRUE]
        /\ pump = [state |-> IF body THEN "run" ELSE "done", taken |-> 0]
        /\ reqChan = <<>> /\ reqOpen = body /\ reader = NewReader /\ head = None
        /\ bodyChan = <<>> /\ bodyOpen = TRUE /\ listening = TRUE /\ writer = NewWriter
        /\ worker = [pc |-> "run", body |-> body, expects |-> expects, response |-> r,
                     interim |-> FALSE, headed |-> FALSE, pos |-> 0]
  BY DEF Init
<1>2. /\ client.sent = 0 /\ client.got = <<>> /\ client.over = None /\ client.status = None
      /\ client.end = IF body THEN None ELSE "end"
      /\ pump.state = IF body THEN "run" ELSE "done"
      /\ pump.taken = 0 /\ reader.read = <<>> /\ reader.end = None
      /\ writer.state = "head" /\ ~worker.headed /\ worker.pc = "run" /\ worker.pos = 0
      /\ worker.response = r
  BY <1>1 DEF NewReader, NewWriter
<1>3. client \in Clients /\ pump \in Pumps
  BY <1>1 DEF Clients, Pumps
<1>4. reader \in Readers /\ head \in Heads /\ writer \in Writers
  BY <1>1 DEF NewReader, Readers, Heads, NewWriter, Writers
<1>5. worker \in Workers
  BY <1>1 DEF Workers, Stages
<1>6. Types
  BY <1>1, <1>3, <1>4, <1>5 DEF Types
<1>7. Len(<<>>) = 0 /\ <<>> = [i \in 1..0 |-> i]
  OBVIOUS
<1>8. RequestInv
  <2>1. RequestTruth
    BY <1>2, <1>7 DEF RequestTruth, None
  <2>2. PumpInv
    BY <1>1, <1>2 DEF PumpInv, Err
  <2>3. ChannelInv
    BY <1>1, <1>2, <1>7 DEF ChannelInv, Marked, Err
  <2> QED
    BY <2>1, <2>2, <2>3 DEF RequestInv
<1>9. StreamInv
  <2>1. FramesAt(Owed, client.got, bodyChan, worker.pos)
    <3>1. \A q \in Owed : ~(q <= 0)
      <4>1. Owed \subseteq Nat \ {0}
        BY <1>6, StreamFacts
      <4> QED
        BY <4>1
    <3> QED
      BY <1>1, <1>2, <1>7, <3>1 DEF FramesAt
  <2>2. ProgressInv
    BY <1>1, <1>2, <1>7 DEF ProgressInv, NoError, None
  <2>3. ClientInv
    BY <1>1, <1>2 DEF ClientInv, None
  <2> QED
    BY <1>1, <1>4, <2>1, <2>2, <2>3 DEF StreamInv, None
<1>10. Bounded
  BY <1>1, <1>7, H2BridgeAssumption DEF Bounded
<1> QED
  BY <1>6, <1>8, <1>9, <1>10 DEF BridgeInv

\* Every step keeps the invariant.
LEMMA BridgeNext == BridgeInv /\ [Next]_vars => BridgeInv'
<1> SUFFICES ASSUME BridgeInv, [Next]_vars PROVE BridgeInv'
  OBVIOUS
<1>1. Types /\ RequestInv
  BY DEF BridgeInv
<1>2. Types' /\ Bounded' /\ RequestInv'
  BY <1>1, TypesStep, BoundStep, RequestStep DEF BridgeInv
<1>3. worker'.expects = worker.expects
  <2>1. worker \in Workers
    BY <1>1 DEF Types
  <2>2. CASE UNCHANGED worker
    BY <2>2
  <2>3. CASE Interim
    BY <2>1, <2>3 DEF Interim, Workers
  <2>4. CASE Respond
    BY <2>1, <2>4 DEF Respond, Workers
  <2>5. CASE StartWrite
    BY <2>1, <2>5 DEF StartWrite, Workers
  <2>6. CASE WriteBody
    <3>1. \/ \E pc \in {"failing", "finishing"} : worker' = [worker EXCEPT !.pc = pc]
          \/ \E n : worker' = [worker EXCEPT !.pos = n, !.pc = "run"]
      BY <2>6 DEF WriteBody
    <3> QED
      BY <2>1, <3>1 DEF Workers
  <2>7. CASE Return
    BY <2>1, <2>7 DEF Return, Workers
  <2>8. CASE End
    BY <2>1, <2>8 DEF End, Workers
  <2>9. CASE Drop
    BY <2>1, <2>9 DEF Drop, Workers
  <2>10. UNCHANGED worker \/ Worker
    BY Zenon DEF Next, vars, ClientSends, ClientResets, ClientStalls, PumpFrame, ReadRequest, Server,
                 TakeHead, TakeFrame
  <2> QED
    BY <2>2, <2>3, <2>4, <2>5, <2>6, <2>7, <2>8, <2>9, <2>10 DEF Worker
<1>4. ~worker'.expects => StreamInv'
  BY <1>1, <1>3, StreamStep DEF BridgeInv
<1> QED
  BY <1>2, <1>4 DEF BridgeInv

\* What the client has is the first of what it is owed, in order, and a clean end
\* comes with all of it.
LEMMA InvTruth == BridgeInv => BridgeTruth
<1> SUFFICES ASSUME BridgeInv PROVE BridgeTruth
  OBVIOUS
<1>1. RequestTruth
  BY DEF BridgeInv, RequestInv
<1>2. ASSUME ~worker.expects PROVE FirstOf(client.got, Owed)
  <2>1. FramesAt(Owed, client.got, bodyChan, worker.pos)
    BY <1>2 DEF BridgeInv, StreamInv
  <2>2. /\ Owed \in SUBSET (Nat \ {0}) /\ client.got \in Seq(Nat) /\ bodyChan \in Seq(Nat)
        /\ worker.pos \in Nat
    BY StreamFacts DEF BridgeInv
  <2>3. ToSet(client.got) = { client.got[i] : i \in 1..Len(client.got) }
    BY <2>2 DEF ToSet
  <2>4. ASSUME NEW p \in Owed, NEW i \in 1..Len(client.got), p < client.got[i]
        PROVE  \E j \in 1..Len(client.got) : client.got[j] = p
    <3>1. client.got[i] \in Nat /\ client.got[i] <= worker.pos /\ p \in Nat \ {0}
      BY <2>1, <2>2 DEF FramesAt
    <3>2. p <= worker.pos
      BY <2>2, <2>4, <3>1
    <3>3. ASSUME NEW j \in 1..Len(bodyChan), bodyChan[j] = p PROVE FALSE
      <4>1. client.got[i] < p
        BY <2>1, <3>1, <3>3 DEF FramesAt, ErrFrame
      <4> QED
        BY <2>4, <3>1, <4>1
    <3> QED
      BY <2>1, <3>2, <3>3 DEF FramesAt
  <2> QED
    BY <2>1, <2>3, <2>4 DEF FirstOf, FramesAt
<1>3. ASSUME ~worker.expects, client.over = "clean"
      PROVE  \/ client.status = "502" /\ client.got = <<>>
             \/ /\ client.status = "200"
                /\ ToSet(client.got) = Owed \/ worker.response.framing = "close"
  BY <1>3 DEF BridgeInv, StreamInv, ClientInv, ProgressInv, Err
<1> QED
  BY <1>1, <1>2, <1>3 DEF BridgeTruth, StreamTruth

\* The request channel always holds what follows the frames that were read, the response
\* channel what follows the frames the client has; neither holds more than its capacity,
\* and a channel closes only with all of the body, behind an error, or, for a request, when
\* the client cancels its stream (pump_request_body, H2RequestReader, H2ResponseWriter,
\* DownstreamH2ChannelBody).
THEOREM BridgeInvariant == Spec => []BridgeInv
<1>1. Init => BridgeInv
  BY BridgeInit
<1>2. BridgeInv /\ [Next]_vars => BridgeInv'
  BY BridgeNext
<1> QED
  BY <1>1, <1>2, PTL DEF Spec

\* Neither side of the bridge is deceived about the end of a body, whatever the client,
\* the pipeline and the tasks between them do, and in which order (BridgeTruth).
THEOREM BodiesWhole == Spec => []BridgeTruth
<1>1. BridgeInv => BridgeTruth
  BY InvTruth
<1> QED
  BY <1>1, BridgeInvariant, PTL
=============================================================================
