---------------------------- MODULE RelayProofs ----------------------------
(***************************************************************************)
(* What the relays promise, for any number of units, any pending limit and *)
(* any cap on recorded frames: each direction is a pipe, and an orderly    *)
(* end hides no loss.                                                      *)
(***************************************************************************)
EXTENDS Relay, SequenceTheorems, WellFoundedInduction, TLAPS

Units == [n : Nat \ {0}, kind : {"data", "close", "bad"}]

\* How many units a sequence holds.
Size(s) == Len(s)

\* `s` is what `t` holds right behind its first k units.
At(s, k, t) ==
    /\ k + Size(s) <= Size(t)
    /\ \A i \in 1..Size(s) : s[i] = t[k + i]

StreamTypes ==
    /\ fed \in [Directions -> Seq(Units)] /\ net \in [Directions -> Seq(Units)]
    /\ pend \in [Directions -> Seq(Units)] /\ part \in [Directions -> Seq(Units)]
    /\ got \in [Directions -> Seq(Units)] /\ tlsq \in Seq(Units \cup {Notify})
    /\ records \in Seq(Directions \X Nat)

FlagTypes ==
    /\ src \in [Directions -> {"open", "fin", "gone"}]
    /\ eof \in [Directions -> BOOLEAN] /\ lapsed \in [Directions -> BOOLEAN]
    /\ closed \in [Directions -> BOOLEAN] /\ closeSeen \in [Directions -> BOOLEAN]
    /\ counted \in [Directions -> Nat] /\ cut \in [Directions -> Nat]

ControlTypes ==
    /\ mode \in Modes
    /\ thread \in [Directions -> {"none", "read", "write", "shut", "done"}]
    /\ mode = "tls" => pc \in {"flush", "up", "reflush", "down", "deliver", "drop", "done"}
    /\ mode = "wsnb" => pc \in {"up", "down", "write", "check", "drop", "done"}
    /\ Threaded => pc = "none"

Types == StreamTypes /\ FlagTypes /\ ControlTypes

FramedMode(m) == m \in {"ws", "wsnb"}

\* Units are numbered as they are sent, and a frame is of one kind.
Numbered(f, m) ==
    \A i \in 1..Size(f) :
        /\ f[i].n = i
        /\ ~FramedMode(m) => f[i].kind # "close"
        /\ FramedMode(m) /\ i % 2 = 0 => f[i].kind = f[i - 1].kind

IsTail(s, t) == Size(s) <= Size(t) /\ At(s, Size(t) - Size(s), t)

Queued(q, d) == IF d = "up" THEN Size(q) ELSE 0

\* The direction still reads.
Reads(d) ==
    IF Threaded THEN thread[d] \in {"read", "write"}
    ELSE pc \notin {"drop", "done"} /\ ~closed[d]

\* What is under way is the end of what was sent, right behind what was read.
Unread(d) ==
    /\ IsTail(net[d], fed[d])
    /\ Reads(d) /\ (src[d] # "gone" \/ net[d] # <<>>) =>
          Size(got[d]) + Queued(tlsq, d) + Size(pend[d]) + Size(part[d]) + Size(net[d]) = Size(fed[d])

TlsUp(d) == mode = "tls" /\ d = "up"

\* Outside the TLS session the relay holds the units that follow the delivered ones.
Held(d) ==
    /\ At(got[d], 0, fed[d])
    /\ ~TlsUp(d) => /\ At(pend[d], Size(got[d]), fed[d])
                    /\ At(part[d], Size(got[d]) + Size(pend[d]), fed[d])

NoNotify(s) == \A i \in 1..Size(s) : s[i] # Notify

\* Up to close_notify, q holds the units behind the first g, none of them behind
\* the c-th.
Runs(q, g, c, f) ==
    \A i \in 1..Size(q) : (\A j \in 1..i : q[j] # Notify) =>
        g + i <= Size(f) /\ g + i <= c /\ q[i] = f[g + i]

\* Up to close_notify the TLS session holds the units that follow the delivered
\* ones, and without it the pending buffer goes on from there.
TlsHeld ==
    /\ mode # "tls" => tlsq = <<>>
    /\ mode = "tls" /\ ~eof["up"] =>
          /\ Runs(tlsq, Size(got["up"]), counted["up"], fed["up"])
          /\ NoNotify(tlsq) =>
                /\ At(pend["up"], Size(got["up"]) + Size(tlsq), fed["up"])
                /\ Size(got["up"]) + Size(tlsq) + Size(pend["up"]) <= counted["up"]
    /\ mode = "tls" /\ ~closed["up"] /\ pc # "done" => ~eof["up"] /\ NoNotify(tlsq)

\* The buffers of each relay.
Shape(d) ==
    /\ Threaded <=> thread[d] # "none"
    /\ mode # "wsnb" => part[d] = <<>> /\ ~closeSeen[d]
    /\ Threaded => ~closed[d] /\ (thread[d] # "write" => pend[d] = <<>>) /\ (eof[d] => thread[d] = "done")
    /\ Threaded /\ thread[d] = "write" => pend[d] # <<>>
    /\ mode = "ws" => Size(got[d]) % 2 = 0 /\ Size(pend[d]) \in {0, 2}
    /\ mode = "wsnb" => (Size(got[d]) + Size(pend[d])) % 2 = 0 /\ Size(part[d]) < 2
    /\ mode = "wsnb" /\ eof[d] /\ pc # "done" => closed[d] /\ pend[d] = <<>>
    /\ mode = "tls" /\ d = "down" /\ pc # "done" => ~eof[d]

\* What the session reports is never behind what was delivered.
Reported(d) ==
    /\ counted[d] >= Size(got[d])
    /\ Framed => counted[d] >= Size(got[d]) + Size(pend[d])

\* The frames among the first n units of direction d are recorded.
LoggedIn(r, d, n) == \A i \in 1..n : i % 2 = 0 => <<d, i>> \in ToSet(r)

Logged(d) ==
    Framed /\ Size(records) < RecordCap =>
        LoggedIn(records, d, Size(got[d]) + IF mode = "wsnb" THEN Size(pend[d]) ELSE 0)

\* A whole close frame is among the first n units.
CloseIn(f, n) == \E i \in 1..n : i <= Size(f) /\ i % 2 = 0 /\ f[i].kind = "close"

\* The first n units are all the units, or all the whole frames.
AllIn(f, n, m) == n = Size(f) \/ (FramedMode(m) /\ n % 2 = 0 /\ n + 1 = Size(f))

\* Behind the first n units of the direction nothing is owed.
Settled(d, n) ==
    \/ Framed /\ CloseIn(fed[d], n)
    \/ src[d] # "open" /\ AllIn(fed[d], n, mode)

\* The TLS session's queue ends with close_notify, and the stream just before it.
LastOut(q, g, f) ==
    /\ g + Size(q) = Size(f) + 1
    /\ \A i \in 1..Size(q) : q[i] = Notify <=> i = Size(q)

OrderlyEnds(d) ==
    /\ Threaded /\ thread[d] \in {"shut", "done"} => Settled(d, Size(got[d]))
    /\ mode = "wsnb" /\ closed[d] => Settled(d, Size(got[d]) + Size(pend[d]))
    /\ mode = "wsnb" /\ (pc \in {"drop", "done"} \/ eof[d]) =>
          pend[d] = <<>> /\ (closed[d] \/ closeSeen[d])
    /\ mode = "tls" /\ d = "down" /\ closed[d] => Settled(d, Size(got[d]) + Size(pend[d]))
    /\ mode = "tls" /\ d = "down" /\ pc \in {"drop", "done"} => closed[d] /\ pend[d] = <<>>
    /\ TlsUp(d) => /\ pc \notin {"drop", "done"}
                   /\ eof[d] => closed[d]
    /\ TlsUp(d) /\ closed[d] /\ cut[d] = 0 =>
          /\ src[d] # "open" /\ pend[d] = <<>>
          /\ eof[d] => Size(got[d]) = Size(fed[d])
          /\ ~eof[d] => LastOut(tlsq, Size(got[d]), fed[d])

Ends(d) ==
    /\ closeSeen[d] => Framed /\ CloseIn(fed[d], Size(got[d]) + Size(pend[d]))
    /\ Orderly(d) => OrderlyEnds(d)

FlowInv == \A d \in Directions : Numbered(fed[d], mode) /\ Unread(d) /\ Held(d) /\ Shape(d)
EndInv == \A d \in Directions : Reported(d) /\ Logged(d) /\ Ends(d)

RelayInv == Types /\ FlowInv /\ TlsHeld /\ EndInv

-----------------------------------------------------------------------------
\* Sequences: lengths and elements of what the relays cut and join.
LEMMA SubFacts ==
    ASSUME NEW S, NEW s \in Seq(S), NEW m \in Nat \ {0}, NEW n \in 0..Size(s), m <= n + 1
    PROVE  /\ SubSeq(s, m, n) \in Seq(S)
           /\ Size(SubSeq(s, m, n)) = n - m + 1
           /\ \A i \in 1..(n - m + 1) : SubSeq(s, m, n)[i] = s[m + i - 1]
<1> USE DEF Size
<1>1. m \in 1..Size(s) + 1
  OBVIOUS
<1>2. CASE m <= n
  BY <1>1, <1>2
<1>3. CASE m = n + 1
  BY <1>1, <1>3
<1> QED
  BY <1>2, <1>3

\* Joining two pieces that follow each other.
LEMMA AtConcat ==
    ASSUME NEW S, NEW s \in Seq(S), NEW r \in Seq(S), NEW t \in Seq(S), NEW k \in Nat,
           At(s, k, t), At(r, k + Size(s), t)
    PROVE  At(s \o r, k, t)
<1> USE DEF Size
<1>1. Size(s \o r) = Size(s) + Size(r)
  OBVIOUS
<1>2. ASSUME NEW i \in 1..Size(s \o r) PROVE (s \o r)[i] = t[k + i]
  <2>1. CASE i <= Size(s)
    BY <2>1 DEF At
  <2>2. CASE i > Size(s)
    <3>1. (s \o r)[i] = r[i - Size(s)]
      BY <2>2
    <3>2. i - Size(s) \in 1..Size(r) /\ (k + Size(s)) + (i - Size(s)) = k + i
      BY <2>2, <1>1
    <3> QED
      BY <3>1, <3>2 DEF At
  <2> QED
    BY <2>1, <2>2
<1> QED
  BY <1>1, <1>2 DEF At

\* Sizes of what is joined.
LEMMA JoinFacts ==
    ASSUME NEW S, NEW s \in Seq(S), NEW r \in Seq(S)
    PROVE  /\ s \o r \in Seq(S) /\ Size(s \o r) = Size(s) + Size(r)
           /\ Size(s) \in Nat /\ Size(r) \in Nat
  BY DEF Size

\* Cutting a piece.
LEMMA AtSub ==
    ASSUME NEW S, NEW s \in Seq(S), NEW t \in Seq(S), NEW k \in Nat, At(s, k, t),
           NEW m \in Nat \ {0}, NEW n \in 0..Size(s), m <= n + 1
    PROVE  At(SubSeq(s, m, n), k + m - 1, t)
<1> USE DEF Size
<1>1. /\ Size(SubSeq(s, m, n)) = n - m + 1
      /\ \A i \in 1..(n - m + 1) : SubSeq(s, m, n)[i] = s[m + i - 1]
  BY SubFacts
<1>2. ASSUME NEW i \in 1..(n - m + 1) PROVE SubSeq(s, m, n)[i] = t[k + m - 1 + i]
  <2>1. m + i - 1 \in 1..Size(s)
    OBVIOUS
  <2>2. s[m + i - 1] = t[k + (m + i - 1)]
    BY <2>1 DEF At
  <2> QED
    BY <1>1, <2>2
<1> QED
  BY <1>1, <1>2 DEF At

\* An odd number of units is not none.
LEMMA OddLen ==
    ASSUME NEW S, NEW s \in Seq(S), (Size(s) + 1) % 2 = 0
    PROVE  s # <<>> /\ Last(s) = s[Size(s)] /\ Last(s) \in S
  BY DEF Size, Last

\* The sender's next unit moves nothing.
LEMMA AtGrow ==
    ASSUME NEW S, NEW s \in Seq(S), NEW t \in Seq(S), NEW k \in Nat, At(s, k, t), NEW x \in S
    PROVE  At(s, k, Append(t, x))
  BY DEF Size, At

\* A piece at the start is a prefix.
LEMMA AtPrefix ==
    ASSUME NEW S, NEW s \in Seq(S), NEW t \in Seq(S), At(s, 0, t)
    PROVE  IsPrefix(s, t)
<1> USE DEF Size
<1>1. Size(s) <= Size(t)
  BY DEF At
<1>2. SubSeq(s, 1, Size(s)) \in Seq(S) /\ Size(SubSeq(s, 1, Size(s))) = Size(s)
  BY SubFacts
<1>3. SubSeq(t, 1, Size(s)) \in Seq(S) /\ Size(SubSeq(t, 1, Size(s))) = Size(s)
  BY <1>1, SubFacts
<1>4. \A i \in 1..Size(s) : SubSeq(s, 1, Size(s))[i] = SubSeq(t, 1, Size(s))[i]
  BY <1>1, SubFacts DEF At
<1>5. SubSeq(s, 1, Size(s)) = SubSeq(t, 1, Size(s))
  BY <1>2, <1>3, <1>4, SeqEqual
<1> QED
  BY <1>1, <1>5 DEF IsPrefix
\* What a partial write takes, and what it leaves.
LEMMA PrefixFacts ==
    ASSUME NEW S, NEW s \in Seq(S), NEW p \in Prefixes(s)
    PROVE  /\ p \in Seq(S) /\ After(s, p) \in Seq(S)
           /\ Size(p) <= Size(s) /\ Size(After(s, p)) = Size(s) - Size(p)
           /\ \A i \in 1..Size(p) : p[i] = s[i]
           /\ \A i \in 1..(Size(s) - Size(p)) : After(s, p)[i] = s[Size(p) + i]
<1> USE DEF Size
<1>1. PICK l \in 0..Size(s) : p = SubSeq(s, 1, l)
  BY DEF Prefixes
<1>2. p \in Seq(S) /\ Size(p) = l /\ \A i \in 1..l : p[i] = s[i]
  BY <1>1, SubFacts
<1>3. /\ After(s, p) \in Seq(S) /\ Size(After(s, p)) = Size(s) - l
      /\ \A i \in 1..(Size(s) - l) : After(s, p)[i] = s[l + i]
  <2>1. Size(p) + 1 \in Nat \ {0} /\ Size(s) \in 0..Size(s) /\ Size(p) + 1 <= Size(s) + 1
    BY <1>2
  <2>2. \A i \in 1..(Size(s) - l) : (l + 1) + i - 1 = l + i
    BY <1>2
  <2> QED
    BY <1>2, <2>1, <2>2, SubFacts DEF After
<1> QED
  BY <1>2, <1>3

\* The two halves of a partial write stay where they were.
LEMMA AtCut ==
    ASSUME NEW S, NEW s \in Seq(S), NEW t \in Seq(S), NEW k \in Nat, At(s, k, t),
           NEW p \in Prefixes(s)
    PROVE  At(p, k, t) /\ At(After(s, p), k + Size(p), t)
<1> USE DEF Size
<1>1. At(p, k, t)
  BY PrefixFacts DEF At
<1>2. ASSUME NEW i \in 1..(Size(s) - Size(p)) PROVE After(s, p)[i] = t[k + Size(p) + i]
  <2>1. Size(p) + i \in 1..Size(s) /\ k + (Size(p) + i) = k + Size(p) + i
    BY PrefixFacts
  <2> QED
    BY <2>1, PrefixFacts DEF At
<1>3. k + Size(p) + Size(After(s, p)) <= Size(t)
  BY PrefixFacts DEF At
<1> QED
  BY <1>1, <1>2, <1>3, PrefixFacts DEF At

-----------------------------------------------------------------------------
\* A step that leaves direction e alone.
Apart(e) ==
    /\ mode' = mode /\ src'[e] = src[e] /\ fed'[e] = fed[e] /\ net'[e] = net[e]
    /\ pend'[e] = pend[e] /\ part'[e] = part[e] /\ got'[e] = got[e]
    /\ eof'[e] = eof[e] /\ closed'[e] = closed[e] /\ closeSeen'[e] = closeSeen[e]
    /\ thread'[e] = thread[e] /\ cut'[e] = cut[e] /\ counted'[e] = counted[e]
    /\ tlsq' = tlsq \/ e = "down"
    /\ pc' = pc \/ pc \notin {"drop", "done"} \/ pc' = "done"

\* A direction that is left alone keeps what is said of it.
LEMMA Frame ==
    ASSUME NEW e \in Directions, Apart(e)
    PROVE  /\ Numbered(fed[e], mode) => Numbered(fed'[e], mode')
           /\ Unread(e) => Unread(e)'
           /\ Held(e) => Held(e)'
           /\ Shape(e) => Shape(e)'
           /\ Reported(e) => Reported(e)'
<1>1. Unread(e) => Unread(e)'
  <2>1. Reads(e)' => Reads(e) /\ Queued(tlsq', e) = Queued(tlsq, e)
    BY DEF Apart, Reads, Threaded, Queued
  <2> QED
    BY <2>1 DEF Apart, Unread
<1>2. Held(e) => Held(e)'
  BY DEF Apart, Held, TlsUp
<1>3. Shape(e) => Shape(e)'
  BY DEF Apart, Shape, Threaded
<1>4. Reported(e) => Reported(e)'
  BY DEF Apart, Reported, Framed
<1>5. Numbered(fed[e], mode) => Numbered(fed'[e], mode')
  BY DEF Apart
<1> QED
  BY <1>1, <1>2, <1>3, <1>4, <1>5

\* The same for how it ends.
LEMMA EndFrame ==
    ASSUME NEW e \in Directions, Apart(e), Orderly(e)' => Orderly(e),
           pc' \in {"drop", "done"} /\ Orderly(e)' => pc \in {"drop", "done"}
    PROVE  Ends(e) => Ends(e)'
  BY DEF Apart, Ends, OrderlyEnds, TlsUp, Threaded, Framed, Settled

\* What made an end orderly so far is still looked at.
LEMMA OrderlyKept ==
    ASSUME Types, mode' = mode,
           \A d \in Directions : src'[d] = src[d] \/ src'[d] = "gone" \/ (src'[d] = "fin" /\ src[d] # "gone"),
           \A d \in Directions : lapsed[d] => lapsed'[d]
    PROVE  \A d \in Directions : Orderly(d)' => Orderly(d)
  BY DEF Orderly, Directions

-----------------------------------------------------------------------------
\* A unit that is sent goes to the end of what was sent and of what is under way.
LEMMA Grow ==
    ASSUME NEW f \in Seq(Units), NEW s \in Seq(Units), NEW x \in Units, NEW m
    PROVE  /\ Append(f, x) \in Seq(Units) /\ Size(Append(f, x)) = Size(f) + 1
           /\ IsTail(s, f) => IsTail(Append(s, x), Append(f, x))
           /\ \A n \in Nat : CloseIn(f, n) => CloseIn(Append(f, x), n)
           /\ Numbered(f, m) /\ x.n = Size(f) + 1 /\ (~FramedMode(m) => x.kind # "close")
              /\ (FramedMode(m) /\ (Size(f) + 1) % 2 = 0 => x.kind = f[Size(f)].kind)
              => Numbered(Append(f, x), m)
<1> USE DEF Size
<1>1. Append(f, x) \in Seq(Units) /\ Size(Append(f, x)) = Size(f) + 1
  OBVIOUS
<1>2. ASSUME IsTail(s, f) PROVE IsTail(Append(s, x), Append(f, x))
  <2>1. /\ Size(Append(s, x)) = Size(s) + 1 /\ Size(s) <= Size(f)
        /\ Size(Append(f, x)) - Size(Append(s, x)) = Size(f) - Size(s)
    BY <1>1, <1>2 DEF IsTail
  <2>2. \A i \in 1..(Size(s) + 1) : Append(s, x)[i] = Append(f, x)[(Size(f) - Size(s)) + i]
    BY <1>2, <2>1 DEF IsTail, At
  <2>3. At(Append(s, x), Size(f) - Size(s), Append(f, x))
    BY <2>1, <2>2, <1>1 DEF At
  <2> QED
    BY <2>1, <2>3, <1>1 DEF IsTail
<1>3. \A n \in Nat : CloseIn(f, n) => CloseIn(Append(f, x), n)
  BY DEF CloseIn
<1>4. ASSUME Numbered(f, m), x.n = Size(f) + 1, ~FramedMode(m) => x.kind # "close",
             FramedMode(m) /\ (Size(f) + 1) % 2 = 0 => x.kind = f[Size(f)].kind
      PROVE  Numbered(Append(f, x), m)
  BY <1>4, SMTT(30) DEF Numbered
<1> QED
  BY <1>1, <1>2, <1>3, <1>4

\* The same for what the TLS session holds.
LEMMA RunsGrow ==
    ASSUME NEW f \in Seq(Units), NEW x \in Units, NEW q \in Seq(Units \cup {Notify}),
           NEW g \in Nat, NEW c \in Nat, Runs(q, g, c, f)
    PROVE  Runs(q, g, c, Append(f, x))
  BY DEF Size, Runs

\* What the types say of one direction.
LEMMA Sizes ==
    ASSUME StreamTypes, NEW d \in Directions
    PROVE  /\ fed[d] \in Seq(Units) /\ net[d] \in Seq(Units) /\ pend[d] \in Seq(Units)
           /\ part[d] \in Seq(Units) /\ got[d] \in Seq(Units) /\ tlsq \in Seq(Units \cup {Notify})
           /\ Size(fed[d]) \in Nat /\ Size(net[d]) \in Nat /\ Size(pend[d]) \in Nat
           /\ Size(part[d]) \in Nat /\ Size(got[d]) \in Nat /\ Size(tlsq) \in Nat
           /\ Queued(tlsq, d) \in Nat
  BY DEF StreamTypes, Size, Queued

\* The same after a step.
LEMMA SizesNext ==
    ASSUME StreamTypes', NEW d \in Directions
    PROVE  /\ fed'[d] \in Seq(Units) /\ net'[d] \in Seq(Units) /\ pend'[d] \in Seq(Units)
           /\ part'[d] \in Seq(Units) /\ got'[d] \in Seq(Units) /\ tlsq' \in Seq(Units \cup {Notify})
           /\ Size(fed'[d]) \in Nat /\ Size(net'[d]) \in Nat /\ Size(pend'[d]) \in Nat
           /\ Size(part'[d]) \in Nat /\ Size(got'[d]) \in Nat /\ Size(tlsq') \in Nat
           /\ Queued(tlsq', d) \in Nat
  BY DEF StreamTypes, Size, Queued

\* A sender's next unit goes behind everything else.
LEMMA SendInv ==
    ASSUME RelayInv, NEW d \in Directions, Send(d)
    PROVE  RelayInv'
<1>0. StreamTypes /\ FlagTypes /\ ControlTypes /\ FlowInv /\ TlsHeld /\ EndInv
  BY DEF RelayInv, Types
<1>1. PICK k \in {"data", "close", "bad"} :
          /\ fed' = [fed EXCEPT ![d] = Append(fed[d], Unit(Size(fed[d]) + 1, k))]
          /\ net' = [net EXCEPT ![d] = Append(net[d], Unit(Size(fed[d]) + 1, k))]
          /\ ~FramedMode(mode) => k # "close"
          /\ FramedMode(mode) /\ (Size(fed[d]) + 1) % 2 = 0 => k = fed[d][Size(fed[d])].kind
  <2>1. fed[d] \in Seq(Units)
    BY <1>0 DEF StreamTypes
  <2>2. CASE Framed /\ (Size(fed[d]) + 1) % 2 = 0
    <3>2. Last(fed[d]) = fed[d][Size(fed[d])] /\ Last(fed[d]) \in Units
      BY <2>1, <2>2, OddLen
    <3>3. Last(fed[d]).kind \in {"data", "close", "bad"}
      BY <3>2 DEF Units
    <3> QED
      BY <2>2, <3>2, <3>3 DEF Send, FrameSize, Size, FramedMode, Framed
  <2>3. CASE ~(Framed /\ (Size(fed[d]) + 1) % 2 = 0)
    <3>1. PICK k \in Kinds(d) :
          /\ fed' = [fed EXCEPT ![d] = Append(fed[d], Unit(Size(fed[d]) + 1, k))]
          /\ net' = [net EXCEPT ![d] = Append(net[d], Unit(Size(fed[d]) + 1, k))]
      BY <2>3 DEF Send, FrameSize, Size
    <3>2. k \in {"data", "close", "bad"} /\ (~Framed => k # "close")
      BY <3>1 DEF Kinds
    <3> QED
      BY <2>3, <3>1, <3>2 DEF FramedMode, Framed
  <2> QED
    BY <2>2, <2>3
<1> DEFINE x == Unit(Size(fed[d]) + 1, k)
<1>2. src[d] = "open" /\ x \in Units /\ x.n = Size(fed[d]) + 1 /\ x.kind = k
  BY <1>0 DEF Send, Unit, Units, StreamTypes, Size
<1>3. /\ fed' = [fed EXCEPT ![d] = Append(fed[d], x)]
      /\ net' = [net EXCEPT ![d] = Append(net[d], x)]
  BY <1>1
<1> HIDE DEF x
<1>4. /\ pend' = pend /\ got' = got /\ eof' = eof /\ counted' = counted /\ thread' = thread
      /\ records' = records /\ lapsed' = lapsed /\ cut' = cut /\ part' = part /\ tlsq' = tlsq
      /\ closed' = closed /\ closeSeen' = closeSeen /\ pc' = pc /\ src' = src /\ mode' = mode
  BY DEF Send, relayVars, loopVars
<1>5. StreamTypes' /\ FlagTypes' /\ ControlTypes'
  <2>1. StreamTypes'
    BY <1>0, <1>2, <1>3, <1>4 DEF StreamTypes
  <2>2. FlagTypes' /\ ControlTypes'
    BY <1>0, <1>4 DEF FlagTypes, ControlTypes, Threaded
  <2> QED
    BY <2>1, <2>2
<1>6. ASSUME NEW e \in Directions
      PROVE /\ fed[e] \in Seq(Units) /\ (fed'[e] = Append(fed[e], x) \/ fed'[e] = fed[e])
            /\ \A s \in Seq(Units), j \in Nat : At(s, j, fed[e]) => At(s, j, fed'[e])
            /\ \A n \in Nat : CloseIn(fed[e], n) => CloseIn(fed'[e], n)
            /\ \A q \in Seq(Units \cup {Notify}), g \in Nat, c \in Nat :
                  Runs(q, g, c, fed[e]) => Runs(q, g, c, fed'[e])
  <2>1. fed[e] \in Seq(Units) /\ (fed'[e] = Append(fed[e], x) \/ fed'[e] = fed[e])
    BY <1>0, <1>3 DEF StreamTypes
  <2>2. CASE fed'[e] = fed[e]
    BY <2>1, <2>2
  <2>3. CASE fed'[e] = Append(fed[e], x)
    <3>1. \A s \in Seq(Units), j \in Nat : At(s, j, fed[e]) => At(s, j, fed'[e])
      BY <2>1, <2>3, <1>2, AtGrow
    <3>2. \A n \in Nat : CloseIn(fed[e], n) => CloseIn(fed'[e], n)
      BY <2>1, <2>3, <1>2, Grow
    <3>3. \A q \in Seq(Units \cup {Notify}), g \in Nat, c \in Nat :
             Runs(q, g, c, fed[e]) => Runs(q, g, c, fed'[e])
      BY <2>1, <2>3, <1>2, RunsGrow
    <3> QED
      BY <2>1, <2>3, <3>1, <3>2, <3>3
  <2> QED
    BY <2>1, <2>2, <2>3
<1>7. TlsHeld'
  <2>0. "up" \in Directions
    BY DEF Directions
  <2>1. /\ "up" \in Directions /\ pend["up"] \in Seq(Units) /\ Size(got["up"]) + Size(tlsq) \in Nat
        /\ Size(got["up"]) \in Nat /\ counted["up"] \in Nat /\ tlsq \in Seq(Units \cup {Notify})
    <3>1. pend["up"] \in Seq(Units) /\ tlsq \in Seq(Units \cup {Notify}) /\ Size(got["up"]) \in Nat /\ Size(tlsq) \in Nat
      BY <1>0, <2>0, Sizes
    <3>2. counted["up"] \in Nat
      BY <1>0, <2>0 DEF FlagTypes
    <3> QED
      BY <2>0, <3>1, <3>2
  <2> QED
    BY <1>0, <1>4, <1>6, <2>1 DEF TlsHeld
<1>8. ASSUME NEW e \in Directions
      PROVE  Numbered(fed'[e], mode') /\ Unread(e)' /\ Held(e)' /\ Shape(e)'
  <2>0. Numbered(fed[e], mode) /\ Unread(e) /\ Held(e) /\ Shape(e)
    BY <1>0 DEF FlowInv
  <2>1. CASE e = d
    <3>0. /\ fed'[d] = Append(fed[d], x) /\ net'[d] = Append(net[d], x)
          /\ fed[d] \in Seq(Units) /\ net[d] \in Seq(Units)
      BY <1>0, <1>3 DEF StreamTypes
    <3>1. Numbered(fed'[d], mode')
      BY <2>0, <2>1, <1>1, <1>2, <1>4, <3>0, Grow
    <3>2. Unread(d)'
      <4>1. Size(net'[d]) = Size(net[d]) + 1 /\ Size(fed'[d]) = Size(fed[d]) + 1
        BY <1>2, <3>0, Grow
      <4>2. IsTail(net'[d], fed'[d])
        BY <1>2, <3>0, <2>0, <2>1, Grow DEF Unread
      <4>3. (Reads(d)' <=> Reads(d)) /\ Queued(tlsq', d) = Queued(tlsq, d)
        BY <1>4 DEF Reads, Threaded, Queued
      <4>5. Reads(d) => Size(got[d]) + Queued(tlsq, d) + Size(pend[d]) + Size(part[d]) + Size(net[d]) = Size(fed[d])
        BY <1>2, <2>0, <2>1 DEF Unread
      <4>6. Reads(d) => Size(got[d]) + Queued(tlsq, d) + Size(pend[d]) + Size(part[d]) + (Size(net[d]) + 1) = Size(fed[d]) + 1
        <5>1. /\ Size(got[d]) \in Nat /\ Queued(tlsq, d) \in Nat /\ Size(pend[d]) \in Nat
              /\ Size(part[d]) \in Nat /\ Size(net[d]) \in Nat /\ Size(fed[d]) \in Nat
          BY <1>0, Sizes
        <5>2. \A a, b, c, x1, x2, x3 \in Nat : a + b + c + x1 + x2 = x3 => a + b + c + x1 + (x2 + 1) = x3 + 1
          OBVIOUS
        <5> QED
          BY <4>5, <5>1, <5>2
      <4> QED
        BY <1>4, <4>1, <4>2, <4>3, <4>6 DEF Unread
    <3>3. Held(d)'
      <4>1. /\ got[d] \in Seq(Units) /\ pend[d] \in Seq(Units) /\ part[d] \in Seq(Units)
            /\ Size(got[d]) \in Nat /\ Size(got[d]) + Size(pend[d]) \in Nat /\ 0 \in Nat
        <5>1. /\ got[d] \in Seq(Units) /\ pend[d] \in Seq(Units) /\ part[d] \in Seq(Units)
              /\ Size(got[d]) \in Nat /\ Size(pend[d]) \in Nat
          BY <1>0, Sizes
        <5> QED
          BY <5>1
      <4> QED
        BY <1>4, <1>6, <2>0, <2>1, <4>1 DEF Held, TlsUp
    <3>4. Shape(d)'
      BY <1>4, <2>0, <2>1 DEF Shape, Threaded
    <3> QED
      BY <2>1, <3>1, <3>2, <3>3, <3>4
  <2>2. CASE e # d
    <3>1. Apart(e)
      BY <1>0, <1>3, <1>4, <2>2 DEF StreamTypes, Apart
    <3> QED
      BY <2>0, <3>1, Frame
  <2> QED
    BY <2>1, <2>2
<1>9. ASSUME NEW e \in Directions PROVE Reported(e)' /\ Logged(e)' /\ Ends(e)'
  <2>0. Reported(e) /\ Logged(e) /\ Ends(e)
    BY <1>0 DEF EndInv
  <2>1. Reported(e)' /\ Logged(e)'
    BY <1>4, <2>0 DEF Reported, Logged, Framed
  <2>2. Orderly(e)' => Orderly(e)
    BY <1>4 DEF Orderly
  <2>3. CASE e = d
    <3>1. Size(got[d]) \in Nat /\ Size(got[d]) + Size(pend[d]) \in Nat
      <4>1. Size(got[d]) \in Nat /\ Size(pend[d]) \in Nat
        BY <1>0, Sizes
      <4> QED
        BY <4>1
    <3>2. \A n \in Nat : Settled(d, n) => Framed /\ CloseIn(fed'[d], n)
      BY <1>2, <1>6 DEF Settled
    <3>3. closeSeen[d] => Framed /\ CloseIn(fed'[d], Size(got[d]) + Size(pend[d]))
      BY <1>6, <2>0, <2>3, <3>1 DEF Ends
    <3>4. OrderlyEnds(d) => OrderlyEnds(d)'
      BY <1>2, <1>4, <3>1, <3>2 DEF OrderlyEnds, Settled, Framed, Threaded, TlsUp
    <3> QED
      BY <1>4, <2>0, <2>1, <2>2, <2>3, <3>3, <3>4 DEF Ends, Framed
  <2>4. CASE e # d
    <3>1. Apart(e)
      BY <1>0, <1>3, <1>4, <2>4 DEF StreamTypes, Apart
    <3> QED
      BY <1>4, <2>0, <2>1, <2>2, <3>1, EndFrame
  <2> QED
    BY <2>1, <2>3, <2>4
<1> QED
  BY <1>5, <1>7, <1>8, <1>9 DEF RelayInv, FlowInv, EndInv, Types

\* A read takes the front of what is under way and leaves the rest.
LEMMA TailCut ==
    ASSUME NEW s \in Seq(Units), NEW f \in Seq(Units), IsTail(s, f), NEW k \in 0..Len(s)
    PROVE  /\ SubSeq(s, 1, k) \in Seq(Units) /\ SubSeq(s, k + 1, Len(s)) \in Seq(Units)
           /\ Size(SubSeq(s, 1, k)) = k /\ Size(SubSeq(s, k + 1, Len(s))) = Size(s) - k
           /\ IsTail(SubSeq(s, k + 1, Len(s)), f)
           /\ At(SubSeq(s, 1, k), Size(f) - Size(s), f)
           /\ \A i \in 1..k : SubSeq(s, 1, k)[i] = s[i]
<1> USE DEF Size
<1>1. /\ SubSeq(s, 1, k) \in Seq(Units) /\ Len(SubSeq(s, 1, k)) = k
      /\ \A i \in 1..k : SubSeq(s, 1, k)[i] = s[i]
  BY SubFacts
<1>2. SubSeq(s, k + 1, Len(s)) \in Seq(Units) /\ Len(SubSeq(s, k + 1, Len(s))) = Len(s) - k
  BY SubFacts
<1>3. Len(s) <= Len(f) /\ At(s, Len(f) - Len(s), f) /\ Len(f) - Len(s) \in Nat
  BY DEF IsTail
<1>4. At(SubSeq(s, 1, k), Len(f) - Len(s), f)
  <2>1. (Len(f) - Len(s)) + 1 - 1 = Len(f) - Len(s)
    OBVIOUS
  <2>2. At(SubSeq(s, 1, k), (Len(f) - Len(s)) + 1 - 1, f)
    BY <1>3, AtSub
  <2> QED
    BY <2>1, <2>2
<1>5. At(SubSeq(s, k + 1, Len(s)), Len(f) - (Len(s) - k), f)
  <2>1. (Len(f) - Len(s)) + (k + 1) - 1 = Len(f) - (Len(s) - k)
    OBVIOUS
  <2>2. At(SubSeq(s, k + 1, Len(s)), (Len(f) - Len(s)) + (k + 1) - 1, f)
    BY <1>3, AtSub, SMTT(30)
  <2> QED
    BY <2>1, <2>2
<1>6. IsTail(SubSeq(s, k + 1, Len(s)), f)
  BY <1>2, <1>3, <1>5 DEF IsTail
<1> QED
  BY <1>1, <1>2, <1>4, <1>6

\* Nothing is the end of every sequence, and what follows any part of it.
LEMMA EmptyFacts ==
    ASSUME NEW f \in Seq(Units)
    PROVE  /\ <<>> \in Seq(Units) /\ Size(<<>>) = 0 /\ IsTail(<<>>, f)
           /\ \A k \in 0..Size(f) : At(<<>>, k, f)
           /\ \A s \in Seq(Units) : Size(s) = 0 <=> s = <<>>
<1> USE DEF Size
<1>1. <<>> \in Seq(Units) /\ Len(<<>>) = 0 /\ \A s \in Seq(Units) : Len(s) = 0 <=> s = <<>>
  OBVIOUS
<1>2. \A k \in 0..Len(f) : At(<<>>, k, f)
  BY <1>1 DEF At
<1>3. Len(f) - Len(<<>>) \in 0..Len(f)
  BY <1>1
<1> QED
  BY <1>1, <1>2, <1>3 DEF IsTail

\* Every second one of n units.
LEMMA HalfFacts ==
    ASSUME NEW n \in Nat
    PROVE  /\ n \div 2 \in Nat
           /\ \A i \in 1..(n \div 2) : 2 * i \in 1..n
           /\ \A i \in 1..n : i % 2 = 0 => i = 2 * (i \div 2) /\ i \div 2 \in 1..(n \div 2)
           /\ \A i \in Nat : i > n /\ i % 2 = 0 /\ n % 2 = 0 => (i - n) % 2 = 0
  OBVIOUS

\* While there is room the new frames go behind the old ones.
LEMMA RecordFacts ==
    ASSUME NEW old \in Seq(Directions \X Nat), NEW d \in Directions, NEW units \in Seq(Units)
    PROVE  /\ NewRecords(old, d, units) \in Seq(Directions \X Nat)
           /\ Size(NewRecords(old, d, units)) < RecordCap =>
                 /\ Size(old) < RecordCap
                 /\ \A x \in ToSet(old) : x \in ToSet(NewRecords(old, d, units))
                 /\ \A i \in 1..Size(units) :
                       i % 2 = 0 => <<d, units[i].n>> \in ToSet(NewRecords(old, d, units))
<1> DEFINE marks == [i \in 1..(Len(units) \div 2) |-> <<d, units[2 * i].n>>]
           count == Len(old) + Len(marks)
           both == old \o marks
           r == NewRecords(old, d, units)
<1> USE DEF Size
<1>0. Len(units) \in Nat /\ Len(units) \div 2 \in Nat
  BY HalfFacts
<1>1. marks \in Seq(Directions \X Nat) /\ Len(marks) = Len(units) \div 2
  <2>1. ASSUME NEW i \in 1..(Len(units) \div 2) PROVE <<d, units[2 * i].n>> \in Directions \X Nat
    <3>1. 2 * i \in 1..Len(units)
      BY <1>0, HalfFacts
    <3>2. units[2 * i] \in Units
      BY <3>1
    <3>3. units[2 * i].n \in Nat
      BY <3>2 DEF Units
    <3> QED
      BY <3>3
  <2> QED
    BY <1>0, <2>1
<1>2. both \in Seq(Directions \X Nat) /\ Len(both) = count /\ count \in Nat
  BY <1>1
<1>3. r = SubSeq(both, 1, IF count > RecordCap THEN RecordCap ELSE count)
  BY DEF NewRecords, FrameSize
<1> HIDE DEF r
<1> DEFINE c == IF count > RecordCap THEN RecordCap ELSE count
<1>4. /\ r \in Seq(Directions \X Nat) /\ Len(r) = c
      /\ \A i \in 1..c : r[i] = both[i]
  <2>1. c \in 0..Len(both) /\ c \in Nat
    BY <1>2, RelayAssumption
  <2>2. r = SubSeq(both, 1, c) /\ both \in Seq(Directions \X Nat)
    BY <1>2, <1>3
  <2> HIDE DEF c, both
  <2> QED
    BY <2>1, <2>2, SubFacts
<1>5. ASSUME Len(r) < RecordCap
      PROVE  /\ Len(old) < RecordCap /\ \A x \in ToSet(old) : x \in ToSet(r)
             /\ \A i \in 1..Len(units) : i % 2 = 0 => <<d, units[i].n>> \in ToSet(r)
  <2>1. count < RecordCap /\ Len(r) = count
    BY <1>2, <1>4, <1>5, RelayAssumption
  <2>2. \A i \in 1..count : r[i] = both[i]
    BY <1>4, <2>1, RelayAssumption
  <2>3. \A i \in 1..Len(old) : both[i] = old[i]
    BY <1>1
  <2> HIDE DEF marks
  <2>4. \A i \in 1..Len(marks) : both[Len(old) + i] = marks[i]
    BY <1>1
  <2> HIDE DEF both
  <2>5. ASSUME NEW x \in ToSet(old) PROVE x \in ToSet(r)
    <3>1. PICK i \in 1..Len(old) : x = old[i]
      BY DEF ToSet
    <3>2. i \in 1..count /\ DOMAIN r = 1..count
      BY <1>1, <1>2, <1>4, <2>1
    <3>3. r[i] = x
      BY <2>2, <2>3, <3>1, <3>2
    <3> QED
      BY <3>2, <3>3 DEF ToSet
  <2>6. ASSUME NEW i \in 1..Len(units), i % 2 = 0 PROVE <<d, units[i].n>> \in ToSet(r)
    <3>1. PICK j \in 1..(Len(units) \div 2) : i = 2 * j
      <4>1. i = 2 * (i \div 2) /\ i \div 2 \in 1..(Len(units) \div 2)
        BY <1>0, <2>6, HalfFacts
      <4> QED
        BY <4>1
    <3>2. Len(old) + j \in 1..count /\ DOMAIN r = 1..count
      BY <1>0, <1>1, <1>4, <2>1
    <3>3. r[Len(old) + j] = marks[j]
      BY <1>1, <2>2, <2>4, <3>2
    <3>4. marks[j] = <<d, units[i].n>>
      BY <3>1 DEF marks
    <3> QED
      BY <3>2, <3>3, <3>4 DEF ToSet
  <2>7. Len(old) < RecordCap
    BY <1>1, <2>1, RelayAssumption
  <2> QED
    BY <2>5, <2>6, <2>7
<1> QED
  BY <1>4, <1>5 DEF r

\* Recording whole frames keeps the record complete.
LEMMA LoggedMore ==
    ASSUME NEW old \in Seq(Directions \X Nat), NEW d \in Directions, NEW units \in Seq(Units),
           NEW f \in Seq(Units), NEW m, Numbered(f, m), NEW n \in Nat, n % 2 = 0,
           At(units, n, f), Size(NewRecords(old, d, units)) < RecordCap, LoggedIn(old, d, n)
    PROVE  LoggedIn(NewRecords(old, d, units), d, n + Size(units))
<1> USE DEF Size
<1>1. SUFFICES ASSUME NEW i \in 1..(n + Len(units)), i % 2 = 0
               PROVE  <<d, i>> \in ToSet(NewRecords(old, d, units))
  BY DEF LoggedIn
<1>2. CASE i <= n
  <2>1. <<d, i>> \in ToSet(old)
    BY <1>1, <1>2 DEF LoggedIn
  <2> QED
    BY <2>1, RecordFacts
<1>3. CASE i > n
  <2>1. i - n \in 1..Len(units) /\ (i - n) % 2 = 0 /\ n + (i - n) = i
    BY <1>1, <1>3, HalfFacts, SMTT(30)
  <2>2. units[i - n] = f[i] /\ i \in 1..Len(f)
    BY <2>1, SMTT(30) DEF At
  <2>3. units[i - n].n = i
    BY <2>2 DEF Numbered
  <2> QED
    BY <2>1, <2>3, RecordFacts
<1> QED
  BY <1>2, <1>3

-----------------------------------------------------------------------------
\* It is enough to look at the direction a step is about.
LEMMA Focus ==
    ASSUME RelayInv, NEW d \in Directions, mode' = mode, fed' = fed,
           StreamTypes', FlagTypes', ControlTypes', TlsHeld',
           Unread(d)', Held(d)', Shape(d)', Reported(d)', Ends(d)',
           \A e \in Directions : Logged(e)',
           \A e \in Directions : e # d =>
              /\ Apart(e) /\ (Orderly(e)' => Orderly(e))
              /\ pc' \in {"drop", "done"} /\ Orderly(e)' => pc \in {"drop", "done"}
    PROVE  RelayInv'
<1>1. ASSUME NEW e \in Directions
      PROVE  Numbered(fed'[e], mode') /\ Unread(e)' /\ Held(e)' /\ Shape(e)' /\ Reported(e)' /\ Ends(e)'
  <2>1. Numbered(fed[e], mode) /\ Unread(e) /\ Held(e) /\ Shape(e) /\ Reported(e) /\ Ends(e)
    BY DEF RelayInv, FlowInv, EndInv
  <2>2. CASE e # d
    BY <2>1, <2>2, Frame, EndFrame
  <2> QED
    BY <2>1, <2>2
<1> QED
  BY <1>1 DEF RelayInv, Types, FlowInv, EndInv

\* What the invariant says of one direction.
LEMMA DirFacts ==
    ASSUME RelayInv, NEW d \in Directions
    PROVE  /\ StreamTypes /\ FlagTypes /\ ControlTypes /\ TlsHeld
           /\ Numbered(fed[d], mode) /\ Unread(d) /\ Held(d) /\ Shape(d)
           /\ Reported(d) /\ Logged(d) /\ Ends(d)
  BY DEF RelayInv, Types, FlowInv, EndInv

\* An endpoint that ends, or takes what it sent with it.
LEMMA EndpointInv ==
    ASSUME RelayInv, NEW d \in Directions, EndpointEnds(d)
    PROVE  RelayInv'
<1>0. /\ StreamTypes /\ FlagTypes /\ ControlTypes /\ TlsHeld
      /\ Unread(d) /\ Held(d) /\ Shape(d) /\ Reported(d) /\ Logged(d) /\ Ends(d)
  BY DirFacts
<1>1. /\ pend' = pend /\ got' = got /\ eof' = eof /\ counted' = counted /\ thread' = thread
      /\ records' = records /\ lapsed' = lapsed /\ cut' = cut /\ part' = part /\ tlsq' = tlsq
      /\ closed' = closed /\ closeSeen' = closeSeen /\ pc' = pc /\ mode' = mode /\ fed' = fed
  BY DEF EndpointEnds, relayVars, loopVars
<1>2. /\ src[d] # "gone" /\ src'[d] # "open"
      /\ net'[d] = net[d] \/ (net'[d] = <<>> /\ src'[d] = "gone")
      /\ \A e \in Directions : e # d => src'[e] = src[e] /\ net'[e] = net[e]
  BY <1>0 DEF EndpointEnds, StreamTypes, FlagTypes
<1>3. StreamTypes'
  <2>0. <<>> \in Seq(Units) /\ net \in [Directions -> Seq(Units)]
    BY <1>0 DEF StreamTypes
  <2>1. net' \in [Directions -> Seq(Units)]
    BY <2>0 DEF EndpointEnds
  <2> QED
    BY <1>0, <1>1, <2>1 DEF StreamTypes
<1>4. FlagTypes'
  <2>1. src' \in [Directions -> {"open", "fin", "gone"}]
    BY <1>0 DEF EndpointEnds, FlagTypes
  <2> QED
    BY <1>0, <1>1, <2>1 DEF FlagTypes
<1>5. ControlTypes' /\ TlsHeld'
  BY <1>0, <1>1 DEF ControlTypes, Threaded, TlsHeld
<1>6. Unread(d)'
  <2>1. IsTail(net'[d], fed'[d])
    BY <1>0, <1>1, <1>2, Sizes, EmptyFacts DEF Unread
  <2>2. Reads(d)' => Reads(d)
    BY <1>1 DEF Reads, Threaded
  <2> QED
    BY <1>0, <1>1, <1>2, <2>1, <2>2 DEF Unread
<1>7. Held(d)' /\ Shape(d)' /\ Reported(d)'
  BY <1>0, <1>1 DEF Held, TlsUp, Shape, Threaded, Reported, Framed
<1>8. \A e \in Directions : Logged(e)'
  BY <1>1, DirFacts DEF Logged, Framed
<1>9. \A e \in Directions : Orderly(e)' => Orderly(e)
  <2>1. Types
    BY <1>0 DEF Types
  <2>2. src'[d] \in {"fin", "gone"}
    BY <1>2, <1>4 DEF FlagTypes
  <2>3. \A e \in Directions :
           src'[e] = src[e] \/ src'[e] = "gone" \/ (src'[e] = "fin" /\ src[e] # "gone")
    BY <1>2, <2>2
  <2> QED
    BY <1>1, <2>1, <2>3, OrderlyKept
<1>10. Ends(d)'
  <2>2. OrderlyEnds(d) => OrderlyEnds(d)'
    BY <1>1, <1>2 DEF OrderlyEnds, Settled, Framed, Threaded, TlsUp
  <2> QED
    BY <1>0, <1>1, <1>9, <2>2 DEF Ends, Framed
<1>11. \A e \in Directions : e # d => Apart(e)
  BY <1>1, <1>2 DEF Apart
<1> QED
  BY <1>1, <1>3, <1>4, <1>5, <1>6, <1>7, <1>8, <1>9, <1>10, <1>11, Focus

\* Outside the TLS relay nothing is queued in a TLS session.
LEMMA NoQueue ==
    ASSUME TlsHeld, mode # "tls", NEW d \in Directions
    PROVE  tlsq = <<>> /\ Queued(tlsq, d) = 0
  BY DEF TlsHeld, Queued, Size

\* What a thread reads follows what was delivered; reading nothing more, it has
\* either failed or delivered everything.
LEMMA ThreadReadInv ==
    ASSUME RelayInv, NEW d \in Directions, ThreadRead(d)
    PROVE  RelayInv'
<1>0. /\ StreamTypes /\ FlagTypes /\ ControlTypes /\ TlsHeld
      /\ Unread(d) /\ Held(d) /\ Shape(d) /\ Reported(d) /\ Logged(d) /\ Ends(d)
  BY DirFacts
<1>1. /\ got' = got /\ eof' = eof /\ records' = records /\ cut' = cut /\ part' = part /\ tlsq' = tlsq
      /\ closed' = closed /\ closeSeen' = closeSeen /\ pc' = pc /\ mode' = mode /\ fed' = fed
      /\ src' = src /\ Threaded /\ thread[d] = "read"
  BY DEF ThreadRead, loopVars
<1>2. /\ mode \in {"tcp", "ws"} /\ tlsq = <<>> /\ Queued(tlsq, d) = 0 /\ pend[d] = <<>>
      /\ part[d] = <<>> /\ ~closeSeen[d] /\ ~eof[d] /\ ~closed[d] /\ Reads(d)
  BY <1>0, <1>1, NoQueue DEF Threaded, Shape, Reads, FlagTypes
<1>3. /\ fed[d] \in Seq(Units) /\ net[d] \in Seq(Units) /\ got[d] \in Seq(Units)
      /\ Size(fed[d]) \in Nat /\ Size(net[d]) \in Nat /\ Size(got[d]) \in Nat /\ Size(<<>>) = 0
  BY <1>0, Sizes DEF Size
<1>4. net[d] # <<>> \/ src[d] # "gone" => Size(got[d]) + Size(net[d]) = Size(fed[d])
  BY <1>0, <1>2, <1>3 DEF Unread
<1>5. TlsHeld'
  BY <1>1, <1>2 DEF TlsHeld
<1>6. \A e \in Directions : Logged(e)'
  BY <1>1, <1>2, DirFacts DEF Logged, Framed
<1>7. ASSUME StreamTypes', FlagTypes', ControlTypes',
             \A e \in Directions : e # d =>
                net'[e] = net[e] /\ pend'[e] = pend[e] /\ thread'[e] = thread[e] /\ counted'[e] = counted[e],
             \A e \in Directions : lapsed[e] => lapsed'[e],
             Unread(d)', Held(d)', Shape(d)', Reported(d)', Ends(d)'
      PROVE  RelayInv'
  <2>1. \A e \in Directions : e # d => Apart(e)
    BY <1>1, <1>7 DEF Apart
  <2>2. \A e \in Directions : Orderly(e)' => Orderly(e)
    BY <1>0, <1>1, <1>7, OrderlyKept DEF Types
  <2> QED
    BY <1>1, <1>5, <1>6, <1>7, <2>1, <2>2, Focus
<1>8. ASSUME Orderly(d)' /\ thread'[d] \in {"shut", "done"} => Settled(d, Size(got[d]))
      PROVE  Ends(d)'
  BY <1>1, <1>2, <1>8 DEF Ends, OrderlyEnds, Settled, TlsUp, Threaded, Framed
<1>9. ASSUME NEW k \in Readable(d), net' = [net EXCEPT ![d] = SubSeq(net[d], k + 1, Len(net[d]))],
             thread' = [thread EXCEPT ![d] = "shut"], lapsed' = [lapsed EXCEPT ![d] = TRUE],
             pend' = pend, counted' = counted
      PROVE  RelayInv'
  <2>1. k \in 0..Len(net[d])
    BY <1>3, <1>9 DEF Readable, FrameSize
  <2>2. /\ IsTail(SubSeq(net[d], k + 1, Len(net[d])), fed[d])
        /\ SubSeq(net[d], k + 1, Len(net[d])) \in Seq(Units)
    BY <1>0, <1>3, <2>1, TailCut DEF Unread
  <2>3. StreamTypes'
    BY <1>0, <1>1, <1>9, <2>2 DEF StreamTypes
  <2>4. FlagTypes' /\ ControlTypes'
    BY <1>0, <1>1, <1>9 DEF FlagTypes, ControlTypes, Threaded
  <2>5. thread'[d] = "shut" /\ net'[d] = SubSeq(net[d], k + 1, Len(net[d])) /\ lapsed'[d]
    BY <1>0, <1>9 DEF StreamTypes, ControlTypes, FlagTypes
  <2>6. Unread(d)'
    BY <1>1, <2>2, <2>5 DEF Unread, Reads, Threaded
  <2>7. Held(d)' /\ Reported(d)'
    BY <1>0, <1>1, <1>9 DEF Held, TlsUp, Reported, Framed
  <2>8. Shape(d)'
    BY <1>0, <1>1, <1>2, <1>9, <2>5 DEF Shape, Threaded
  <2>9. Ends(d)'
    BY <1>8, <2>5 DEF Orderly
  <2>10. \A e \in Directions : e # d =>
            net'[e] = net[e] /\ pend'[e] = pend[e] /\ thread'[e] = thread[e] /\ counted'[e] = counted[e]
    BY <1>0, <1>9 DEF StreamTypes, ControlTypes
  <2>11. \A e \in Directions : lapsed[e] => lapsed'[e]
    BY <1>0, <1>9 DEF FlagTypes
  <2> QED
    BY <1>7, <2>3, <2>4, <2>6, <2>7, <2>8, <2>9, <2>10, <2>11
<1>10. ASSUME NEW k \in Readable(d), net' = [net EXCEPT ![d] = SubSeq(net[d], k + 1, Len(net[d]))],
              thread' = [thread EXCEPT ![d] = "write"], lapsed' = lapsed,
              pend' = [pend EXCEPT ![d] = SubSeq(net[d], 1, k)],
              counted' = [counted EXCEPT ![d] = counted[d] + IF mode = "ws" THEN k ELSE 0]
      PROVE  RelayInv'
  <2> DEFINE front == SubSeq(net[d], 1, k)
             rest == SubSeq(net[d], k + 1, Len(net[d]))
  <2>1. k \in 0..Len(net[d]) /\ k \in Nat /\ k > 0 /\ (mode = "ws" => k = 2) /\ k <= Size(net[d])
    BY <1>2, <1>3, <1>10 DEF Readable, FrameSize, Size
  <2>2. /\ IsTail(rest, fed[d]) /\ rest \in Seq(Units) /\ front \in Seq(Units)
        /\ Size(front) = k /\ Size(rest) = Size(net[d]) - k
        /\ At(front, Size(fed[d]) - Size(net[d]), fed[d])
    BY <1>0, <1>3, <2>1, TailCut, SMTT(30) DEF Unread
  <2>3. /\ thread'[d] = "write" /\ net'[d] = rest /\ pend'[d] = front
        /\ counted'[d] = counted[d] + (IF mode = "ws" THEN k ELSE 0)
    BY <1>0, <1>10 DEF StreamTypes, ControlTypes, FlagTypes
  <2>4. StreamTypes'
    BY <1>0, <1>1, <1>10, <2>2 DEF StreamTypes
  <2>5. FlagTypes' /\ ControlTypes'
    <3>1. counted' \in [Directions -> Nat]
      BY <1>0, <1>10, <2>1 DEF FlagTypes
    <3> QED
      BY <1>0, <1>1, <1>10, <3>1 DEF FlagTypes, ControlTypes, Threaded
  <2> HIDE DEF front, rest
  <2>6. Size(got[d]) + Size(net[d]) = Size(fed[d])
    <3>1. net[d] # <<>>
      BY <1>3, <2>1
    <3> QED
      BY <3>1, <1>4
  <2>7. Size(fed[d]) - Size(net[d]) = Size(got[d]) /\ Size(got[d]) + k + (Size(net[d]) - k) = Size(fed[d])
    BY <1>3, <2>1, <2>6
  <2>8. Unread(d)'
    <3>1. Size(got[d]) + 0 + k + 0 + (Size(net[d]) - k) = Size(fed[d])
      BY <1>3, <2>1, <2>7
    <3> QED
      BY <1>1, <1>2, <1>3, <2>2, <2>3, <3>1 DEF Unread
  <2>9. Held(d)'
    <3>1. At(<<>>, Size(got[d]) + Size(front), fed[d])
      BY <1>3, <2>1, <2>2, <2>7, EmptyFacts
    <3> QED
      BY <1>0, <1>1, <1>2, <2>2, <2>3, <2>7, <3>1 DEF Held, TlsUp
  <2>10. Shape(d)'
    <3>1. pend'[d] # <<>>
      BY <1>3, <2>1, <2>2, <2>3
    <3>2. mode = "ws" => Len(got'[d]) % 2 = 0 /\ Len(pend'[d]) \in {0, 2}
      BY <1>0, <1>1, <2>1, <2>2, <2>3 DEF Shape, Size
    <3> QED
      BY <1>0, <1>1, <1>2, <2>3, <3>1, <3>2 DEF Shape, Threaded, Size
  <2>11. Reported(d)'
    <3>1. counted[d] \in Nat /\ (Size(got[d]) <= counted[d])
      BY <1>0 DEF FlagTypes, Reported
    <3>2. mode = "ws" => Size(got[d]) + Size(front) <= counted[d] + k
      BY <1>3, <2>1, <2>2, <3>1
    <3>3. mode = "tcp" => Size(got[d]) <= counted[d] + 0
      BY <3>1
    <3> QED
      BY <1>1, <1>2, <1>3, <2>1, <2>2, <2>3, <3>1, <3>2 DEF Reported, Framed
  <2>12. Ends(d)'
    BY <1>8, <2>3
  <2>13. \A e \in Directions : e # d =>
            net'[e] = net[e] /\ pend'[e] = pend[e] /\ thread'[e] = thread[e] /\ counted'[e] = counted[e]
    BY <1>0, <1>10 DEF StreamTypes, ControlTypes, FlagTypes
  <2> QED
    BY <1>7, <1>10, <2>4, <2>5, <2>8, <2>9, <2>10, <2>11, <2>12, <2>13
<1>11. ASSUME thread' = [thread EXCEPT ![d] = "shut"], net' = net, pend' = pend, counted' = counted,
              \/ lapsed' = [lapsed EXCEPT ![d] = TRUE]
              \/ lapsed' = lapsed /\ (src[d] = "gone" \/ (Readable(d) = {} /\ src[d] = "fin"))
      PROVE  RelayInv'
  <2>1. thread'[d] = "shut" /\ \A e \in Directions : lapsed[e] => lapsed'[e]
    BY <1>0, <1>11 DEF ControlTypes, FlagTypes
  <2>2. StreamTypes' /\ FlagTypes' /\ ControlTypes'
    BY <1>0, <1>1, <1>11 DEF StreamTypes, FlagTypes, ControlTypes, Threaded
  <2>3. Unread(d)'
    BY <1>0, <1>1, <1>11, <2>1 DEF Unread, Reads, Threaded
  <2>4. Held(d)' /\ Reported(d)'
    BY <1>0, <1>1, <1>11 DEF Held, TlsUp, Reported, Framed
  <2>5. Shape(d)'
    BY <1>0, <1>1, <1>2, <1>11, <2>1 DEF Shape, Threaded
  <2>6. ASSUME Orderly(d)' PROVE Settled(d, Size(got[d]))
    <3>1. src[d] = "fin" /\ Readable(d) = {} /\ Size(got[d]) + Size(net[d]) = Size(fed[d])
      <4>1. lapsed'[d] = FALSE /\ src[d] # "gone"
        BY <1>1, <2>2, <2>6 DEF Orderly, FlagTypes
      <4> QED
        BY <1>0, <1>4, <1>11, <4>1 DEF FlagTypes
    <3>2. CASE mode = "tcp"
      <4>0. 1..Size(net[d]) = {}
        BY <3>1, <3>2 DEF Readable, Size
      <4>1. Size(net[d]) = 0
        BY <1>3, <4>0
      <4> QED
        BY <1>3, <3>1, <4>1 DEF Settled, AllIn
    <3>3. CASE mode = "ws"
      <4>1. Size(net[d]) < 2 /\ Size(got[d]) % 2 = 0
        BY <1>0, <1>3, <3>1, <3>3 DEF Readable, FrameSize, Shape, Size
      <4>2. Size(got[d]) = Size(fed[d]) \/ Size(got[d]) + 1 = Size(fed[d])
        BY <1>3, <3>1, <4>1
      <4> QED
        BY <3>1, <3>3, <4>1, <4>2 DEF Settled, AllIn, FramedMode
    <3> QED
      BY <1>2, <3>2, <3>3
  <2>7. Ends(d)'
    BY <1>8, <2>6
  <2> QED
    BY <1>0, <1>7, <1>11, <2>1, <2>2, <2>3, <2>4, <2>5, <2>7 DEF ControlTypes
<1>12. CASE \E k \in Readable(d) :
            /\ net' = [net EXCEPT ![d] = SubSeq(net[d], k + 1, Len(net[d]))]
            /\ IF net[d][k].kind = "bad"
               THEN /\ thread' = [thread EXCEPT ![d] = "shut"]
                    /\ lapsed' = [lapsed EXCEPT ![d] = TRUE]
                    /\ UNCHANGED <<pend, counted>>
               ELSE /\ thread' = [thread EXCEPT ![d] = "write"]
                    /\ pend' = [pend EXCEPT ![d] = SubSeq(net[d], 1, k)]
                    /\ counted' = [counted EXCEPT ![d] = counted[d] + IF mode = "ws" THEN k ELSE 0]
                    /\ UNCHANGED lapsed
  BY <1>9, <1>10, <1>12
<1> QED
  BY <1>11, <1>12 DEF ThreadRead

\* What a thread writes goes right behind what was delivered.
LEMMA ThreadWriteInv ==
    ASSUME RelayInv, NEW d \in Directions, ThreadWrite(d)
    PROVE  RelayInv'
<1>0. /\ StreamTypes /\ FlagTypes /\ ControlTypes /\ TlsHeld /\ Numbered(fed[d], mode)
      /\ Unread(d) /\ Held(d) /\ Shape(d) /\ Reported(d) /\ Logged(d) /\ Ends(d)
  BY DirFacts
<1>1. /\ eof' = eof /\ lapsed' = lapsed /\ cut' = cut /\ part' = part /\ tlsq' = tlsq /\ net' = net
      /\ closed' = closed /\ closeSeen' = closeSeen /\ pc' = pc /\ mode' = mode /\ fed' = fed
      /\ src' = src /\ Threaded /\ thread[d] = "write" /\ pend' = [pend EXCEPT ![d] = <<>>]
  BY DEF ThreadWrite, loopVars
<1>2. /\ mode \in {"tcp", "ws"} /\ tlsq = <<>> /\ Queued(tlsq, d) = 0 /\ pend[d] # <<>>
      /\ part[d] = <<>> /\ ~closeSeen[d] /\ ~eof[d] /\ ~closed[d] /\ Reads(d)
  BY <1>0, <1>1, NoQueue DEF Threaded, Shape, Reads, FlagTypes
<1>3. /\ fed[d] \in Seq(Units) /\ net[d] \in Seq(Units) /\ got[d] \in Seq(Units) /\ pend[d] \in Seq(Units)
      /\ Size(fed[d]) \in Nat /\ Size(net[d]) \in Nat /\ Size(got[d]) \in Nat /\ Size(<<>>) = 0
      /\ Size(pend[d]) \in Nat
  BY <1>0, Sizes DEF Size
<1>4. TlsHeld' /\ pend'[d] = <<>> /\ <<>> \in Seq(Units)
  BY <1>0, <1>1, <1>2 DEF TlsHeld, StreamTypes
<1>5. \A e \in Directions : Orderly(e)' => Orderly(e)
  BY <1>1 DEF Orderly
<1>6. ASSUME Orderly(d)' /\ thread'[d] \in {"shut", "done"} =>
                Settled(d, Size(got'[d]))
      PROVE  Ends(d)'
  BY <1>1, <1>2, <1>6 DEF Ends, OrderlyEnds, Settled, TlsUp, Threaded, Framed
<1>7. At(got[d], 0, fed[d]) /\ At(pend[d], Size(got[d]), fed[d])
  BY <1>0, <1>2 DEF Held, TlsUp
<1>8. CASE Gone(d) /\ thread' = [thread EXCEPT ![d] = "shut"] /\ UNCHANGED <<got, counted, records>>
  <2>1. thread'[d] = "shut"
    BY <1>0, <1>8 DEF ControlTypes
  <2>2. StreamTypes' /\ FlagTypes' /\ ControlTypes'
    BY <1>0, <1>1, <1>4, <1>8 DEF StreamTypes, FlagTypes, ControlTypes, Threaded
  <2>3. Unread(d)'
    BY <1>0, <1>1, <2>1 DEF Unread, Reads, Threaded
  <2>4. Held(d)'
    <3>1. At(<<>>, Size(got[d]), fed[d]) /\ At(<<>>, Size(got[d]) + 0, fed[d])
      <4>1. Size(got[d]) <= Size(fed[d])
        BY <1>3, <1>7 DEF At
      <4> QED
        BY <1>3, <4>1, EmptyFacts
    <3> QED
      BY <1>1, <1>2, <1>3, <1>4, <1>7, <1>8, <3>1 DEF Held, TlsUp
  <2>5. Shape(d)'
    BY <1>0, <1>1, <1>2, <1>3, <1>4, <1>8, <2>1 DEF Shape, Threaded
  <2>6. Reported(d)'
    <3>1. Size(got[d]) + 0 = Size(got[d])
      BY <1>3
    <3> QED
      BY <1>0, <1>1, <1>3, <1>4, <1>8, <3>1 DEF Reported, Framed
  <2>7. Ends(d)'
    <3>1. ~Orderly(d)'
      BY <1>1, <1>8 DEF Orderly, Gone, Other, Directions
    <3> QED
      BY <1>6, <3>1
  <2>8. \A e \in Directions : Logged(e)'
    BY <1>1, <1>2, <1>8, DirFacts DEF Logged, Framed
  <2>9. \A e \in Directions : e # d => Apart(e)
    BY <1>0, <1>1, <1>8 DEF Apart, StreamTypes, ControlTypes
  <2> QED
    BY <1>1, <1>4, <1>5, <2>2, <2>3, <2>4, <2>5, <2>6, <2>7, <2>8, <2>9, Focus
<1>9. CASE /\ got' = [got EXCEPT ![d] = got[d] \o pend[d]]
           /\ counted' = [counted EXCEPT ![d] = counted[d] + IF mode = "tcp" THEN Len(pend[d]) ELSE 0]
           /\ records' = IF mode = "ws" THEN NewRecords(records, d, pend[d]) ELSE records
           /\ thread' = [thread EXCEPT ![d] = IF Last(pend[d]).kind = "close" THEN "shut" ELSE "read"]
  <2>1. /\ thread'[d] = (IF Last(pend[d]).kind = "close" THEN "shut" ELSE "read")
        /\ got'[d] = got[d] \o pend[d]
        /\ counted'[d] = counted[d] + (IF mode = "tcp" THEN Size(pend[d]) ELSE 0)
    BY <1>0, <1>9 DEF ControlTypes, StreamTypes, FlagTypes, Size
  <2>2. got'[d] \in Seq(Units) /\ Size(got'[d]) = Size(got[d]) + Size(pend[d])
    BY <1>3, <2>1 DEF Size
  <2>3. records \in Seq(Directions \X Nat) /\ records' \in Seq(Directions \X Nat)
    BY <1>0, <1>3, <1>9, RecordFacts DEF StreamTypes
  <2>4. StreamTypes'
    BY <1>0, <1>1, <1>4, <1>9, <2>2, <2>3 DEF StreamTypes
  <2>5. FlagTypes' /\ ControlTypes'
    <3>1. counted' \in [Directions -> Nat]
      BY <1>0, <1>3, <1>9 DEF FlagTypes, Size
    <3> QED
      BY <1>0, <1>1, <1>9, <3>1 DEF FlagTypes, ControlTypes, Threaded
  <2>6. At(got'[d], 0, fed[d]) /\ Size(got'[d]) <= Size(fed[d]) /\ Size(got'[d]) \in Nat
    <3>1. At(pend[d], 0 + Size(got[d]), fed[d])
      BY <1>3, <1>7
    <3>2. At(got'[d], 0, fed[d])
      BY <1>3, <1>7, <2>1, <3>1, AtConcat
    <3>3. 0 + Size(got'[d]) <= Size(fed[d])
      BY <3>2 DEF At
    <3> QED
      BY <1>3, <2>2, <3>2, <3>3
  <2>7. Unread(d)'
    <3>1. net[d] # <<>> \/ src[d] # "gone" =>
            Size(got[d]) + 0 + Size(pend[d]) + 0 + Size(net[d]) = Size(fed[d])
      BY <1>0, <1>2, <1>3 DEF Unread
    <3>2. net[d] # <<>> \/ src[d] # "gone" =>
            (Size(got[d]) + Size(pend[d])) + 0 + 0 + 0 + Size(net[d]) = Size(fed[d])
      BY <1>3, <3>1
    <3> QED
      BY <1>0, <1>1, <1>2, <1>3, <1>4, <2>2, <3>2 DEF Unread
  <2>8. Held(d)'
    <3>1. At(<<>>, Size(got'[d]), fed[d]) /\ At(<<>>, Size(got'[d]) + 0, fed[d])
      BY <1>3, <2>6, EmptyFacts
    <3> QED
      BY <1>1, <1>2, <1>3, <1>4, <2>6, <3>1 DEF Held, TlsUp
  <2>9. Shape(d)'
    <3>1. mode = "ws" => Size(got'[d]) % 2 = 0
      <4>1. mode = "ws" => Size(got[d]) % 2 = 0 /\ Size(pend[d]) \in {0, 2}
        BY <1>0 DEF Shape
      <4> QED
        BY <1>3, <2>2, <4>1
    <3> QED
      BY <1>0, <1>1, <1>2, <1>3, <1>4, <2>1, <3>1 DEF Shape, Threaded
  <2>10. Reported(d)'
    <3>1. counted[d] \in Nat /\ counted[d] >= Size(got[d])
      BY <1>0 DEF FlagTypes, Reported
    <3>2. mode = "ws" => counted[d] + 0 >= (Size(got[d]) + Size(pend[d])) + 0
      BY <1>0, <1>3, <3>1 DEF Reported, Framed
    <3>3. counted[d] + Size(pend[d]) >= Size(got[d]) + Size(pend[d])
      BY <1>3, <3>1
    <3>4. mode = "ws" => counted[d] + 0 >= Size(got[d]) + Size(pend[d])
      BY <1>3, <3>1, <3>2
    <3> QED
      BY <1>1, <1>2, <1>3, <1>4, <2>1, <2>2, <3>2, <3>3, <3>4 DEF Reported, Framed
  <2>11. \A e \in Directions : Logged(e)'
    <3>1. CASE mode = "tcp"
      BY <1>1, <3>1 DEF Logged, Framed
    <3>2. CASE mode = "ws" /\ Size(records') < RecordCap
      <4>1. /\ Size(records) < RecordCap /\ \A x \in ToSet(records) : x \in ToSet(records')
            /\ records' = NewRecords(records, d, pend[d])
        BY <1>3, <1>9, <2>3, <3>2, RecordFacts
      <4>2. \A e \in Directions : LoggedIn(records, e, Size(got[e]) + 0)
        BY <3>2, <4>1, DirFacts DEF Logged, Framed
      <4>3. LoggedIn(records', d, Size(got[d]) + Size(pend[d]))
        <5>1. Size(got[d]) + 0 = Size(got[d]) /\ Size(got[d]) % 2 = 0
          BY <1>0, <1>3, <3>2 DEF Shape
        <5>2. LoggedIn(records, d, Size(got[d]))
          BY <4>2, <5>1
        <5> QED
          BY <1>0, <1>3, <1>7, <2>3, <3>2, <4>1, <5>1, <5>2, LoggedMore
      <4>4. Size(got'[d]) + 0 = Size(got[d]) + Size(pend[d])
        BY <1>3, <2>2
      <4>5. \A e \in Directions : LoggedIn(records', e, Size(got'[e]) + 0)
        <5>1. ASSUME NEW e \in Directions, e # d PROVE LoggedIn(records', e, Size(got'[e]) + 0)
          <6>1. got'[e] = got[e]
            BY <1>0, <1>9, <5>1 DEF StreamTypes
          <6> QED
            BY <4>1, <4>2, <6>1 DEF LoggedIn
        <5> QED
          BY <4>3, <4>4, <5>1
      <4> QED
        BY <1>1, <3>2, <4>5 DEF Logged, Framed
    <3>3. CASE mode = "ws" /\ ~(Size(records') < RecordCap)
      BY <3>3 DEF Logged
    <3> QED
      BY <1>2, <3>1, <3>2, <3>3
  <2>12. Ends(d)'
    <3>1. ASSUME thread'[d] \in {"shut", "done"} PROVE Settled(d, Size(got'[d]))
      <4>1. Last(pend[d]).kind = "close"
        BY <2>1, <3>1
      <4>2. Size(pend[d]) > 0 /\ Last(pend[d]) = pend[d][Size(pend[d])]
        BY <1>2, <1>3 DEF Last, Size
      <4>3. /\ pend[d][Size(pend[d])] = fed[d][Size(got'[d])]
            /\ Size(got'[d]) \in 1..Size(fed[d])
        <5>1. Size(pend[d]) \in 1..Size(pend[d]) /\ Size(got'[d]) \in 1..Size(fed[d])
          BY <1>3, <2>2, <2>6, <4>2
        <5> QED
          BY <1>7, <2>2, <5>1 DEF At
      <4>4. mode = "ws"
        BY <1>0, <1>2, <4>1, <4>2, <4>3 DEF Numbered, FramedMode
      <4>5. Size(got'[d]) % 2 = 0
        BY <1>1, <2>9, <4>4 DEF Shape
      <4>6. CloseIn(fed[d], Size(got'[d]))
        BY <2>6, <4>1, <4>2, <4>3, <4>5 DEF CloseIn
      <4> QED
        BY <4>4, <4>6 DEF Settled, Framed
    <3> QED
      BY <1>6, <3>1
  <2>13. \A e \in Directions : e # d => Apart(e)
    BY <1>0, <1>1, <1>9 DEF Apart, StreamTypes, ControlTypes, FlagTypes
  <2> QED
    BY <1>1, <1>4, <1>5, <2>4, <2>5, <2>7, <2>8, <2>9, <2>10, <2>11, <2>12, <2>13, Focus
<1> QED
  BY <1>8, <1>9 DEF ThreadWrite

-----------------------------------------------------------------------------
LessNat == {p \in Nat \X Nat : p[1] < p[2]}

\* There is no endless descent in the natural numbers.
LEMMA LessWF == IsWellFoundedOn(LessNat, Nat)
<1> SUFFICES ASSUME NEW f \in [Nat -> Nat], \A n \in Nat : <<f[n + 1], f[n]>> \in LessNat
             PROVE  FALSE
  BY DEF IsWellFoundedOn
<1> QED
  BY NatLessThanWellFounded DEF IsWellFoundedOn, OpToRel, LessNat

\* Every non-empty set of numbers has a least one.
LEMMA Least ==
    ASSUME NEW T \in SUBSET Nat, T # {}
    PROVE  \E x \in T : \A y \in T : x <= y
<1>1. PICK x \in T : \A y \in T : ~(<<y, x>> \in LessNat)
  BY LessWF, WFMin
<1>2. ASSUME NEW y \in T PROVE x <= y
  <2>1. x \in Nat /\ y \in Nat
    OBVIOUS
  <2>2. ~(<<y, x>> \in LessNat) /\ (y < x => <<y, x>> \in LessNat)
    BY <1>1, <2>1 DEF LessNat
  <2> QED
    BY <2>1, <2>2
<1> QED
  BY <1>2

\* The units before close_notify are a prefix without one.
LEMMA BeforeFacts ==
    ASSUME NEW w \in Seq(Units \cup {Notify})
    PROVE  /\ NoNotify(w) => BeforeNotify(w) = w
           /\ NoNotify(w) <=> Notify \notin ToSet(w)
           /\ \E l \in 0..Len(w) : /\ BeforeNotify(w) = SubSeq(w, 1, l)
                                   /\ \A i \in 1..l : w[i] # Notify
                                   /\ l < Len(w) => w[l + 1] = Notify
<1> USE DEF Size
<1> DEFINE at == {i \in 1..Len(w) : w[i] = Notify}
<1>1. NoNotify(w) <=> at = {}
  BY DEF NoNotify
<1>2. NoNotify(w) <=> Notify \notin ToSet(w)
  BY DEF NoNotify, ToSet
<1>3. CASE at = {}
  <2>1. BeforeNotify(w) = w
    BY <1>3 DEF BeforeNotify
  <2>2. w = SubSeq(w, 1, Len(w)) /\ Len(w) \in 0..Len(w)
    OBVIOUS
  <2>3. \A i \in 1..Len(w) : w[i] # Notify
    BY <1>3
  <2>4. ~(Len(w) < Len(w))
    OBVIOUS
  <2> HIDE DEF at
  <2>5. \E l \in 0..Len(w) :
           /\ BeforeNotify(w) = SubSeq(w, 1, l)
           /\ \A i \in 1..l : w[i] # Notify
           /\ l < Len(w) => w[l + 1] = Notify
    <3> WITNESS Len(w) \in 0..Len(w)
    <3> QED
      BY <2>1, <2>2, <2>3, <2>4
  <2> QED
    BY <1>2, <2>1, <2>5
<1>4. CASE at # {}
  <2>1. \E i \in at : \A j \in at : i <= j
    <3>1. at \in SUBSET Nat
      OBVIOUS
    <3> QED
      BY <1>4, <3>1, Least
  <2> DEFINE m == CHOOSE i \in at : \A j \in at : i <= j
  <2>2. m \in at /\ \A j \in at : m <= j
    BY <2>1
  <2>3. BeforeNotify(w) = SubSeq(w, 1, m - 1)
    BY <1>4 DEF BeforeNotify
  <2> HIDE DEF m
  <2>4. m \in 1..Len(w) /\ w[m] = Notify
    BY <2>2
  <2>5. m - 1 \in 0..Len(w) /\ (m - 1) + 1 = m
    BY <2>4
  <2>6. ASSUME NEW i \in 1..(m - 1) PROVE w[i] # Notify
    <3>1. i \in 1..Len(w) /\ ~(m <= i)
      BY <2>4
    <3> QED
      BY <2>2, <3>1
  <2> QED
    BY <1>1, <1>2, <1>4, <2>3, <2>4, <2>5, <2>6
<1> QED
  BY <1>3, <1>4

\* The pending buffer goes behind what the session holds.
LEMMA RunsJoin ==
    ASSUME NEW q \in Seq(Units \cup {Notify}), NEW p \in Seq(Units), NEW f \in Seq(Units),
           NEW g \in Nat, NEW c \in Nat, Runs(q, g, c, f),
           NoNotify(q) => At(p, g + Size(q), f) /\ g + Size(q) + Size(p) <= c
    PROVE  /\ q \o p \in Seq(Units \cup {Notify}) /\ Size(q \o p) = Size(q) + Size(p)
           /\ Runs(q \o p, g, c, f)
           /\ NoNotify(q) <=> NoNotify(q \o p)
<1> USE DEF Size
<1>1. q \o p \in Seq(Units \cup {Notify}) /\ Len(q \o p) = Len(q) + Len(p)
  OBVIOUS
<1>2. \A i \in 1..Len(q) : (q \o p)[i] = q[i]
  OBVIOUS
<1>3. \A i \in 1..Len(p) : (q \o p)[Len(q) + i] = p[i] /\ p[i] # Notify
  <2>1. \A i \in 1..Len(p) : (q \o p)[Len(q) + i] = p[i] /\ p[i] \in Units
    OBVIOUS
  <2> QED
    BY <2>1 DEF Units, Notify, Unit
<1>4. ASSUME NEW i \in 1..Len(q \o p), \A j \in 1..i : (q \o p)[j] # Notify
      PROVE  g + i <= Len(f) /\ g + i <= c /\ (q \o p)[i] = f[g + i]
  <2>1. CASE i <= Len(q)
    <3>1. \A j \in 1..i : q[j] # Notify
      BY <1>2, <1>4, <2>1
    <3> QED
      BY <1>2, <2>1, <3>1 DEF Runs
  <2>2. CASE i > Len(q)
    <3>1. NoNotify(q)
      BY <1>2, <1>4, <2>2 DEF NoNotify
    <3>2. i - Len(q) \in 1..Len(p) /\ Len(q) + (i - Len(q)) = i /\ (g + Len(q)) + (i - Len(q)) = g + i
      BY <1>1, <2>2
    <3>3. (q \o p)[i] = p[i - Len(q)]
      BY <1>3, <3>2
    <3>4. p[i - Len(q)] = f[g + i]
      BY <3>1, <3>2 DEF At
    <3>5. g + i <= Len(f) /\ g + i <= c
      BY <3>1, <3>2 DEF At
    <3> QED
      BY <3>3, <3>4, <3>5
  <2> QED
    BY <2>1, <2>2
<1>5. ASSUME NoNotify(q) PROVE NoNotify(q \o p)
  <2>1. ASSUME NEW i \in 1..Len(q \o p) PROVE (q \o p)[i] # Notify
    <3>1. CASE i <= Len(q)
      BY <1>2, <1>5, <3>1 DEF NoNotify
    <3>2. CASE i > Len(q)
      <4>1. i - Len(q) \in 1..Len(p) /\ Len(q) + (i - Len(q)) = i
        BY <1>1, <3>2
      <4> QED
        BY <1>3, <4>1
    <3> QED
      BY <3>1, <3>2
  <2> QED
    BY <2>1 DEF NoNotify
<1>6. ASSUME NoNotify(q \o p) PROVE NoNotify(q)
  BY <1>1, <1>2, <1>6 DEF NoNotify
<1> QED
  BY <1>1, <1>4, <1>5, <1>6 DEF Runs

\* What a flush writes before close_notify goes right behind what was delivered.
LEMMA RunsCut ==
    ASSUME NEW q \in Seq(Units \cup {Notify}), NEW f \in Seq(Units), NEW g \in Nat, NEW c \in Nat,
           g <= c, g <= Size(f), Runs(q, g, c, f), NEW w \in Prefixes(q)
    PROVE  /\ BeforeNotify(w) \in Seq(Units) /\ At(BeforeNotify(w), g, f)
           /\ g + Size(BeforeNotify(w)) <= c
           /\ NoNotify(w) => Runs(After(q, w), g + Size(w), c, f)
           /\ NoNotify(w) /\ NoNotify(After(q, w)) <=> NoNotify(q)
<1> USE DEF Size
<1>1. /\ w \in Seq(Units \cup {Notify}) /\ After(q, w) \in Seq(Units \cup {Notify})
      /\ Len(w) <= Len(q) /\ Len(After(q, w)) = Len(q) - Len(w)
      /\ \A i \in 1..Len(w) : w[i] = q[i]
      /\ \A i \in 1..(Len(q) - Len(w)) : After(q, w)[i] = q[Len(w) + i]
  BY PrefixFacts
<1>2. PICK l \in 0..Len(w) : BeforeNotify(w) = SubSeq(w, 1, l) /\ \A i \in 1..l : w[i] # Notify
  BY <1>1, BeforeFacts
<1>3. /\ SubSeq(w, 1, l) \in Seq(Units \cup {Notify}) /\ Len(SubSeq(w, 1, l)) = l
      /\ \A i \in 1..l : SubSeq(w, 1, l)[i] = w[i]
  BY <1>1, SubFacts
<1>4. \A i \in 1..l : g + i <= Len(f) /\ g + i <= c /\ w[i] = f[g + i] /\ w[i] \in Units
  <2>1. ASSUME NEW i \in 1..l PROVE g + i <= Len(f) /\ g + i <= c /\ w[i] = f[g + i]
    <3>0. i \in 1..Len(w) /\ i \in 1..Len(q) /\ \A j \in 1..i : j \in 1..l /\ j \in 1..Len(w)
      BY <1>1, <1>2
    <3>1. i \in 1..Len(q) /\ \A j \in 1..i : q[j] # Notify
      BY <1>1, <1>2, <3>0
    <3> QED
      BY <1>1, <3>1 DEF Runs
  <2>2. \A i \in 1..l : w[i] \in Units \cup {Notify} /\ w[i] # Notify
    BY <1>1, <1>2
  <2> QED
    BY <2>1, <2>2
<1>5. SubSeq(w, 1, l) \in Seq(Units)
  BY <1>3, <1>4, ElementOfSeq, SeqDef
<1>6. At(SubSeq(w, 1, l), g, f) /\ g + l <= c
  <2>1. g + l <= Len(f) /\ g + l <= c
    <3>1. CASE l = 0
      BY <3>1
    <3>2. CASE l # 0
      BY <1>4, <3>2
    <3> QED
      BY <3>1, <3>2
  <2> QED
    BY <1>3, <1>4, <2>1 DEF At
<1>7. ASSUME NoNotify(w) PROVE Runs(After(q, w), g + Len(w), c, f)
  <2>1. ASSUME NEW i \in 1..(Len(q) - Len(w)), \A j \in 1..i : After(q, w)[j] # Notify
        PROVE  /\ (g + Len(w)) + i <= Len(f) /\ (g + Len(w)) + i <= c
               /\ After(q, w)[i] = f[(g + Len(w)) + i]
    <3>1. Len(w) + i \in 1..Len(q) /\ g + (Len(w) + i) = (g + Len(w)) + i
      BY <1>1
    <3>2. ASSUME NEW j \in 1..(Len(w) + i) PROVE q[j] # Notify
      <4>1. CASE j <= Len(w)
        <5>1. j \in 1..Len(w)
          BY <4>1
        <5> QED
          BY <1>1, <1>7, <5>1 DEF NoNotify
      <4>2. CASE j > Len(w)
        <5>1. j - Len(w) \in 1..i /\ j - Len(w) \in 1..(Len(q) - Len(w)) /\ Len(w) + (j - Len(w)) = j
          BY <1>1, <4>2
        <5> QED
          BY <1>1, <2>1, <5>1
      <4> QED
        BY <4>1, <4>2
    <3>3. /\ g + (Len(w) + i) <= Len(f) /\ g + (Len(w) + i) <= c
          /\ q[Len(w) + i] = f[g + (Len(w) + i)]
      BY <3>1, <3>2 DEF Runs
    <3> QED
      BY <1>1, <3>1, <3>3
  <2> QED
    BY <1>1, <2>1 DEF Runs
<1>8. ASSUME NoNotify(w), NoNotify(After(q, w)) PROVE NoNotify(q)
  <2>1. ASSUME NEW i \in 1..Len(q) PROVE q[i] # Notify
    <3>1. CASE i <= Len(w)
      BY <1>1, <1>8, <3>1, SMTT(30) DEF NoNotify
    <3>2. CASE i > Len(w)
      <4>1. i - Len(w) \in 1..(Len(q) - Len(w)) /\ Len(w) + (i - Len(w)) = i
        BY <1>1, <3>2
      <4> QED
        BY <1>1, <1>8, <4>1 DEF NoNotify
    <3> QED
      BY <3>1, <3>2
  <2> QED
    BY <2>1 DEF NoNotify
<1>9. ASSUME NoNotify(q) PROVE NoNotify(w) /\ NoNotify(After(q, w))
  <2>1. NoNotify(w)
    BY <1>1, <1>9 DEF NoNotify
  <2>2. ASSUME NEW i \in 1..(Len(q) - Len(w)) PROVE After(q, w)[i] # Notify
    <3>1. Len(w) + i \in 1..Len(q)
      BY <1>1
    <3> QED
      BY <1>1, <1>9, <3>1 DEF NoNotify
  <2> QED
    BY <1>1, <2>1, <2>2 DEF NoNotify
<1> QED
  BY <1>2, <1>3, <1>5, <1>6, <1>7, <1>8, <1>9

\* A flush that takes close_notify has taken everything before it.
LEMMA LastCut ==
    ASSUME NEW q \in Seq(Units \cup {Notify}), NEW f \in Seq(Units), NEW g \in Nat,
           LastOut(q, g, f), NEW w \in Prefixes(q)
    PROVE  /\ NoNotify(w) => LastOut(After(q, w), g + Size(w), f)
           /\ ~NoNotify(w) => g + Size(BeforeNotify(w)) = Size(f)
<1> USE DEF Size
<1>1. /\ w \in Seq(Units \cup {Notify}) /\ After(q, w) \in Seq(Units \cup {Notify})
      /\ Len(w) <= Len(q) /\ Len(After(q, w)) = Len(q) - Len(w)
      /\ \A i \in 1..Len(w) : w[i] = q[i]
      /\ \A i \in 1..(Len(q) - Len(w)) : After(q, w)[i] = q[Len(w) + i]
  BY PrefixFacts
<1>2. g + Len(q) = Len(f) + 1 /\ \A i \in 1..Len(q) : q[i] = Notify <=> i = Len(q)
  BY DEF LastOut
<1>3. LastOut(After(q, w), g + Len(w), f)
  <2>1. ASSUME NEW i \in 1..(Len(q) - Len(w)) PROVE After(q, w)[i] = Notify <=> i = Len(q) - Len(w)
    <3>1. Len(w) + i \in 1..Len(q) /\ (Len(w) + i = Len(q) <=> i = Len(q) - Len(w))
      BY <1>1
    <3> QED
      BY <1>1, <1>2, <3>1
  <2>2. (g + Len(w)) + (Len(q) - Len(w)) = Len(f) + 1
    <3>1. Len(w) \in Nat /\ Len(q) \in Nat /\ Len(f) \in Nat
      BY <1>1
    <3> QED
      BY <1>2, <3>1
  <2> QED
    BY <1>1, <2>1, <2>2 DEF LastOut
<1>4. ASSUME ~NoNotify(w) PROVE g + Len(BeforeNotify(w)) = Len(f)
  <2>1. PICK l \in 0..Len(w) : /\ BeforeNotify(w) = SubSeq(w, 1, l)
                               /\ \A i \in 1..l : w[i] # Notify
                               /\ l < Len(w) => w[l + 1] = Notify
    BY <1>1, BeforeFacts
  <2>2. l # Len(w)
    BY <1>4, <2>1 DEF NoNotify
  <2>6. l + 1 \in 1..Len(w) /\ l + 1 \in 1..Len(q) /\ l < Len(w)
    BY <1>1, <2>2
  <2>3. l + 1 \in 1..Len(w) /\ l + 1 \in 1..Len(q) /\ w[l + 1] = Notify
    BY <2>1, <2>6
  <2>4. l + 1 = Len(q)
    BY <1>1, <1>2, <2>3
  <2>5. Len(BeforeNotify(w)) = l
    BY <1>1, <2>1, SubFacts
  <2> QED
    BY <1>2, <2>4, <2>5
<1> QED
  BY <1>3, <1>4

\* Queueing close_notify, and reading on.
LEMMA RunsMore ==
    ASSUME NEW q \in Seq(Units \cup {Notify}), NEW f \in Seq(Units), NEW g \in Nat,
           NEW c \in Nat, NEW k \in Nat, Runs(q, g, c, f)
    PROVE  /\ Runs(q, g, c + k, f) /\ Runs(Append(q, Notify), g, c + k, f)
           /\ Append(q, Notify) \in Seq(Units \cup {Notify})
           /\ Size(Append(q, Notify)) = Size(q) + 1 /\ ~NoNotify(Append(q, Notify))
           /\ NoNotify(q) => \A i \in 1..Size(Append(q, Notify)) :
                 Append(q, Notify)[i] = Notify <=> i = Size(Append(q, Notify))
<1> USE DEF Size
<1>1. /\ Append(q, Notify) \in Seq(Units \cup {Notify}) /\ Len(Append(q, Notify)) = Len(q) + 1
      /\ \A i \in 1..Len(q) : Append(q, Notify)[i] = q[i]
      /\ Append(q, Notify)[Len(q) + 1] = Notify
  OBVIOUS
<1>2. Runs(q, g, c + k, f)
  BY DEF Runs
<1>3. ASSUME NEW i \in 1..(Len(q) + 1), \A j \in 1..i : Append(q, Notify)[j] # Notify
      PROVE  g + i <= Len(f) /\ g + i <= c + k /\ Append(q, Notify)[i] = f[g + i]
  <2>1. i # Len(q) + 1
    BY <1>1, <1>3
  <2>2. i \in 1..Len(q) /\ \A j \in 1..i : j \in 1..Len(q) /\ Append(q, Notify)[j] = q[j]
    BY <1>1, <2>1
  <2> QED
    BY <1>1, <1>2, <1>3, <2>2 DEF Runs
<1>4. ~NoNotify(Append(q, Notify))
  BY <1>1 DEF NoNotify
<1>5. NoNotify(q) => \A i \in 1..(Len(q) + 1) : Append(q, Notify)[i] = Notify <=> i = Len(q) + 1
  BY <1>1 DEF NoNotify
<1> QED
  BY <1>1, <1>2, <1>3, <1>4, <1>5 DEF Runs

-----------------------------------------------------------------------------
\* The end of a direction's thread.
LEMMA ThreadShutInv ==
    ASSUME RelayInv, NEW d \in Directions, ThreadShut(d)
    PROVE  RelayInv'
<1>0. /\ StreamTypes /\ FlagTypes /\ ControlTypes /\ TlsHeld /\ Numbered(fed[d], mode)
      /\ Unread(d) /\ Held(d) /\ Shape(d) /\ Reported(d) /\ Logged(d) /\ Ends(d)
  BY DirFacts
<1>1. /\ lapsed' = lapsed /\ cut' = cut /\ part' = part /\ tlsq' = tlsq /\ net' = net
      /\ closed' = closed /\ closeSeen' = closeSeen /\ pc' = pc /\ mode' = mode /\ fed' = fed
      /\ src' = src /\ pend' = pend /\ got' = got /\ counted' = counted /\ records' = records
      /\ Threaded /\ thread[d] = "shut"
  BY DEF ThreadShut, loopVars
<1>2. thread' = [thread EXCEPT ![d] = "done"] /\ eof' = [eof EXCEPT ![d] = TRUE]
  BY DEF ThreadShut, Shutdown
<1>3. StreamTypes' /\ FlagTypes' /\ ControlTypes' /\ thread'[d] = "done" /\ mode # "tls"
  BY <1>0, <1>1, <1>2 DEF StreamTypes, FlagTypes, ControlTypes, Threaded
<1>4. TlsHeld'
  BY <1>0, <1>1, <1>3 DEF TlsHeld
<1>5. Unread(d)' /\ Held(d)' /\ Reported(d)'
  BY <1>0, <1>1, <1>3 DEF Unread, Reads, Threaded, Held, TlsUp, Reported, Framed
<1>6. Shape(d)'
  BY <1>0, <1>1, <1>3 DEF Shape, Threaded
<1>7. \A e \in Directions : Orderly(e)' => Orderly(e)
  BY <1>1 DEF Orderly
<1>8. Ends(d)'
  BY <1>0, <1>1, <1>3, <1>7 DEF Ends, OrderlyEnds, Settled, TlsUp, Threaded, Framed
<1>9. \A e \in Directions : Logged(e)'
  BY <1>1, DirFacts DEF Logged, Framed
<1>10. \A e \in Directions : e # d => Apart(e)
  BY <1>0, <1>1, <1>2 DEF Apart, FlagTypes, ControlTypes
<1> QED
  BY <1>1, <1>3, <1>4, <1>5, <1>6, <1>7, <1>8, <1>9, <1>10, Focus

\* The end of a loop.
LEMMA LoopDropInv ==
    ASSUME RelayInv, LoopDrop
    PROVE  RelayInv'
<1>0. StreamTypes /\ FlagTypes /\ ControlTypes /\ TlsHeld
  BY DEF RelayInv, Types
<1>1. /\ lapsed' = lapsed /\ cut' = cut /\ part' = part /\ tlsq' = tlsq /\ net' = net
      /\ closed' = closed /\ closeSeen' = closeSeen /\ mode' = mode /\ fed' = fed
      /\ src' = src /\ pend' = pend /\ got' = got /\ counted' = counted /\ records' = records
      /\ thread' = thread /\ pc = "drop" /\ pc' = "done"
  BY DEF LoopDrop
<1>2. ~Threaded /\ \A e \in Directions : eof'[e] = TRUE
  BY <1>0, <1>1 DEF LoopDrop, Each, ControlTypes
<1>3. StreamTypes' /\ FlagTypes' /\ ControlTypes' /\ TlsHeld'
  <2>1. eof' \in [Directions -> BOOLEAN]
    BY DEF LoopDrop, Each
  <2>2. "up" \in Directions
    BY DEF Directions
  <2>3. StreamTypes' /\ FlagTypes'
    BY <1>0, <1>1, <2>1 DEF StreamTypes, FlagTypes
  <2> QED
    BY <1>0, <1>1, <1>2, <2>2, <2>3 DEF ControlTypes, Threaded, TlsHeld
<1>4. ASSUME NEW e \in Directions
      PROVE  /\ Numbered(fed'[e], mode') /\ Unread(e)' /\ Held(e)' /\ Shape(e)'
             /\ Reported(e)' /\ Logged(e)' /\ Ends(e)'
  <2>0. /\ Numbered(fed[e], mode) /\ Unread(e) /\ Held(e) /\ Shape(e)
        /\ Reported(e) /\ Logged(e) /\ Ends(e)
    BY DirFacts
  <2>1. Numbered(fed'[e], mode') /\ Unread(e)' /\ Held(e)' /\ Reported(e)' /\ Logged(e)'
    BY <1>1, <1>2, <2>0 DEF Unread, Reads, Threaded, Held, TlsUp, Reported, Framed, Logged
  <2>2. Shape(e)'
    BY <1>1, <1>2, <2>0 DEF Shape, Threaded
  <2>3. Orderly(e)' => Orderly(e)
    BY <1>1 DEF Orderly
  <2>4. Ends(e)'
    BY <1>1, <1>2, <2>0, <2>3 DEF Ends, OrderlyEnds, Settled, TlsUp, Threaded, Framed
  <2> QED
    BY <2>1, <2>2, <2>4
<1> QED
  BY <1>3, <1>4 DEF RelayInv, Types, FlowInv, EndInv

\* A part of a buffer, none of it included.
LEMMA NothingIsPrefix ==
    ASSUME NEW S, NEW s \in Seq(S)
    PROVE  <<>> \in Prefixes(s)
<1>1. SubSeq(s, 1, 0) = <<>> /\ 0 \in 0..Len(s)
  OBVIOUS
<1> QED
  BY <1>1 DEF Prefixes

\* A delivery to the client goes right behind what was delivered; the loop ends
\* with its buffer empty.
LEMMA TlsDeliverInv ==
    ASSUME RelayInv, TlsDeliver
    PROVE  RelayInv'
<1> DEFINE d == "down"
<1>0. /\ StreamTypes /\ FlagTypes /\ ControlTypes /\ TlsHeld /\ Numbered(fed[d], mode)
      /\ Unread(d) /\ Held(d) /\ Shape(d) /\ Reported(d) /\ Logged(d) /\ Ends(d) /\ d \in Directions
  BY DirFacts DEF Directions
<1>1. /\ lapsed' = lapsed /\ cut' = cut /\ part' = part /\ tlsq' = tlsq /\ net' = net /\ eof' = eof
      /\ closed' = closed /\ closeSeen' = closeSeen /\ mode' = mode /\ fed' = fed
      /\ src' = src /\ records' = records /\ thread' = thread /\ mode = "tls" /\ pc = "deliver"
  BY DEF TlsDeliver
<1>2. /\ fed[d] \in Seq(Units) /\ net[d] \in Seq(Units) /\ got[d] \in Seq(Units) /\ pend[d] \in Seq(Units)
      /\ Size(fed[d]) \in Nat /\ Size(net[d]) \in Nat /\ Size(got[d]) \in Nat /\ Size(<<>>) = 0
      /\ Size(pend[d]) \in Nat
  BY <1>0, Sizes DEF Size
<1>3. PICK w \in Prefixes(pend[d]) :
          /\ pend' = [pend EXCEPT ![d] = After(pend[d], w)]
          /\ got' = [got EXCEPT ![d] = got[d] \o w]
          /\ counted' = [counted EXCEPT ![d] = counted[d] + Len(w)]
          /\ pc' = IF closed[d] /\ pend'[d] = <<>> THEN "drop" ELSE "flush"
  BY <1>2, NothingIsPrefix DEF TlsDeliver
<1>4. /\ w \in Seq(Units) /\ After(pend[d], w) \in Seq(Units) /\ Size(w) \in Nat
      /\ Size(w) <= Size(pend[d]) /\ Size(After(pend[d], w)) = Size(pend[d]) - Size(w)
      /\ got[d] \o w \in Seq(Units) /\ Size(got[d] \o w) = Size(got[d]) + Size(w)
  <2>1. /\ w \in Seq(Units) /\ After(pend[d], w) \in Seq(Units)
        /\ Size(w) <= Size(pend[d]) /\ Size(After(pend[d], w)) = Size(pend[d]) - Size(w)
    BY <1>2, PrefixFacts
  <2> QED
    BY <1>2, <2>1, JoinFacts
<1>5. /\ pend'[d] = After(pend[d], w) /\ got'[d] = got[d] \o w /\ counted'[d] = counted[d] + Size(w)
      /\ Size(got'[d]) + Size(pend'[d]) = Size(got[d]) + Size(pend[d])
  <2>1. /\ pend'[d] = After(pend[d], w) /\ got'[d] = got[d] \o w /\ counted'[d] = counted[d] + Size(w)
    BY <1>0, <1>3 DEF StreamTypes, FlagTypes, Size
  <2> QED
    BY <1>2, <1>4, <2>1
<1>6. StreamTypes' /\ FlagTypes' /\ ControlTypes'
  <2>1. StreamTypes'
    BY <1>0, <1>1, <1>3, <1>4 DEF StreamTypes
  <2>2. counted' \in [Directions -> Nat]
    BY <1>0, <1>3, <1>4 DEF FlagTypes, Size
  <2> QED
    BY <1>0, <1>1, <1>3, <2>1, <2>2 DEF FlagTypes, ControlTypes, Threaded
<1>7. pend'["up"] = pend["up"] /\ got'["up"] = got["up"] /\ counted'["up"] = counted["up"]
  BY <1>0, <1>3 DEF StreamTypes, FlagTypes, Directions
<1>8. TlsHeld'
  BY <1>0, <1>1, <1>3, <1>7 DEF TlsHeld
<1>9. Unread(d)'
  <2>1. Reads(d)' => Reads(d)
    BY <1>1, <1>3 DEF Reads, Threaded
  <2>2. /\ part[d] = <<>> /\ Queued(tlsq, d) = 0
    BY <1>0, <1>1 DEF Shape, Queued
  <2>3. Size(got'[d]) + 0 + Size(pend'[d]) + 0 + Size(net[d]) = Size(got[d]) + 0 + Size(pend[d]) + 0 + Size(net[d])
    BY <1>2, <1>4, <1>5
  <2> QED
    BY <1>0, <1>1, <1>2, <2>1, <2>2, <2>3 DEF Unread
<1>10. Held(d)'
  <2>1. At(got[d], 0, fed[d]) /\ At(pend[d], 0 + Size(got[d]), fed[d])
    BY <1>0, <1>1, <1>2 DEF Held, TlsUp
  <2>2. At(w, 0 + Size(got[d]), fed[d]) /\ At(After(pend[d], w), 0 + Size(got[d]) + Size(w), fed[d])
    BY <1>2, <2>1, AtCut
  <2>3. At(got'[d], 0, fed[d])
    BY <1>2, <1>4, <1>5, <2>1, <2>2, AtConcat, SMTT(30)
  <2>4. At(pend'[d], Size(got'[d]), fed[d])
    BY <1>2, <1>4, <1>5, <2>2
  <2>5. At(part[d], Size(got'[d]) + Size(pend'[d]), fed[d])
    BY <1>0, <1>1, <1>5 DEF Held, TlsUp
  <2> QED
    BY <1>1, <2>3, <2>4, <2>5 DEF Held, TlsUp
<1>11. Shape(d)'
  BY <1>0, <1>1, <1>3 DEF Shape, Threaded
<1>12. Reported(d)'
  <2>1. counted[d] \in Nat /\ counted[d] >= Size(got[d])
    BY <1>0 DEF FlagTypes, Reported
  <2> QED
    BY <1>1, <1>2, <1>4, <1>5, <2>1 DEF Reported, Framed
<1>13. \A e \in Directions : Logged(e)'
  BY <1>1 DEF Logged, Framed
<1>14. \A e \in Directions : Orderly(e)' => Orderly(e)
  BY <1>1 DEF Orderly
<1>15. Ends(d)'
  <2>1. ~closeSeen[d] /\ ~TlsUp(d)
    BY <1>0, <1>1 DEF Shape, TlsUp
  <2>2. OrderlyEnds(d) => OrderlyEnds(d)'
    BY <1>1, <1>3, <1>5, <2>1 DEF OrderlyEnds, Settled, TlsUp, Threaded, Framed
  <2> QED
    BY <1>0, <1>1, <1>14, <2>1, <2>2 DEF Ends
<1>16. ASSUME Orderly("up") PROVE ~closed[d]
  <2>1. Orderly(d) /\ src[d] = "open"
    BY <1>1, <1>16 DEF Orderly
  <2> QED
    BY <1>0, <1>1, <2>1 DEF Ends, OrderlyEnds, Settled, Framed
<1>17. \A e \in Directions : e # d => Apart(e)
  BY <1>0, <1>1, <1>3, <1>7 DEF Apart, Directions
<1>18. \A e \in Directions : e # d => (pc' \in {"drop", "done"} /\ Orderly(e)' => pc \in {"drop", "done"})
  BY <1>3, <1>14, <1>16 DEF Directions
<1> QED
  BY <1>0, <1>1, <1>6, <1>8, <1>9, <1>10, <1>11, <1>12, <1>13, <1>14, <1>15, <1>17, <1>18, Focus

\* What the TLS relay reads from upstream goes behind what it holds.
LEMMA TlsReadUpstreamInv ==
    ASSUME RelayInv, TlsReadUpstream
    PROVE  RelayInv'
<1> DEFINE d == "down"
<1>0. /\ StreamTypes /\ FlagTypes /\ ControlTypes /\ TlsHeld /\ Numbered(fed[d], mode)
      /\ Unread(d) /\ Held(d) /\ Shape(d) /\ Reported(d) /\ Logged(d) /\ Ends(d) /\ d \in Directions
  BY DirFacts DEF Directions
<1>1. /\ cut' = cut /\ part' = part /\ tlsq' = tlsq /\ eof' = eof /\ got' = got /\ counted' = counted
      /\ closeSeen' = closeSeen /\ mode' = mode /\ fed' = fed
      /\ src' = src /\ records' = records /\ thread' = thread /\ mode = "tls" /\ pc = "down"
  BY DEF TlsReadUpstream
<1>2. /\ fed[d] \in Seq(Units) /\ net[d] \in Seq(Units) /\ got[d] \in Seq(Units) /\ pend[d] \in Seq(Units)
      /\ Size(fed[d]) \in Nat /\ Size(net[d]) \in Nat /\ Size(got[d]) \in Nat /\ Size(<<>>) = 0
      /\ Size(pend[d]) \in Nat /\ part[d] = <<>> /\ Queued(tlsq, d) = 0
  <2>1. part[d] = <<>> /\ Queued(tlsq, d) = 0 /\ Size(<<>>) = 0
    BY <1>0, <1>1 DEF Shape, Queued, Size
  <2> QED
    BY <1>0, <2>1, Sizes
<1>3. \A e \in Directions : Logged(e)'
  BY <1>1 DEF Logged, Framed
<1>4. ASSUME StreamTypes', FlagTypes', ControlTypes', pc' \in {"deliver", "drop"},
             pend'["up"] = pend["up"], net'["up"] = net["up"], closed'["up"] = closed["up"],
             \A e \in Directions : lapsed[e] => lapsed'[e],
             pc' = "drop" => lapsed'[d],
             Unread(d)', Held(d)',
             Orderly(d)' => /\ closed'[d] => Settled(d, Size(got[d]) + Size(pend'[d]))
      PROVE  RelayInv'
  <2>1. TlsHeld'
    BY <1>0, <1>1, <1>4 DEF TlsHeld
  <2>2. Shape(d)' /\ Reported(d)'
    BY <1>0, <1>1, <1>4 DEF Shape, Threaded, Reported, Framed
  <2>3. \A e \in Directions : Orderly(e)' => Orderly(e)
    BY <1>0, <1>1, <1>4, OrderlyKept DEF Types
  <2>4. \A e \in Directions : pc' \in {"drop", "done"} => ~Orderly(e)'
    BY <1>0, <1>4 DEF Orderly
  <2>5. Ends(d)'
    <3>1. ~closeSeen[d] /\ ~TlsUp(d)
      BY <1>0, <1>1 DEF Shape, TlsUp
    <3>2. Orderly(d)' => OrderlyEnds(d)'
      BY <1>0, <1>1, <1>4, <2>4 DEF OrderlyEnds, Settled, TlsUp, Threaded, Framed
    <3> QED
      BY <1>1, <3>1, <3>2 DEF Ends
  <2>6. \A e \in Directions : e # d => Apart(e)
    BY <1>1, <1>4 DEF Apart, Directions
  <2> QED
    BY <1>0, <1>1, <1>3, <1>4, <2>1, <2>2, <2>3, <2>4, <2>5, <2>6, Focus
<1>5. CASE closed[d]
  <2>1. pc' = "deliver" /\ UNCHANGED <<net, pend, closed, lapsed>>
    BY <1>5 DEF TlsReadUpstream
  <2>2. StreamTypes' /\ FlagTypes' /\ ControlTypes'
    BY <1>0, <1>1, <2>1 DEF StreamTypes, FlagTypes, ControlTypes, Threaded
  <2>3. Unread(d)' /\ Held(d)'
    BY <1>0, <1>1, <1>5, <2>1 DEF Unread, Reads, Threaded, Held, TlsUp
  <2>4. Orderly(d)' => Settled(d, Size(got[d]) + Size(pend[d]))
    <3>1. Orderly(d)' => Orderly(d)
      BY <1>1, <2>1 DEF Orderly
    <3> QED
      BY <1>0, <1>1, <1>5, <3>1 DEF Ends, OrderlyEnds
  <2> QED
    BY <1>4, <2>1, <2>2, <2>3, <2>4
<1>6. CASE /\ pc' = "drop"
           /\ lapsed' = [lapsed EXCEPT ![d] = TRUE]
           /\ UNCHANGED <<net, pend, closed>>
  <2>1. lapsed'[d] /\ \A e \in Directions : lapsed[e] => lapsed'[e]
    BY <1>0, <1>6 DEF FlagTypes
  <2>2. StreamTypes' /\ FlagTypes' /\ ControlTypes'
    BY <1>0, <1>1, <1>6 DEF StreamTypes, FlagTypes, ControlTypes, Threaded
  <2>3. Unread(d)' /\ Held(d)'
    BY <1>0, <1>1, <1>6 DEF Unread, Reads, Threaded, Held, TlsUp
  <2>4. ~Orderly(d)'
    BY <1>0, <2>1 DEF Orderly
  <2> QED
    BY <1>4, <1>6, <2>1, <2>2, <2>3, <2>4
<1>7. CASE /\ ~closed[d]
           /\ pc' = "deliver"
           /\ net' = [net EXCEPT ![d] = <<>>]
           /\ pend' = [pend EXCEPT ![d] = pend[d] \o net[d]]
           /\ closed' = [closed EXCEPT ![d] = src[d] # "open"]
           /\ UNCHANGED lapsed
  <2>1. /\ net'[d] = <<>> /\ pend'[d] = pend[d] \o net[d] /\ closed'[d] = (src[d] # "open")
        /\ pend'["up"] = pend["up"] /\ net'["up"] = net["up"] /\ closed'["up"] = closed["up"]
    BY <1>0, <1>7 DEF StreamTypes, FlagTypes, Directions
  <2>2. pend'[d] \in Seq(Units) /\ Size(pend'[d]) = Size(pend[d]) + Size(net[d]) /\ <<>> \in Seq(Units)
    <3>1. pend[d] \o net[d] \in Seq(Units) /\ Size(pend[d] \o net[d]) = Size(pend[d]) + Size(net[d])
      BY <1>2, JoinFacts
    <3>2. <<>> \in Seq(Units)
      OBVIOUS
    <3> QED
      BY <2>1, <3>1, <3>2
  <2>3. StreamTypes' /\ FlagTypes' /\ ControlTypes'
    <3>1. StreamTypes'
      BY <1>0, <1>1, <1>7, <2>1, <2>2 DEF StreamTypes
    <3>2. closed' \in [Directions -> BOOLEAN]
      BY <1>0, <1>7 DEF FlagTypes
    <3> QED
      BY <1>0, <1>1, <1>7, <3>1, <3>2 DEF FlagTypes, ControlTypes, Threaded
  <2>4. net[d] # <<>> \/ src[d] # "gone" => Size(got[d]) + Size(pend[d]) + Size(net[d]) = Size(fed[d])
    <3>1. Reads(d)
      BY <1>1, <1>7 DEF Reads, Threaded
    <3>2. net[d] # <<>> \/ src[d] # "gone" =>
             Size(got[d]) + 0 + Size(pend[d]) + 0 + Size(net[d]) = Size(fed[d])
      BY <1>0, <1>2, <3>1 DEF Unread
    <3> QED
      BY <1>2, <3>2
  <2>5. Unread(d)'
    <3>1. IsTail(<<>>, fed[d])
      BY <1>2, EmptyFacts
    <3>2. src[d] # "gone" => Size(got[d]) + 0 + (Size(pend[d]) + Size(net[d])) + 0 + 0 = Size(fed[d])
      BY <1>2, <2>4
    <3> QED
      BY <1>1, <1>2, <2>1, <2>2, <3>1, <3>2 DEF Unread
  <2>6. Held(d)'
    <3>1. At(got[d], 0, fed[d]) /\ At(pend[d], Size(got[d]), fed[d]) /\ At(part[d], Size(got[d]) + Size(pend[d]), fed[d])
      BY <1>0, <1>1 DEF Held, TlsUp
    <3>2. CASE net[d] = <<>>
      <4>1. pend'[d] = pend[d]
        BY <1>2, <2>1, <3>2
      <4> QED
        BY <1>1, <3>1, <4>1 DEF Held, TlsUp
    <3>3. CASE net[d] # <<>>
      <4>1. Size(fed[d]) - Size(net[d]) = Size(got[d]) + Size(pend[d])
            /\ Size(got[d]) + (Size(pend[d]) + Size(net[d])) = Size(fed[d])
        BY <1>2, <2>4, <3>3
      <4>2. At(net[d], Size(got[d]) + Size(pend[d]), fed[d])
        BY <1>0, <4>1 DEF Unread, IsTail
      <4>3. At(pend'[d], Size(got[d]), fed[d])
        BY <1>2, <2>1, <3>1, <4>2, AtConcat
      <4>4. At(<<>>, Size(got[d]) + Size(pend'[d]), fed[d])
        BY <1>2, <2>2, <4>1, EmptyFacts
      <4> QED
        BY <1>1, <1>2, <3>1, <4>3, <4>4 DEF Held, TlsUp
    <3> QED
      BY <3>2, <3>3
  <2>7. Orderly(d)' /\ closed'[d] => Settled(d, Size(got[d]) + Size(pend'[d]))
    <3>1. Orderly(d)' => src[d] # "gone"
      BY <1>0, <1>1 DEF Orderly
    <3>2. src[d] # "gone" => Size(got[d]) + Size(pend'[d]) = Size(fed[d])
      BY <1>2, <2>2, <2>4
    <3> QED
      BY <2>1, <3>1, <3>2 DEF Settled, AllIn
  <2> QED
    BY <1>4, <1>7, <2>1, <2>3, <2>5, <2>6, <2>7
<1> QED
  BY <1>5, <1>6, <1>7 DEF TlsReadUpstream

\* What the TLS relay reads from the client goes behind what it holds; at the end
\* of the client's stream close_notify is queued.
LEMMA TlsReadClientInv ==
    ASSUME RelayInv, TlsReadClient
    PROVE  RelayInv'
<1> DEFINE d == "up"
<1>0. /\ StreamTypes /\ FlagTypes /\ ControlTypes /\ TlsHeld /\ Numbered(fed[d], mode)
      /\ Unread(d) /\ Held(d) /\ Shape(d) /\ Reported(d) /\ Logged(d) /\ Ends(d) /\ d \in Directions
  BY DirFacts DEF Directions
<1>1. /\ part' = part /\ eof' = eof /\ got' = got /\ lapsed' = lapsed
      /\ closeSeen' = closeSeen /\ mode' = mode /\ fed' = fed
      /\ src' = src /\ records' = records /\ thread' = thread /\ mode = "tls" /\ pc = "up" /\ pc' = "reflush"
  BY DEF TlsReadClient
<1>2. /\ fed[d] \in Seq(Units) /\ net[d] \in Seq(Units) /\ got[d] \in Seq(Units) /\ pend[d] \in Seq(Units)
      /\ Size(fed[d]) \in Nat /\ Size(net[d]) \in Nat /\ Size(got[d]) \in Nat /\ Size(<<>>) = 0
      /\ Size(pend[d]) \in Nat /\ part[d] = <<>> /\ Queued(tlsq, d) = Size(tlsq)
      /\ tlsq \in Seq(Units \cup {Notify}) /\ Size(tlsq) \in Nat
  <2>1. part[d] = <<>> /\ Queued(tlsq, d) = Size(tlsq) /\ Size(<<>>) = 0
    BY <1>0, <1>1 DEF Shape, Queued, Size
  <2> QED
    BY <1>0, <2>1, Sizes
<1>3. \A e \in Directions : Logged(e)'
  BY <1>1 DEF Logged, Framed
<1>4. \A e \in Directions : Orderly(e)' => Orderly(e)
  BY <1>1 DEF Orderly
<1>5. counted[d] \in Nat /\ counted[d] >= Size(got[d])
  BY <1>0 DEF FlagTypes, Reported
<1>6. ASSUME StreamTypes', FlagTypes', ControlTypes', TlsHeld',
             pend'["down"] = pend["down"], net'["down"] = net["down"], closed'["down"] = closed["down"],
             cut'["down"] = cut["down"], counted'["down"] = counted["down"],
             Unread(d)', counted'[d] >= Size(got[d]), Ends(d)'
      PROVE  RelayInv'
  <2>1. Shape(d)' /\ Reported(d)' /\ Held(d)'
    BY <1>0, <1>1, <1>6 DEF Shape, Threaded, Reported, Framed, Held, TlsUp
  <2>2. \A e \in Directions : e # d => Apart(e)
    BY <1>1, <1>6 DEF Apart, Directions
  <2> QED
    BY <1>0, <1>1, <1>3, <1>4, <1>6, <2>1, <2>2, Focus
<1>7. CASE UNCHANGED <<net, pend, counted, closed, tlsq, cut>>
  <2>1. StreamTypes' /\ FlagTypes' /\ ControlTypes'
    BY <1>0, <1>1, <1>7 DEF StreamTypes, FlagTypes, ControlTypes, Threaded
  <2>2. Unread(d)' /\ TlsHeld'
    BY <1>0, <1>1, <1>7 DEF Unread, Reads, Threaded, TlsHeld
  <2>3. Ends(d)'
    BY <1>0, <1>1, <1>4, <1>7 DEF Ends, OrderlyEnds, Settled, TlsUp, Threaded, Framed
  <2> QED
    BY <1>5, <1>6, <1>7, <2>1, <2>2, <2>3
<1> DEFINE room == PendingCap - Len(pend[d])
           k == IF Len(net[d]) < room THEN Len(net[d]) ELSE room
           ends == k < room /\ src[d] # "open"
           front == SubSeq(net[d], 1, k)
           rest == SubSeq(net[d], k + 1, Len(net[d]))
<1>8. CASE /\ ~(closed[d] \/ Len(pend[d]) >= PendingCap)
           /\ net' = [net EXCEPT ![d] = rest]
           /\ pend' = [pend EXCEPT ![d] = pend[d] \o front]
           /\ counted' = [counted EXCEPT ![d] = counted[d] + k]
           /\ closed' = [closed EXCEPT ![d] = ends]
           /\ tlsq' = IF ends THEN Append(tlsq, Notify) ELSE tlsq
           /\ cut' = IF ends THEN [cut EXCEPT ![d] = Len(pend'[d])] ELSE cut
  <2>1. k \in 0..Len(net[d]) /\ k \in Nat /\ k <= Size(net[d]) /\ (k < room => k = Size(net[d]))
    <3>1. PendingCap \in Nat /\ Size(pend[d]) \in Nat /\ ~(Size(pend[d]) >= PendingCap)
      BY <1>2, <1>8, RelayAssumption DEF Size
    <3>2. room \in Nat /\ Size(net[d]) = Len(net[d]) /\ room = PendingCap - Size(pend[d])
      <4>1. room = PendingCap - Size(pend[d]) /\ Size(net[d]) = Len(net[d])
        BY DEF Size
      <4> QED
        BY <3>1, <4>1
    <3> HIDE DEF room
    <3> QED
      BY <1>2, <3>2
  <2>2. /\ IsTail(rest, fed[d]) /\ rest \in Seq(Units) /\ front \in Seq(Units)
        /\ Size(front) = k /\ Size(rest) = Size(net[d]) - k
        /\ At(front, Size(fed[d]) - Size(net[d]), fed[d])
    <3>1. IsTail(net[d], fed[d])
      BY <1>0 DEF Unread
    <3> HIDE DEF k
    <3> QED
      BY <1>2, <2>1, <3>1, TailCut, SMTT(30)
  <2>3. ends \in BOOLEAN
    OBVIOUS
  <2>4. ends => k = Size(net[d]) /\ src[d] # "open"
    BY <2>1
  <2> HIDE DEF k, ends, front, rest
  <2>5. /\ net'[d] = rest /\ pend'[d] = pend[d] \o front /\ counted'[d] = counted[d] + k
        /\ closed'[d] = ends /\ (ends => cut'[d] = Size(pend'[d]))
        /\ pend'["down"] = pend["down"] /\ net'["down"] = net["down"] /\ closed'["down"] = closed["down"]
        /\ cut'["down"] = cut["down"] /\ counted'["down"] = counted["down"] /\ ~closed[d]
    BY <1>0, <1>8, <2>3 DEF StreamTypes, FlagTypes, Directions, Size
  <2>6. pend'[d] \in Seq(Units) /\ Size(pend'[d]) = Size(pend[d]) + k /\ pend[d] \o front \in Seq(Units)
    <3>1. pend[d] \in Seq(Units) /\ front \in Seq(Units)
      BY <1>2, <2>2
    <3>2. pend[d] \o front \in Seq(Units) /\ Size(pend[d] \o front) = Size(pend[d]) + Size(front)
      BY <3>1, JoinFacts
    <3>3. pend'[d] = pend[d] \o front /\ Size(front) = k
      BY <2>2, <2>5
    <3> QED
      BY <3>2, <3>3
  <2>7. ~eof[d] /\ NoNotify(tlsq)
    BY <1>0, <1>1, <2>5 DEF TlsHeld
  <2>8. /\ Runs(tlsq, Size(got[d]), counted[d], fed[d])
        /\ At(pend[d], Size(got[d]) + Size(tlsq), fed[d])
        /\ Size(got[d]) + Size(tlsq) + Size(pend[d]) <= counted[d]
    BY <1>0, <1>1, <2>7 DEF TlsHeld
  <2>9. /\ Runs(tlsq, Size(got[d]), counted[d] + k, fed[d])
        /\ Runs(Append(tlsq, Notify), Size(got[d]), counted[d] + k, fed[d])
        /\ Append(tlsq, Notify) \in Seq(Units \cup {Notify})
        /\ Size(Append(tlsq, Notify)) = Size(tlsq) + 1 /\ ~NoNotify(Append(tlsq, Notify))
        /\ \A i \in 1..Size(Append(tlsq, Notify)) :
              Append(tlsq, Notify)[i] = Notify <=> i = Size(Append(tlsq, Notify))
    BY <1>2, <1>5, <2>1, <2>7, <2>8, RunsMore
  <2>10. StreamTypes' /\ FlagTypes' /\ ControlTypes'
    <3>1. StreamTypes'
      BY <1>0, <1>1, <1>8, <2>2, <2>6, <2>9 DEF StreamTypes
    <3>2. counted' \in [Directions -> Nat] /\ closed' \in [Directions -> BOOLEAN]
      BY <1>0, <1>8, <2>1, <2>3 DEF FlagTypes
    <3>3. cut' \in [Directions -> Nat]
      <4>1. Len(pend'[d]) \in Nat
        BY <2>6
      <4> QED
        BY <1>0, <1>8, <4>1 DEF FlagTypes
    <3> QED
      BY <1>0, <1>1, <3>1, <3>2, <3>3 DEF FlagTypes, ControlTypes, Threaded
  <2>11. net[d] # <<>> \/ src[d] # "gone" =>
            Size(got[d]) + Size(tlsq) + Size(pend[d]) + Size(net[d]) = Size(fed[d])
    <3>1. Reads(d)
      BY <1>1, <2>5 DEF Reads, Threaded
    <3>2. net[d] # <<>> \/ src[d] # "gone" =>
             Size(got[d]) + Size(tlsq) + Size(pend[d]) + 0 + Size(net[d]) = Size(fed[d])
      BY <1>0, <1>2, <3>1 DEF Unread
    <3> QED
      BY <1>2, <3>2
  <2>12. At(pend'[d], Size(got[d]) + Size(tlsq), fed[d])
    <3>1. CASE net[d] = <<>>
      <4>1. Size(front) = 0
        BY <1>2, <2>1, <2>2, <3>1
      <4>2. front = <<>>
        BY <2>2, <4>1, <1>2, EmptyFacts
      <4>3. pend'[d] = pend[d]
        BY <1>2, <2>5, <4>2
      <4> QED
        BY <2>8, <4>3
    <3>2. CASE net[d] # <<>>
      <4>1. Size(fed[d]) - Size(net[d]) = (Size(got[d]) + Size(tlsq)) + Size(pend[d])
        BY <1>2, <2>11, <3>2
      <4>2. At(front, (Size(got[d]) + Size(tlsq)) + Size(pend[d]), fed[d])
        BY <2>2, <4>1
      <4>3. Size(got[d]) + Size(tlsq) \in Nat
        BY <1>2
      <4> QED
        BY <1>2, <2>2, <2>5, <2>8, <4>2, <4>3, AtConcat
    <3> QED
      BY <3>1, <3>2
  <2>13. TlsHeld'
    <3>1. Size(got[d]) + Size(tlsq) + (Size(pend[d]) + k) <= counted[d] + k
      BY <1>2, <1>5, <2>1, <2>8
    <3>2. CASE ends
      <4>1. tlsq' = Append(tlsq, Notify) /\ closed'[d] = TRUE
        BY <1>8, <2>5, <3>2
      <4> QED
        BY <1>1, <2>5, <2>9, <4>1 DEF TlsHeld
    <3>3. CASE ~ends
      <4>1. tlsq' = tlsq
        BY <1>8, <3>3
      <4> QED
        BY <1>1, <2>5, <2>6, <2>7, <2>9, <2>12, <3>1, <4>1 DEF TlsHeld
    <3> QED
      BY <3>2, <3>3
  <2>14. Unread(d)'
    <3>1. CASE ends
      <4>1. ~Reads(d)'
        BY <1>1, <2>5, <3>1 DEF Reads, Threaded
      <4> QED
        BY <1>1, <2>2, <2>5, <4>1 DEF Unread
    <3>2. CASE ~ends
      <4>1. tlsq' = tlsq
        BY <1>8, <3>2
      <4>2. net'[d] # <<>> \/ src[d] # "gone" => net[d] # <<>> \/ src[d] # "gone"
        <5>1. SUFFICES ASSUME net[d] = <<>> PROVE net'[d] = <<>>
          OBVIOUS
        <5>2. Size(rest) = 0
          BY <1>2, <2>1, <2>2, <5>1
        <5> QED
          BY <1>2, <2>2, <2>5, <5>2, EmptyFacts
      <4>3. net'[d] # <<>> \/ src[d] # "gone" =>
               Size(got[d]) + Size(tlsq) + (Size(pend[d]) + k) + 0 + (Size(net[d]) - k) = Size(fed[d])
        BY <1>2, <2>1, <2>11, <4>2
      <4> QED
        BY <1>1, <1>2, <2>2, <2>5, <2>6, <4>1, <4>3 DEF Unread
    <3> QED
      BY <3>1, <3>2
  <2>15. Ends(d)'
    <3>1. ~closeSeen[d]
      BY <1>0, <1>1 DEF Shape
    <3>2. ASSUME Orderly(d)', closed'[d], cut'[d] = 0
          PROVE  src[d] # "open" /\ pend'[d] = <<>> /\ LastOut(tlsq', Size(got[d]), fed[d])
      <4>1. ends /\ src[d] # "gone" /\ src[d] # "open" /\ tlsq' = Append(tlsq, Notify) /\ k = Size(net[d])
        BY <1>0, <1>1, <1>8, <2>4, <2>5, <3>2 DEF Orderly
      <4>2. Size(pend'[d]) = 0
        BY <2>5, <3>2, <4>1
      <4>3. Size(pend[d]) = 0 /\ k = 0 /\ pend'[d] = <<>>
        BY <1>2, <2>1, <2>6, <4>2, EmptyFacts
      <4>4. Size(got[d]) + (Size(tlsq) + 1) = Size(fed[d]) + 1
        BY <1>2, <2>11, <4>1, <4>3
      <4> QED
        BY <2>9, <4>1, <4>3, <4>4 DEF LastOut
    <3>3. Orderly(d)' => OrderlyEnds(d)'
      BY <1>1, <2>7, <3>2 DEF OrderlyEnds, TlsUp, Threaded
    <3> QED
      BY <1>1, <3>1, <3>3 DEF Ends
  <2>16. counted'[d] >= Size(got[d])
    BY <1>2, <1>5, <2>1, <2>5
  <2> QED
    BY <1>6, <2>5, <2>10, <2>13, <2>14, <2>15, <2>16
<1> QED
  BY <1>7, <1>8 DEF TlsReadClient

\* A flush of the TLS session delivers what follows the delivered units, up to
\* close_notify.
LEMMA TlsFlushInv ==
    ASSUME RelayInv, NEW next \in {"up", "down"}, mode = "tls", pc \in {"flush", "reflush"},
           TlsFlush(next)
    PROVE  RelayInv'
<1> DEFINE d == "up"
<1>0. /\ StreamTypes /\ FlagTypes /\ ControlTypes /\ TlsHeld /\ Numbered(fed[d], mode)
      /\ Unread(d) /\ Held(d) /\ Shape(d) /\ Reported(d) /\ Logged(d) /\ Ends(d) /\ d \in Directions
  BY DirFacts DEF Directions
<1>1. /\ part' = part /\ lapsed' = lapsed /\ net' = net /\ cut' = cut /\ counted' = counted
      /\ closed' = closed /\ closeSeen' = closeSeen /\ mode' = mode /\ fed' = fed
      /\ src' = src /\ records' = records /\ thread' = thread /\ pc' = next
  BY DEF TlsFlush
<1>2. /\ fed[d] \in Seq(Units) /\ net[d] \in Seq(Units) /\ got[d] \in Seq(Units) /\ pend[d] \in Seq(Units)
      /\ Size(fed[d]) \in Nat /\ Size(net[d]) \in Nat /\ Size(got[d]) \in Nat /\ Size(<<>>) = 0
      /\ Size(pend[d]) \in Nat /\ part[d] = <<>> /\ Queued(tlsq, d) = Size(tlsq)
      /\ tlsq \in Seq(Units \cup {Notify}) /\ Size(tlsq) \in Nat
  <2>1. part[d] = <<>> /\ Queued(tlsq, d) = Size(tlsq) /\ Size(<<>>) = 0
    BY <1>0 DEF Shape, Queued, Size
  <2> QED
    BY <1>0, <2>1, Sizes
<1>3. PICK p \in Prefixes(pend[d]) :
        \E w \in IF Gone("up") THEN {<<>>} ELSE Prefixes(tlsq \o p) :
            /\ pend' = [pend EXCEPT !["up"] = After(pend["up"], p)]
            /\ tlsq' = After(tlsq \o p, w)
            /\ got' = [got EXCEPT !["up"] = IF eof["up"] THEN got["up"] ELSE got["up"] \o BeforeNotify(w)]
            /\ eof' = [eof EXCEPT !["up"] = eof["up"] \/ Notify \in ToSet(w)]
  BY DEF TlsFlush
<1>4. /\ p \in Seq(Units) /\ After(pend[d], p) \in Seq(Units) /\ Size(p) \in Nat
      /\ Size(p) <= Size(pend[d]) /\ Size(After(pend[d], p)) = Size(pend[d]) - Size(p)
      /\ tlsq \o p \in Seq(Units \cup {Notify}) /\ Size(tlsq \o p) = Size(tlsq) + Size(p)
  <2>1. /\ p \in Seq(Units) /\ After(pend[d], p) \in Seq(Units)
        /\ Size(p) <= Size(pend[d]) /\ Size(After(pend[d], p)) = Size(pend[d]) - Size(p)
    BY <1>2, PrefixFacts
  <2>2. p \in Seq(Units \cup {Notify})
    BY <2>1
  <2> QED
    BY <1>2, <2>1, <2>2, JoinFacts
<1> DEFINE queue == tlsq \o p
<1>5. PICK w \in Prefixes(queue) :
            /\ pend' = [pend EXCEPT !["up"] = After(pend["up"], p)]
            /\ tlsq' = After(queue, w)
            /\ got' = [got EXCEPT !["up"] = IF eof["up"] THEN got["up"] ELSE got["up"] \o BeforeNotify(w)]
            /\ eof' = [eof EXCEPT !["up"] = eof["up"] \/ Notify \in ToSet(w)]
  BY <1>3, <1>4, NothingIsPrefix
<1> HIDE DEF queue
<1>6. /\ queue \in Seq(Units \cup {Notify}) /\ Size(queue) = Size(tlsq) + Size(p) /\ Size(queue) \in Nat
  BY <1>2, <1>4 DEF queue
<1>7. /\ w \in Seq(Units \cup {Notify}) /\ After(queue, w) \in Seq(Units \cup {Notify}) /\ Size(w) \in Nat
      /\ Size(w) <= Size(queue) /\ Size(After(queue, w)) = Size(queue) - Size(w)
  <2>1. /\ w \in Seq(Units \cup {Notify}) /\ After(queue, w) \in Seq(Units \cup {Notify})
        /\ Size(w) <= Size(queue) /\ Size(After(queue, w)) = Size(queue) - Size(w)
    BY <1>6, PrefixFacts
  <2> QED
    BY <2>1, JoinFacts
<1>8. /\ pend'[d] = After(pend[d], p) /\ tlsq' = After(queue, w)
      /\ got'[d] = (IF eof[d] THEN got[d] ELSE got[d] \o BeforeNotify(w))
      /\ eof'[d] = (eof[d] \/ ~NoNotify(w))
      /\ pend'["down"] = pend["down"] /\ got'["down"] = got["down"] /\ eof'["down"] = eof["down"]
  <2>1. NoNotify(w) <=> Notify \notin ToSet(w)
    BY <1>7, BeforeFacts
  <2> QED
    BY <1>0, <1>5, <2>1 DEF StreamTypes, FlagTypes, Directions
<1>9. /\ At(got[d], 0, fed[d]) /\ Size(got[d]) <= Size(fed[d])
      /\ counted[d] \in Nat /\ Size(got[d]) <= counted[d]
  <2>1. At(got[d], 0, fed[d]) /\ counted[d] \in Nat /\ counted[d] >= Size(got[d])
    BY <1>0 DEF Held, Reported, FlagTypes
  <2>2. 0 + Size(got[d]) <= Size(fed[d])
    BY <2>1 DEF At
  <2> QED
    BY <1>2, <2>1, <2>2
<1>10. ASSUME ~eof[d]
       PROVE  /\ Runs(queue, Size(got[d]), counted[d], fed[d]) /\ (NoNotify(tlsq) <=> NoNotify(queue))
              /\ NoNotify(tlsq) => /\ At(After(pend[d], p), Size(got[d]) + Size(queue), fed[d])
                                   /\ Size(got[d]) + Size(tlsq) + Size(pend[d]) <= counted[d]
  <2>1. /\ Runs(tlsq, Size(got[d]), counted[d], fed[d])
        /\ NoNotify(tlsq) => /\ At(pend[d], Size(got[d]) + Size(tlsq), fed[d])
                             /\ Size(got[d]) + Size(tlsq) + Size(pend[d]) <= counted[d]
    BY <1>0, <1>10 DEF TlsHeld
  <2>2. ASSUME NoNotify(tlsq)
        PROVE  /\ At(p, Size(got[d]) + Size(tlsq), fed[d])
               /\ At(After(pend[d], p), Size(got[d]) + Size(tlsq) + Size(p), fed[d])
    <3>1. Size(got[d]) + Size(tlsq) \in Nat
      BY <1>2
    <3> QED
      BY <1>2, <2>1, <2>2, <3>1, AtCut
  <2>3. NoNotify(tlsq) => Size(got[d]) + Size(tlsq) + Size(p) <= counted[d]
    BY <1>2, <1>4, <1>9, <2>1, SMTT(30)
  <2>4. Size(got[d]) + Size(tlsq) + Size(p) = Size(got[d]) + Size(queue)
    BY <1>2, <1>4, <1>6
  <2>5. Runs(queue, Size(got[d]), counted[d], fed[d]) /\ (NoNotify(tlsq) <=> NoNotify(queue))
    BY <1>2, <1>4, <1>9, <2>1, <2>2, <2>3, RunsJoin DEF queue
  <2> QED
    BY <2>1, <2>2, <2>4, <2>5
<1>11. ASSUME ~eof[d]
       PROVE  /\ BeforeNotify(w) \in Seq(Units) /\ At(BeforeNotify(w), Size(got[d]), fed[d])
              /\ Size(got[d]) + Size(BeforeNotify(w)) <= counted[d] /\ Size(BeforeNotify(w)) \in Nat
              /\ NoNotify(w) => Runs(After(queue, w), Size(got[d]) + Size(w), counted[d], fed[d])
              /\ NoNotify(w) /\ NoNotify(After(queue, w)) <=> NoNotify(queue)
  <2>1. /\ BeforeNotify(w) \in Seq(Units) /\ At(BeforeNotify(w), Size(got[d]), fed[d])
        /\ Size(got[d]) + Size(BeforeNotify(w)) <= counted[d]
        /\ NoNotify(w) => Runs(After(queue, w), Size(got[d]) + Size(w), counted[d], fed[d])
        /\ NoNotify(w) /\ NoNotify(After(queue, w)) <=> NoNotify(queue)
    BY <1>2, <1>6, <1>9, <1>10, <1>11, RunsCut
  <2> QED
    BY <2>1, JoinFacts
<1>12. /\ got'[d] \in Seq(Units) /\ At(got'[d], 0, fed[d]) /\ Size(got'[d]) <= counted[d]
       /\ ~eof[d] => Size(got'[d]) = Size(got[d]) + Size(BeforeNotify(w))
  <2>1. CASE eof[d]
    BY <1>2, <1>8, <1>9, <2>1
  <2>2. CASE ~eof[d]
    <3>1. got'[d] = got[d] \o BeforeNotify(w)
      BY <1>8, <2>2
    <3>2. got'[d] \in Seq(Units) /\ Size(got'[d]) = Size(got[d]) + Size(BeforeNotify(w))
      BY <1>2, <1>11, <2>2, <3>1, JoinFacts
    <3>3. At(BeforeNotify(w), 0 + Size(got[d]), fed[d])
      BY <1>2, <1>11, <2>2
    <3>4. At(got'[d], 0, fed[d])
      BY <1>2, <1>9, <1>11, <2>2, <3>1, <3>3, AtConcat
    <3> QED
      BY <1>11, <2>2, <3>2, <3>4
  <2> QED
    BY <2>1, <2>2
<1>13. NoNotify(w) => BeforeNotify(w) = w
  BY <1>7, BeforeFacts
<1>14. StreamTypes' /\ FlagTypes' /\ ControlTypes'
  <2>0. got' \in [Directions -> Seq(Units)]
    <3>1. (IF eof["up"] THEN got["up"] ELSE got["up"] \o BeforeNotify(w)) \in Seq(Units)
      BY <1>8, <1>12
    <3> QED
      BY <1>0, <1>5, <3>1 DEF StreamTypes
  <2>1. StreamTypes'
    BY <1>0, <1>1, <1>4, <1>5, <1>7, <2>0 DEF StreamTypes
  <2>2. eof' \in [Directions -> BOOLEAN]
    BY <1>0, <1>5 DEF FlagTypes
  <2> QED
    BY <1>0, <1>1, <2>1, <2>2 DEF FlagTypes, ControlTypes, Threaded
<1>15. ~closed[d] => ~eof[d] /\ NoNotify(tlsq) /\ NoNotify(queue) /\ NoNotify(w) /\ NoNotify(tlsq')
  <2>1. ~closed[d] => ~eof[d] /\ NoNotify(tlsq)
    BY <1>0 DEF TlsHeld
  <2> QED
    BY <1>8, <1>10, <1>11, <2>1
<1>16. NoNotify(w) /\ ~eof[d] =>
          /\ Size(got'[d]) = Size(got[d]) + Size(w) /\ Size(tlsq') = Size(queue) - Size(w)
          /\ Size(got'[d]) + Size(tlsq') = Size(got[d]) + Size(queue)
          /\ Size(got'[d]) + Size(tlsq') + Size(pend'[d]) = Size(got[d]) + Size(tlsq) + Size(pend[d])
  <2>1. NoNotify(w) /\ ~eof[d] => Size(got'[d]) = Size(got[d]) + Size(w)
    BY <1>12, <1>13
  <2>2. Size(tlsq') = Size(queue) - Size(w) /\ Size(pend'[d]) = Size(pend[d]) - Size(p)
    BY <1>4, <1>7, <1>8
  <2>3. ASSUME NoNotify(w), ~eof[d]
        PROVE  /\ Size(got'[d]) + Size(tlsq') = Size(got[d]) + Size(queue)
               /\ Size(got'[d]) + Size(tlsq') + Size(pend'[d]) = Size(got[d]) + Size(tlsq) + Size(pend[d])
    <3>1. Size(got'[d]) = Size(got[d]) + Size(w)
      BY <2>1, <2>3
    <3>2. (Size(got[d]) + Size(w)) + (Size(queue) - Size(w)) = Size(got[d]) + Size(queue)
      BY <1>2, <1>6, <1>7
    <3>3. (Size(got[d]) + (Size(tlsq) + Size(p))) + (Size(pend[d]) - Size(p)) = Size(got[d]) + Size(tlsq) + Size(pend[d])
      BY <1>2, <1>4
    <3> QED
      BY <1>6, <2>2, <3>1, <3>2, <3>3
  <2> QED
    BY <2>1, <2>2, <2>3
<1>17. TlsHeld'
  <2>1. CASE eof'[d]
    <3>1. closed[d]
      BY <1>8, <1>15, <2>1
    <3> QED
      BY <1>1, <2>1, <3>1 DEF TlsHeld
  <2>2. CASE ~eof'[d]
    <3>1. ~eof[d] /\ NoNotify(w)
      BY <1>0, <1>8, <2>2 DEF FlagTypes
    <3>2. Runs(tlsq', Size(got'[d]), counted[d], fed[d])
      BY <1>8, <1>11, <1>16, <3>1
    <3>3. ASSUME NoNotify(tlsq')
          PROVE  /\ At(pend'[d], Size(got'[d]) + Size(tlsq'), fed[d])
                 /\ Size(got'[d]) + Size(tlsq') + Size(pend'[d]) <= counted[d]
      <4>1. NoNotify(tlsq)
        BY <1>8, <1>10, <1>11, <3>1, <3>3
      <4> QED
        BY <1>8, <1>10, <1>16, <3>1, <4>1
    <3> QED
      BY <1>1, <1>15, <2>2, <3>2, <3>3 DEF TlsHeld
  <2> QED
    BY <2>1, <2>2
<1>18. Unread(d)'
  <2>1. ASSUME Reads(d)', src[d] # "gone" \/ net[d] # <<>>
        PROVE  Size(got'[d]) + Size(tlsq') + Size(pend'[d]) + 0 + Size(net[d]) = Size(fed[d])
    <3>1. ~closed[d] /\ Reads(d)
      BY <1>1, <2>1 DEF Reads, Threaded
    <3>2. Size(got[d]) + Size(tlsq) + Size(pend[d]) + 0 + Size(net[d]) = Size(fed[d])
      BY <1>0, <1>2, <2>1, <3>1 DEF Unread
    <3>3. Size(got'[d]) + Size(tlsq') + Size(pend'[d]) = Size(got[d]) + Size(tlsq) + Size(pend[d])
      BY <1>15, <1>16, <3>1
    <3> QED
      BY <3>2, <3>3
  <2>2. Queued(tlsq', d) = Size(tlsq')
    BY DEF Queued
  <2> QED
    BY <1>0, <1>1, <1>2, <2>1, <2>2 DEF Unread
<1>19. Held(d)' /\ Reported(d)'
  <2>1. counted[d] >= Size(got'[d])
    BY <1>12
  <2> QED
    BY <1>1, <1>12, <2>1 DEF Held, TlsUp, Reported, Framed
<1>20. Shape(d)'
  BY <1>0, <1>1 DEF Shape, Threaded
<1>21. \A e \in Directions : Logged(e)'
  BY <1>1 DEF Logged, Framed
<1>22. \A e \in Directions : Orderly(e)' => Orderly(e)
  BY <1>1 DEF Orderly
<1>23. Ends(d)'
  <2>1. ~closeSeen[d]
    BY <1>0 DEF Shape
  <2>2. ASSUME Orderly(d)' PROVE eof'[d] => closed[d]
    BY <1>8, <1>15
  <2>3. ASSUME Orderly(d)', closed[d], cut[d] = 0
        PROVE  /\ src[d] # "open" /\ pend'[d] = <<>>
               /\ eof'[d] => Size(got'[d]) = Size(fed[d])
               /\ ~eof'[d] => LastOut(tlsq', Size(got'[d]), fed[d])
    <3>1. /\ src[d] # "open" /\ pend[d] = <<>> /\ (eof[d] => Size(got[d]) = Size(fed[d]))
          /\ ~eof[d] => LastOut(tlsq, Size(got[d]), fed[d])
      BY <1>0, <1>22, <2>3 DEF Ends, OrderlyEnds, TlsUp
    <3>2. Size(p) = 0 /\ Size(pend'[d]) = 0 /\ p = <<>> /\ pend'[d] = <<>>
      <4>1. Size(pend[d]) = 0
        BY <1>2, <3>1
      <4>2. Size(p) = 0 /\ Size(pend'[d]) = 0
        BY <1>4, <1>8, <4>1
      <4> QED
        BY <1>2, <1>4, <1>8, <4>2, EmptyFacts
    <3>3. queue = tlsq
      BY <1>2, <3>2 DEF queue
    <3>4. CASE eof[d]
      BY <1>8, <3>1, <3>2, <3>4
    <3>5. CASE ~eof[d]
      <4>1. /\ NoNotify(w) => LastOut(After(queue, w), Size(got[d]) + Size(w), fed[d])
            /\ ~NoNotify(w) => Size(got[d]) + Size(BeforeNotify(w)) = Size(fed[d])
        BY <1>2, <1>6, <3>1, <3>3, <3>5, LastCut, SMTT(30)
      <4> QED
        BY <1>8, <1>12, <1>16, <3>1, <3>2, <3>5, <4>1
    <3> QED
      BY <3>4, <3>5
  <2>4. Orderly(d)' => OrderlyEnds(d)'
    BY <1>1, <2>2, <2>3 DEF OrderlyEnds, TlsUp, Threaded
  <2> QED
    BY <1>1, <2>1, <2>4 DEF Ends
<1>24. \A e \in Directions : e # d => Apart(e)
  BY <1>1, <1>8 DEF Apart, Directions
<1> QED
  BY <1>0, <1>1, <1>14, <1>17, <1>18, <1>19, <1>20, <1>21, <1>22, <1>23, <1>24, Focus

\* The whole frames at the front of a buffer.
LEMMA WholeFacts ==
    ASSUME NEW s \in Seq(Units)
    PROVE  /\ Whole(s) \in Prefixes(s) /\ Whole(s) \in Seq(Units) /\ After(s, Whole(s)) \in Seq(Units)
           /\ Size(Whole(s)) \in Nat /\ Size(Whole(s)) % 2 = 0 /\ Size(Whole(s)) <= Size(s)
           /\ Size(After(s, Whole(s))) = Size(s) - Size(Whole(s)) /\ Size(s) - Size(Whole(s)) \in {0, 1}
<1> DEFINE n == Size(s) - (Size(s) % 2)
<1>1. Size(s) \in Nat
  BY DEF Size
<1>2. n \in 0..Size(s) /\ n \in Nat /\ n % 2 = 0 /\ Size(s) - n \in {0, 1}
  BY <1>1
<1>3. Whole(s) = SubSeq(s, 1, n)
  BY DEF Whole, Size, FrameSize
<1> HIDE DEF n
<1>4. Whole(s) \in Prefixes(s)
  BY <1>2, <1>3 DEF Prefixes, Size
<1>5. Size(Whole(s)) = n - 1 + 1
  BY <1>2, <1>3, SubFacts
<1>6. Size(Whole(s)) = n
  BY <1>2, <1>5
<1>7. /\ Whole(s) \in Seq(Units) /\ After(s, Whole(s)) \in Seq(Units)
      /\ Size(After(s, Whole(s))) = Size(s) - Size(Whole(s))
  BY <1>4, PrefixFacts
<1> QED
  BY <1>1, <1>2, <1>4, <1>6, <1>7

\* A close among whole frames is a whole close frame.
LEMMA CloseFound ==
    ASSUME NEW f \in Seq(Units), Numbered(f, "wsnb"), NEW s \in Seq(Units), NEW n \in Nat, At(s, n, f),
           n % 2 = 0, Size(s) % 2 = 0, NEW i \in 1..Size(s), s[i].kind = "close"
    PROVE  CloseIn(f, n + Size(s))
<1>1. Size(s) \in Nat /\ Size(f) \in Nat
  BY DEF Size
<1>2. n + Size(s) <= Size(f) /\ s[i] = f[n + i] /\ i \in Nat /\ i > 0 /\ i <= Size(s)
  BY <1>1 DEF At
<1>3. CASE (n + i) % 2 = 0
  <2>1. n + i \in 1..(n + Size(s)) /\ n + i <= Size(f)
    BY <1>1, <1>2
  <2> QED
    BY <1>2, <1>3, <2>1 DEF CloseIn
<1>4. CASE (n + i) % 2 # 0
  <2>0. (n + Size(s)) % 2 = 0
    <3>1. \A a, b \in Nat : a % 2 = 0 /\ b % 2 = 0 => (a + b) % 2 = 0
      OBVIOUS
    <3> QED
      BY <1>1, <3>1
  <2>1. (n + i + 1) % 2 = 0 /\ n + i + 1 \in 1..(n + Size(s)) /\ n + i + 1 <= Size(f) /\ (n + i + 1) - 1 = n + i
    <3>1. i # Size(s)
      BY <1>4, <2>0
    <3>2. i < Size(s)
      BY <1>1, <1>2, <3>1
    <3>3. (n + i + 1) % 2 = 0
      BY <1>2, <1>4
    <3>4. n + i + 1 \in 1..(n + Size(s)) /\ n + i + 1 <= n + Size(s) /\ (n + i + 1) - 1 = n + i
      <4>1. \A a, b, c \in Nat : b < c =>
               a + b + 1 \in 1..(a + c) /\ a + b + 1 <= a + c /\ (a + b + 1) - 1 = a + b
        OBVIOUS
      <4> QED
        BY <1>1, <1>2, <3>2, <4>1
    <3>5. n + i + 1 <= Size(f)
      BY <1>1, <1>2, <3>4
    <3> QED
      BY <3>3, <3>4, <3>5
  <2>2. n + i + 1 \in 1..Size(f)
    BY <1>1, <2>1
  <2>3. f[n + i + 1].kind = f[n + i].kind
    BY <2>1, <2>2 DEF Numbered, FramedMode
  <2> QED
    BY <1>2, <2>1, <2>3 DEF CloseIn
<1> QED
  BY <1>3, <1>4

\* More units hold the same close frame.
LEMMA CloseMore ==
    ASSUME NEW f, NEW n \in Nat, NEW k \in Nat, CloseIn(f, n)
    PROVE  CloseIn(f, n + k)
  BY DEF CloseIn

\* What the WebSocket loop reads goes behind what it holds: whole frames to the
\* pending buffer, the rest to the decoder.
LEMMA NbReadInv ==
    ASSUME RelayInv, NEW d \in Directions, NEW next \in {"down", "write"}, NbRead(d, next)
    PROVE  RelayInv'
<1>0. /\ StreamTypes /\ FlagTypes /\ ControlTypes /\ TlsHeld /\ Numbered(fed[d], mode)
      /\ Unread(d) /\ Held(d) /\ Shape(d) /\ Reported(d) /\ Logged(d) /\ Ends(d)
  BY DirFacts
<1>1. /\ mode' = mode /\ src' = src /\ fed' = fed /\ got' = got /\ eof' = eof /\ thread' = thread
      /\ cut' = cut /\ tlsq' = tlsq /\ mode = "wsnb" /\ pc = d /\ pc \in {"up", "down"}
  BY DEF NbRead, Directions
<1>2. /\ fed[d] \in Seq(Units) /\ net[d] \in Seq(Units) /\ got[d] \in Seq(Units) /\ pend[d] \in Seq(Units)
      /\ part[d] \in Seq(Units) /\ Size(fed[d]) \in Nat /\ Size(net[d]) \in Nat /\ Size(got[d]) \in Nat
      /\ Size(pend[d]) \in Nat /\ Size(part[d]) \in Nat /\ Size(<<>>) = 0
      /\ tlsq = <<>> /\ Queued(tlsq, d) = 0
  <2>1. tlsq = <<>> /\ Queued(tlsq, d) = 0 /\ Size(<<>>) = 0
    BY <1>0, <1>1, NoQueue DEF Size
  <2> QED
    BY <1>0, <2>1, Sizes
<1>3. /\ Size(part[d]) < 2
      /\ ~closed[d] => ~eof[d] /\ Reads(d)
  BY <1>0, <1>1 DEF Shape, Reads, Threaded, FlagTypes
<1>even. (Size(got[d]) + Size(pend[d])) % 2 = 0
  BY <1>0, <1>1 DEF Shape
<1>4. ASSUME ~closed[d], net[d] # <<>> \/ src[d] # "gone"
      PROVE  (Size(got[d]) + Size(pend[d])) + Size(part[d]) + Size(net[d]) = Size(fed[d])
  <2>1. Size(got[d]) + 0 + Size(pend[d]) + Size(part[d]) + Size(net[d]) = Size(fed[d])
    BY <1>0, <1>2, <1>3, <1>4 DEF Unread
  <2> QED
    BY <1>2, <2>1
<1>5. ASSUME StreamTypes', FlagTypes', ControlTypes', pc' \in {"down", "write", "drop"},
             \A e \in Directions : e # d =>
                /\ net'[e] = net[e] /\ pend'[e] = pend[e] /\ part'[e] = part[e]
                /\ closed'[e] = closed[e] /\ closeSeen'[e] = closeSeen[e] /\ counted'[e] = counted[e],
             \A e \in Directions : lapsed[e] => lapsed'[e],
             pc' = "drop" => lapsed'[d],
             Unread(d)', Held(d)', Shape(d)', Reported(d)', Ends(d)', \A e \in Directions : Logged(e)'
      PROVE  RelayInv'
  <2>1. TlsHeld'
    BY <1>1, <1>2 DEF TlsHeld
  <2>2. \A e \in Directions : Orderly(e)' => Orderly(e)
    BY <1>0, <1>1, <1>5, OrderlyKept DEF Types
  <2>3. \A e \in Directions : pc' \in {"drop", "done"} => ~Orderly(e)'
    BY <1>5 DEF Orderly
  <2>4. \A e \in Directions : e # d => Apart(e)
    BY <1>1, <1>5 DEF Apart
  <2> QED
    BY <1>1, <1>5, <2>1, <2>2, <2>3, <2>4, Focus
<1>6. CASE pc' = next /\ UNCHANGED <<net, pend, part, counted, records, closed, closeSeen, lapsed>>
  <2>1. StreamTypes' /\ FlagTypes' /\ ControlTypes'
    BY <1>0, <1>1, <1>6 DEF StreamTypes, FlagTypes, ControlTypes, Threaded
  <2>2. Unread(d)' /\ Held(d)' /\ Reported(d)'
    BY <1>0, <1>1, <1>6 DEF Unread, Reads, Threaded, Held, TlsUp, Reported, Framed
  <2>3. Shape(d)'
    BY <1>0, <1>1, <1>6 DEF Shape, Threaded
  <2>4. \A e \in Directions : Logged(e)'
    BY <1>1, <1>6, DirFacts DEF Logged, Framed
  <2>5. Orderly(d)' => Orderly(d)
    BY <1>1, <1>6 DEF Orderly
  <2>6. Ends(d)'
    BY <1>0, <1>1, <1>6, <2>5 DEF Ends, OrderlyEnds, Settled, TlsUp, Threaded, Framed
  <2> QED
    BY <1>5, <1>6, <2>1, <2>2, <2>3, <2>4, <2>6
<1>7. CASE /\ ~closed[d] /\ ~(net[d] = <<>> /\ src[d] = "open")
           /\ src[d] = "gone" \/ net[d] = <<>>
           /\ pc' = next
           /\ closed' = [closed EXCEPT ![d] = TRUE]
           /\ UNCHANGED <<net, pend, part, counted, records, closeSeen, lapsed>>
  <2>1. StreamTypes' /\ FlagTypes' /\ ControlTypes'
    <3>1. closed' \in [Directions -> BOOLEAN]
      BY <1>0, <1>7 DEF FlagTypes
    <3> QED
      BY <1>0, <1>1, <1>7, <3>1 DEF StreamTypes, FlagTypes, ControlTypes, Threaded
  <2>2. closed'[d] = TRUE /\ \A e \in Directions : e # d => closed'[e] = closed[e]
    BY <1>0, <1>7 DEF FlagTypes
  <2>3. Unread(d)' /\ Held(d)' /\ Reported(d)'
    BY <1>0, <1>1, <1>7, <2>2 DEF Unread, Reads, Threaded, Held, TlsUp, Reported, Framed
  <2>4. Shape(d)'
    BY <1>0, <1>1, <1>3, <1>7, <2>2 DEF Shape, Threaded
  <2>5. \A e \in Directions : Logged(e)'
    BY <1>1, <1>7, DirFacts DEF Logged, Framed
  <2>6. Orderly(d)' => Orderly(d)
    BY <1>1, <1>7 DEF Orderly
  <2>7. Orderly(d)' => Settled(d, Size(got[d]) + Size(pend[d]))
    <3>1. SUFFICES ASSUME Orderly(d)' PROVE src[d] # "open" /\ AllIn(fed[d], Size(got[d]) + Size(pend[d]), mode)
      BY DEF Settled
    <3>2. src[d] # "gone" /\ net[d] = <<>> /\ src[d] # "open"
      BY <1>1, <1>7, <3>1 DEF Orderly
    <3>3. (Size(got[d]) + Size(pend[d])) + Size(part[d]) + 0 = Size(fed[d])
      BY <1>2, <1>4, <1>7, <3>2
    <3>4. Size(got[d]) + Size(pend[d]) = Size(fed[d]) \/ (Size(got[d]) + Size(pend[d])) + 1 = Size(fed[d])
      BY <1>2, <1>3, <3>3
    <3> QED
      BY <1>1, <1>even, <3>2, <3>4 DEF AllIn, FramedMode
  <2>8. Ends(d)'
    BY <1>0, <1>1, <1>3, <1>7, <2>2, <2>6, <2>7 DEF Ends, OrderlyEnds, Settled, TlsUp, Threaded, Framed
  <2> QED
    BY <1>5, <1>7, <2>1, <2>2, <2>3, <2>4, <2>5, <2>8
<1>8. ASSUME ~closed[d], NEW k \in 1..Len(net[d]), NEW sawEnd \in BOOLEAN,
             sawEnd => k = Len(net[d]) /\ src[d] = "fin",
             net' = [net EXCEPT ![d] = SubSeq(net[d], k + 1, Len(net[d]))],
             LET buffer == part[d] \o SubSeq(net[d], 1, k)
                 frames == Whole(buffer)
             IN  IF \E i \in 1..Len(frames) : frames[i].kind = "bad"
                 THEN /\ pc' = "drop"
                      /\ lapsed' = [lapsed EXCEPT ![d] = TRUE]
                      /\ UNCHANGED <<pend, part, counted, records, closed, closeSeen>>
                 ELSE /\ pc' = next
                      /\ part' = [part EXCEPT ![d] = After(buffer, frames)]
                      /\ append_frames(d, frames)
                      /\ closed' = [closed EXCEPT ![d] = sawEnd]
                      /\ UNCHANGED lapsed
      PROVE  RelayInv'
  <2> DEFINE front == SubSeq(net[d], 1, k)
             rest == SubSeq(net[d], k + 1, Len(net[d]))
             buffer == part[d] \o front
             frames == Whole(buffer)
             left == After(buffer, frames)
             n == Size(got[d]) + Size(pend[d])
  <2>1. k \in 0..Len(net[d]) /\ k \in Nat /\ k <= Size(net[d]) /\ k > 0 /\ (sawEnd => k = Size(net[d]))
    BY <1>2, <1>8 DEF Size
  <2>2. /\ IsTail(rest, fed[d]) /\ rest \in Seq(Units) /\ front \in Seq(Units)
        /\ Size(front) = k /\ Size(rest) = Size(net[d]) - k
        /\ At(front, Size(fed[d]) - Size(net[d]), fed[d])
    BY <1>0, <1>2, <2>1, TailCut, SMTT(30) DEF Unread
  <2>3. net'[d] = rest /\ \A e \in Directions : e # d => net'[e] = net[e]
    BY <1>0, <1>8 DEF StreamTypes
  <2> HIDE DEF rest, front
  <2>4. buffer \in Seq(Units) /\ Size(buffer) = Size(part[d]) + k
    BY <1>2, <2>2, JoinFacts
  <2> HIDE DEF buffer
  <2>5. /\ frames \in Prefixes(buffer) /\ frames \in Seq(Units) /\ left \in Seq(Units)
        /\ Size(frames) \in Nat /\ Size(frames) <= Size(buffer)
        /\ Size(left) = Size(buffer) - Size(frames) /\ Size(buffer) - Size(frames) \in {0, 1}
    BY <2>4, WholeFacts
  <2>even. Size(frames) % 2 = 0
    BY <2>4, WholeFacts
  <2>6. CASE /\ pc' = "drop"
             /\ lapsed' = [lapsed EXCEPT ![d] = TRUE]
             /\ UNCHANGED <<pend, part, counted, records, closed, closeSeen>>
    <3>1. lapsed'[d] /\ \A e \in Directions : lapsed[e] => lapsed'[e]
      BY <1>0, <2>6 DEF FlagTypes
    <3>2. StreamTypes'
      <4>1. net' \in [Directions -> Seq(Units)]
        BY <1>0, <1>8, <2>2 DEF StreamTypes, rest
      <4> QED
        BY <1>0, <1>1, <2>6, <4>1 DEF StreamTypes
    <3>3. FlagTypes' /\ ControlTypes'
      BY <1>0, <1>1, <2>6 DEF FlagTypes, ControlTypes, Threaded
    <3>4. Unread(d)' /\ Held(d)' /\ Reported(d)'
      BY <1>0, <1>1, <2>2, <2>3, <2>6 DEF Unread, Reads, Threaded, Held, TlsUp, Reported, Framed
    <3>5. Shape(d)'
      BY <1>0, <1>1, <1>3, <1>8, <2>6 DEF Shape, Threaded
    <3>6. \A e \in Directions : Logged(e)'
      BY <1>1, <2>6, DirFacts DEF Logged, Framed
    <3>7. Ends(d)'
      BY <1>0, <1>1, <2>6, <3>1 DEF Ends, Orderly, Framed
    <3> QED
      BY <1>5, <2>3, <2>6, <3>1, <3>2, <3>3, <3>4, <3>5, <3>6, <3>7
  <2>7. CASE /\ pc' = next
             /\ part' = [part EXCEPT ![d] = left]
             /\ append_frames(d, frames)
             /\ closed' = [closed EXCEPT ![d] = sawEnd]
             /\ UNCHANGED lapsed
    <3> DEFINE found == \E i \in 1..Len(frames) : frames[i].kind = "close"
    <3>0. /\ counted' = [counted EXCEPT ![d] = counted[d] + Size(frames)]
          /\ pend' = [pend EXCEPT ![d] = pend[d] \o frames]
          /\ records' = NewRecords(records, d, frames)
          /\ closeSeen' = [closeSeen EXCEPT ![d] = closeSeen[d] \/ found]
      BY <2>7 DEF append_frames, Size
    <3> HIDE DEF frames, left
    <3>1. pend[d] \o frames \in Seq(Units) /\ Size(pend[d] \o frames) = Size(pend[d]) + Size(frames)
      BY <1>2, <2>5, JoinFacts
    <3>2. /\ part'[d] = left /\ pend'[d] = pend[d] \o frames /\ counted'[d] = counted[d] + Size(frames)
          /\ closed'[d] = sawEnd /\ closeSeen'[d] = (closeSeen[d] \/ found)
          /\ Size(pend'[d]) = Size(pend[d]) + Size(frames) /\ Size(part'[d]) = Size(left)
      BY <1>0, <2>7, <3>0, <3>1 DEF StreamTypes, FlagTypes
    <3>3. \A e \in Directions : e # d =>
                /\ net'[e] = net[e] /\ pend'[e] = pend[e] /\ part'[e] = part[e]
                /\ closed'[e] = closed[e] /\ closeSeen'[e] = closeSeen[e] /\ counted'[e] = counted[e]
      BY <1>0, <2>3, <2>7, <3>0 DEF StreamTypes, FlagTypes
    <3>4. StreamTypes'
      <4>1. net' \in [Directions -> Seq(Units)]
        BY <1>0, <1>8, <2>2 DEF StreamTypes, rest
      <4>2. records' \in Seq(Directions \X Nat)
        BY <1>0, <2>5, <3>0, RecordFacts DEF StreamTypes
      <4> QED
        BY <1>0, <1>1, <2>5, <2>7, <3>0, <3>1, <4>1, <4>2 DEF StreamTypes
    <3>5. FlagTypes' /\ ControlTypes'
      <4>1. counted' \in [Directions -> Nat]
        BY <1>0, <2>5, <3>0 DEF FlagTypes
      <4>2. closed' \in [Directions -> BOOLEAN]
        BY <1>0, <1>8, <2>7 DEF FlagTypes
      <4>3. closeSeen' \in [Directions -> BOOLEAN]
        BY <1>0, <3>0 DEF FlagTypes
      <4> QED
        BY <1>0, <1>1, <2>7, <4>1, <4>2, <4>3 DEF FlagTypes, ControlTypes, Threaded
    <3>6. n \in Nat /\ n + Size(part[d]) + Size(net[d]) = Size(fed[d])
      <4>1. net[d] # <<>>
        BY <1>2, <2>1
      <4> QED
        BY <1>2, <1>4, <1>8, <4>1
    <3>7. Size(got[d]) + Size(pend'[d]) = n + Size(frames) /\ n + Size(frames) \in Nat
      <4>1. \A a, b, c \in Nat : a + (b + c) = (a + b) + c /\ (a + b) + c \in Nat
        OBVIOUS
      <4>2. Size(frames) \in Nat
        BY <2>5
      <4>3. /\ Size(got[d]) + (Size(pend[d]) + Size(frames)) = (Size(got[d]) + Size(pend[d])) + Size(frames)
            /\ (Size(got[d]) + Size(pend[d])) + Size(frames) \in Nat
        BY <1>2, <4>1, <4>2
      <4> QED
        BY <3>2, <4>3
    <3>8. n + Size(frames) + Size(left) + Size(rest) = Size(fed[d])
      <4> HIDE DEF n
      <4>1. \A a, b, c, w, m \in Nat : a + w + ((b + c) - w) + (m - c) = a + b + m
        OBVIOUS
      <4>2. n + Size(frames) + ((Size(part[d]) + k) - Size(frames)) + (Size(net[d]) - k) = n + Size(part[d]) + Size(net[d])
        BY <1>2, <2>1, <2>5, <3>6, <4>1
      <4> QED
        BY <2>2, <2>4, <2>5, <3>6, <4>2
    <3>9. At(frames, n, fed[d]) /\ At(left, n + Size(frames), fed[d])
      <4>1. At(part[d], n, fed[d])
        BY <1>0, <1>1 DEF Held, TlsUp
      <4>2. Size(fed[d]) - Size(net[d]) = n + Size(part[d])
        BY <1>2, <3>6
      <4>3. At(front, n + Size(part[d]), fed[d])
        BY <2>2, <4>2
      <4> HIDE DEF n
      <4>4. At(buffer, n, fed[d])
        BY <1>2, <2>2, <3>6, <4>1, <4>3, AtConcat DEF buffer
      <4> QED
        BY <1>2, <2>4, <2>5, <3>6, <4>4, AtCut DEF left
    <3>10. Unread(d)'
      <4>1. Size(got[d]) + 0 + Size(pend'[d]) + Size(left) + Size(rest) = Size(fed[d])
        BY <1>2, <2>1, <2>2, <2>4, <2>5, <3>2, <3>7, <3>8
      <4> QED
        BY <1>1, <1>2, <2>2, <2>3, <3>2, <4>1 DEF Unread
    <3>11. Held(d)'
      <4>1. At(got[d], 0, fed[d]) /\ At(pend[d], Size(got[d]), fed[d])
        BY <1>0, <1>1 DEF Held, TlsUp
      <4>2. At(pend'[d], Size(got[d]), fed[d])
        BY <1>2, <2>5, <3>2, <3>9, <4>1, AtConcat
      <4> QED
        BY <1>1, <3>2, <3>7, <3>9, <4>1, <4>2 DEF Held, TlsUp
    <3>12. (n + Size(frames)) % 2 = 0
      <4>1. \A a, b \in Nat : a % 2 = 0 /\ b % 2 = 0 => (a + b) % 2 = 0
        OBVIOUS
      <4> QED
        BY <1>even, <2>5, <2>even, <3>6, <4>1
    <3>13. Shape(d)'
      <4>1. Size(left) < 2
        BY <2>5
      <4> QED
        BY <1>0, <1>1, <1>3, <1>8, <3>2, <3>7, <3>12, <4>1 DEF Shape, Threaded
    <3>14. Reported(d)'
      <4>1. counted[d] \in Nat /\ counted[d] >= Size(got[d]) /\ counted[d] >= n
        BY <1>0, <1>1 DEF FlagTypes, Reported, Framed
      <4>2. counted[d] + Size(frames) >= Size(got[d]) /\ counted[d] + Size(frames) >= n + Size(frames)
        <5>1. \A a, b, c \in Nat : a >= b => a + c >= b /\ a + c >= b + c
          OBVIOUS
        <5> QED
          BY <1>2, <2>5, <3>6, <4>1, <5>1
      <4> QED
        BY <1>1, <3>2, <3>7, <4>2 DEF Reported, Framed
    <3>15. \A e \in Directions : Logged(e)'
      <4>1. CASE ~(Size(records') < RecordCap)
        BY <4>1 DEF Logged
      <4>2. CASE Size(records') < RecordCap
        <5>0. records \in Seq(Directions \X Nat)
          BY <1>0 DEF StreamTypes
        <5>1. Size(records) < RecordCap /\ \A x \in ToSet(records) : x \in ToSet(records')
          BY <2>5, <3>0, <4>2, <5>0, RecordFacts
        <5>2. \A e \in Directions : LoggedIn(records, e, Size(got[e]) + Size(pend[e]))
          BY <1>1, <5>1, DirFacts DEF Logged, Framed
        <5>3. LoggedIn(records', d, n + Size(frames))
          <6>2. n % 2 = 0
            BY <1>even
          <6> HIDE DEF n
          <6>1. LoggedIn(records, d, n)
            BY <5>2 DEF n
          <6> QED
            BY <1>0, <1>2, <2>5, <3>0, <3>6, <3>9, <4>2, <5>0, <6>1, <6>2, LoggedMore
        <5>4. ASSUME NEW e \in Directions PROVE LoggedIn(records', e, Size(got[e]) + Size(pend'[e]))
          <6>1. CASE e # d
            BY <3>3, <5>1, <5>2, <6>1 DEF LoggedIn
          <6> QED
            BY <3>7, <5>3, <6>1
        <5> QED
          BY <1>1, <5>4 DEF Logged, Framed
      <4> QED
        BY <4>1, <4>2
    <3>16. closeSeen'[d] => CloseIn(fed[d], Size(got[d]) + Size(pend'[d]))
      <4>1. CASE closeSeen[d]
        <5>1. CloseIn(fed[d], n)
          BY <1>0, <4>1 DEF Ends
        <5> QED
          BY <2>5, <3>6, <3>7, <5>1, CloseMore
      <4>2. ASSUME NEW i \in 1..Size(frames), frames[i].kind = "close"
            PROVE  CloseIn(fed[d], n + Size(frames))
        <5>1. Numbered(fed[d], "wsnb")
          BY <1>0, <1>1
        <5>2. n % 2 = 0
          BY <1>even
        <5> HIDE DEF n
        <5> QED
          BY <1>2, <2>5, <2>even, <3>6, <3>9, <4>2, <5>1, <5>2, CloseFound
      <4>3. CASE found
        BY <3>7, <4>2, <4>3 DEF Size
      <4> QED
        BY <3>2, <4>1, <4>3
    <3>17. Orderly(d)' /\ sawEnd => Settled(d, Size(got[d]) + Size(pend'[d]))
      <4>1. SUFFICES ASSUME sawEnd PROVE src[d] # "open" /\ AllIn(fed[d], n + Size(frames), mode)
        BY <3>7 DEF Settled
      <4>2. src[d] = "fin" /\ Size(rest) = 0
        BY <1>2, <1>8, <2>1, <2>2, <4>1
      <4>3. n + Size(frames) = Size(fed[d]) \/ (n + Size(frames)) + 1 = Size(fed[d])
        BY <2>5, <3>7, <3>8, <4>2
      <4> QED
        BY <1>1, <3>12, <4>2, <4>3 DEF AllIn, FramedMode
    <3>18. Ends(d)'
      BY <1>1, <1>3, <1>8, <2>7, <3>2, <3>16, <3>17 DEF Ends, OrderlyEnds, Settled, TlsUp, Threaded, Framed
    <3> QED
      BY <1>5, <2>7, <3>3, <3>4, <3>5, <3>10, <3>11, <3>13, <3>14, <3>15, <3>18
  <2> QED
    BY <1>8, <2>6, <2>7 DEF buffer, front
<1> QED
  BY <1>6, <1>7, <1>8 DEF NbRead

\* The WebSocket loop's writes go right behind what was delivered.
LEMMA NbFlushInv ==
    ASSUME RelayInv, NbFlush
    PROVE  RelayInv'
<1>0. StreamTypes /\ FlagTypes /\ ControlTypes /\ TlsHeld
  BY DEF RelayInv, Types
<1>1. /\ mode' = mode /\ src' = src /\ fed' = fed /\ net' = net /\ part' = part /\ eof' = eof
      /\ counted' = counted /\ thread' = thread /\ records' = records /\ lapsed' = lapsed /\ cut' = cut
      /\ tlsq' = tlsq /\ closed' = closed /\ closeSeen' = closeSeen
      /\ mode = "wsnb" /\ pc = "write" /\ pc' = "check"
  BY DEF NbFlush
<1>2. PICK w \in [Directions -> Seq(Units)] :
          /\ \A e \in Directions : w[e] \in Prefixes(pend[e])
          /\ pend' = [e \in Directions |-> After(pend[e], w[e])]
          /\ got' = [e \in Directions |-> got[e] \o w[e]]
  <2>1. \A e \in Directions : pend[e] \in Seq(Units) /\ <<>> \in Prefixes(pend[e])
    BY <1>0, Sizes, NothingIsPrefix
  <2>2. PICK u \in IF Gone("up") THEN {<<>>} ELSE Prefixes(pend["up"]),
             v \in IF Gone("down") THEN {<<>>} ELSE Prefixes(pend["down"]) :
          LET w == [e \in Directions |-> IF e = "up" THEN u ELSE v]
          IN  /\ pend' = [e \in Directions |-> After(pend[e], w[e])]
              /\ got' = [e \in Directions |-> got[e] \o w[e]]
    BY DEF NbFlush
  <2> DEFINE w == [e \in Directions |-> IF e = "up" THEN u ELSE v]
  <2>3. /\ u \in Prefixes(pend["up"]) /\ v \in Prefixes(pend["down"])
        /\ u \in Seq(Units) /\ v \in Seq(Units)
    <3>1. u \in Prefixes(pend["up"]) /\ v \in Prefixes(pend["down"])
      BY <2>1, <2>2 DEF Directions
    <3> QED
      BY <2>1, <3>1, PrefixFacts DEF Directions
  <2>4. w \in [Directions -> Seq(Units)] /\ \A e \in Directions : w[e] \in Prefixes(pend[e])
    BY <2>2, <2>3 DEF Directions
  <2> QED
    BY <2>2, <2>4
<1>3. ASSUME NEW e \in Directions
      PROVE  /\ pend'[e] \in Seq(Units) /\ got'[e] \in Seq(Units)
             /\ pend'[e] = After(pend[e], w[e]) /\ got'[e] = got[e] \o w[e]
             /\ Size(w[e]) \in Nat /\ Size(pend'[e]) \in Nat /\ Size(got'[e]) \in Nat
             /\ Size(pend'[e]) = Size(pend[e]) - Size(w[e]) /\ Size(got'[e]) = Size(got[e]) + Size(w[e])
             /\ Size(got'[e]) + Size(pend'[e]) = Size(got[e]) + Size(pend[e])
             /\ pend[e] = <<>> => pend'[e] = <<>>
  <2>1. pend[e] \in Seq(Units) /\ got[e] \in Seq(Units) /\ Size(pend[e]) \in Nat /\ Size(got[e]) \in Nat
    BY <1>0, Sizes
  <2>2. pend'[e] = After(pend[e], w[e]) /\ got'[e] = got[e] \o w[e] /\ w[e] \in Prefixes(pend[e])
    BY <1>2
  <2>3. /\ w[e] \in Seq(Units) /\ pend'[e] \in Seq(Units) /\ Size(w[e]) <= Size(pend[e])
        /\ Size(pend'[e]) = Size(pend[e]) - Size(w[e])
    BY <2>1, <2>2, PrefixFacts
  <2>4. got'[e] \in Seq(Units) /\ Size(got'[e]) = Size(got[e]) + Size(w[e]) /\ Size(w[e]) \in Nat
    BY <2>1, <2>2, <2>3, JoinFacts
  <2>5. /\ Size(pend'[e]) \in Nat /\ Size(got'[e]) \in Nat
        /\ Size(got'[e]) + Size(pend'[e]) = Size(got[e]) + Size(pend[e])
    BY <2>1, <2>3, <2>4
  <2>6. pend[e] = <<>> => pend'[e] = <<>>
    <3>1. SUFFICES ASSUME Size(pend[e]) = 0 PROVE Size(pend'[e]) = 0
      BY <2>1, <2>3, EmptyFacts
    <3> QED
      BY <2>3, <2>4, <3>1
  <2> QED
    BY <2>2, <2>3, <2>4, <2>5, <2>6
<1>4. StreamTypes' /\ FlagTypes' /\ ControlTypes' /\ TlsHeld'
  <2>1. pend' \in [Directions -> Seq(Units)] /\ got' \in [Directions -> Seq(Units)]
    <3>1. /\ pend' = [e \in Directions |-> pend'[e]] /\ got' = [e \in Directions |-> got'[e]]
      BY <1>2
    <3> QED
      BY <1>3, <3>1
  <2>2. StreamTypes'
    BY <1>0, <1>1, <2>1 DEF StreamTypes
  <2> QED
    BY <1>0, <1>1, <2>2 DEF FlagTypes, ControlTypes, Threaded, TlsHeld
<1>5. ASSUME NEW e \in Directions
      PROVE  /\ Numbered(fed'[e], mode') /\ Unread(e)' /\ Held(e)' /\ Shape(e)'
             /\ Reported(e)' /\ Logged(e)' /\ Ends(e)'
  <2>0. /\ Numbered(fed[e], mode) /\ Unread(e) /\ Held(e) /\ Shape(e)
        /\ Reported(e) /\ Logged(e) /\ Ends(e)
    BY DirFacts
  <2>1. /\ Size(got[e]) \in Nat /\ Size(pend[e]) \in Nat /\ Size(part[e]) \in Nat /\ Size(net[e]) \in Nat
        /\ fed[e] \in Seq(Units) /\ pend[e] \in Seq(Units) /\ got[e] \in Seq(Units) /\ part[e] \in Seq(Units)
    BY <1>0, Sizes
  <2>2. Unread(e)'
    <3>1. (Reads(e)' => Reads(e)) /\ Queued(tlsq, e) = 0
      BY <1>0, <1>1, NoQueue DEF Reads, Threaded
    <3>2. Size(got'[e]) + 0 + Size(pend'[e]) + Size(part[e]) + Size(net[e])
            = Size(got[e]) + 0 + Size(pend[e]) + Size(part[e]) + Size(net[e])
      BY <1>3, <2>1
    <3> QED
      BY <1>1, <2>0, <3>1, <3>2 DEF Unread
  <2>3. Held(e)'
    <3>1. /\ At(got[e], 0, fed[e]) /\ At(pend[e], 0 + Size(got[e]), fed[e])
          /\ At(part[e], Size(got[e]) + Size(pend[e]), fed[e])
      BY <1>1, <2>0, <2>1 DEF Held, TlsUp
    <3>2. /\ At(w[e], 0 + Size(got[e]), fed[e]) /\ At(After(pend[e], w[e]), 0 + Size(got[e]) + Size(w[e]), fed[e])
      BY <1>2, <2>1, <3>1, AtCut
    <3>3. At(got'[e], 0, fed[e])
      BY <1>2, <1>3, <2>1, <3>1, <3>2, AtConcat
    <3>4. At(pend'[e], Size(got'[e]), fed[e])
      BY <1>3, <2>1, <3>2
    <3> QED
      BY <1>1, <1>3, <3>1, <3>3, <3>4 DEF Held, TlsUp
  <2>4. Shape(e)'
    BY <1>1, <1>3, <2>0 DEF Shape, Threaded
  <2>5. Reported(e)'
    <3>1. counted[e] >= Size(got[e]) + Size(pend[e]) /\ counted[e] \in Nat
      BY <1>0, <1>1, <2>0 DEF Reported, Framed, FlagTypes
    <3>2. counted[e] >= Size(got'[e]) + Size(pend'[e])
      BY <1>3, <3>1
    <3>3. counted[e] >= Size(got'[e])
      BY <1>3, <3>1, <3>2
    <3> QED
      BY <1>1, <3>2, <3>3 DEF Reported
  <2>6. Logged(e)'
    BY <1>1, <1>3, <2>0 DEF Logged, Framed
  <2>7. Orderly(e)' => Orderly(e)
    BY <1>1 DEF Orderly
  <2>8. Ends(e)'
    BY <1>1, <1>3, <2>0, <2>7 DEF Ends, OrderlyEnds, Settled, TlsUp, Threaded, Framed
  <2> QED
    BY <1>1, <2>0, <2>2, <2>3, <2>4, <2>5, <2>6, <2>8
<1> QED
  BY <1>4, <1>5 DEF RelayInv, Types, FlowInv, EndInv

\* A direction ends with its close frame passed on, the loop with both ended.
LEMMA NbCheckInv ==
    ASSUME RelayInv, NbCheck
    PROVE  RelayInv'
<1>0. StreamTypes /\ FlagTypes /\ ControlTypes /\ TlsHeld
  BY DEF RelayInv, Types
<1>1. /\ mode' = mode /\ src' = src /\ fed' = fed /\ net' = net /\ part' = part /\ pend' = pend /\ got' = got
      /\ counted' = counted /\ thread' = thread /\ records' = records /\ lapsed' = lapsed /\ cut' = cut
      /\ tlsq' = tlsq /\ closeSeen' = closeSeen /\ mode = "wsnb" /\ pc = "check" /\ pc' \in {"drop", "up"}
  BY DEF NbCheck
<1>2. ASSUME NEW e \in Directions
      PROVE  /\ eof'[e] = (eof[e] \/ (closeSeen[e] /\ pend[e] = <<>>))
             /\ closed'[e] = (closed[e] \/ (closeSeen[e] /\ pend[e] = <<>>))
             /\ pc' = "drop" => pend[e] = <<>> /\ (closed'[e] \/ closeSeen[e])
  BY DEF NbCheck
<1>3. StreamTypes' /\ FlagTypes' /\ ControlTypes' /\ TlsHeld'
  <2>1. eof' \in [Directions -> BOOLEAN] /\ closed' \in [Directions -> BOOLEAN]
    BY <1>0 DEF NbCheck, FlagTypes
  <2> QED
    BY <1>0, <1>1, <2>1 DEF StreamTypes, FlagTypes, ControlTypes, Threaded, TlsHeld
<1>4. ASSUME NEW e \in Directions
      PROVE  /\ Numbered(fed'[e], mode') /\ Unread(e)' /\ Held(e)' /\ Shape(e)'
             /\ Reported(e)' /\ Logged(e)' /\ Ends(e)'
  <2>0. /\ Numbered(fed[e], mode) /\ Unread(e) /\ Held(e) /\ Shape(e)
        /\ Reported(e) /\ Logged(e) /\ Ends(e) /\ eof[e] \in BOOLEAN /\ closed[e] \in BOOLEAN
    BY <1>0, DirFacts DEF FlagTypes
  <2>1. Numbered(fed'[e], mode') /\ Held(e)' /\ Reported(e)' /\ Logged(e)'
    BY <1>1, <2>0 DEF Held, TlsUp, Reported, Framed, Logged
  <2>2. Unread(e)'
    <3>1. Reads(e)' => Reads(e)
      BY <1>1, <1>2 DEF Reads, Threaded
    <3> QED
      BY <1>1, <2>0, <3>1 DEF Unread
  <2>3. Shape(e)'
    BY <1>1, <1>2, <2>0 DEF Shape, Threaded
  <2>4. Orderly(e)' => Orderly(e)
    BY <1>1 DEF Orderly
  <2>5. closeSeen[e] => Framed /\ CloseIn(fed[e], Size(got[e]) + Size(pend[e]))
    BY <2>0 DEF Ends
  <2>6. OrderlyEnds(e) => OrderlyEnds(e)'
    BY <1>1, <1>2, <2>5 DEF OrderlyEnds, Settled, TlsUp, Threaded, Framed
  <2> QED
    BY <1>1, <2>0, <2>1, <2>2, <2>3, <2>4, <2>5, <2>6 DEF Ends, Framed
<1> QED
  BY <1>3, <1>4 DEF RelayInv, Types, FlowInv, EndInv

-----------------------------------------------------------------------------
\* The invariant holds before anything is sent.
LEMMA InitInv ==
    ASSUME Init
    PROVE  RelayInv
<1>1. /\ mode \in Modes /\ tlsq = <<>> /\ records = <<>>
      /\ mode = "tls" => pc = "flush"
      /\ mode = "wsnb" => pc = "up"
      /\ Threaded => pc = "none"
  BY DEF Init, Modes, Threaded
<1>2. ASSUME NEW d \in Directions
      PROVE  /\ src[d] = "open" /\ fed[d] = <<>> /\ net[d] = <<>> /\ pend[d] = <<>> /\ part[d] = <<>>
             /\ got[d] = <<>> /\ eof[d] = FALSE /\ counted[d] = 0 /\ closed[d] = FALSE
             /\ closeSeen[d] = FALSE /\ lapsed[d] = FALSE /\ cut[d] = 0
             /\ thread[d] = IF Threaded THEN "read" ELSE "none"
  BY DEF Init, Each
<1>3. <<>> \in Seq(Units) /\ Size(<<>>) = 0 /\ IsTail(<<>>, <<>>) /\ At(<<>>, 0, <<>>)
  <2>1. <<>> \in Seq(Units) /\ Size(<<>>) = 0
    BY DEF Size
  <2>2. IsTail(<<>>, <<>>) /\ \A k \in 0..Size(<<>>) : At(<<>>, k, <<>>)
    BY <2>1, EmptyFacts
  <2> QED
    BY <2>1, <2>2
<1>4. StreamTypes
  <2>1. Each(<<>>) \in [Directions -> Seq(Units)]
    BY <1>3 DEF Each
  <2>2. <<>> \in Seq(Units \cup {Notify}) /\ <<>> \in Seq(Directions \X Nat)
    OBVIOUS
  <2> QED
    BY <2>1, <2>2 DEF Init, StreamTypes
<1>5. FlagTypes
  BY DEF Init, FlagTypes, Each
<1>6. ControlTypes
  <2>1. thread \in [Directions -> {"none", "read", "write", "shut", "done"}]
    BY DEF Init, Each
  <2> QED
    BY <1>1, <2>1 DEF ControlTypes
<1>7. TlsHeld
  <2>1. "up" \in Directions
    BY DEF Directions
  <2>2. NoNotify(<<>>) /\ Runs(<<>>, 0, 0, <<>>)
    BY <1>3 DEF NoNotify, Runs
  <2>3. 0 + 0 = 0 /\ 0 + 0 + 0 <= 0
    OBVIOUS
  <2> QED
    BY <1>1, <1>2, <1>3, <2>1, <2>2, <2>3 DEF TlsHeld
<1>8. ASSUME NEW d \in Directions
      PROVE  /\ Numbered(fed[d], mode) /\ Unread(d) /\ Held(d) /\ Shape(d)
             /\ Reported(d) /\ Logged(d) /\ Ends(d)
  <2>1. Numbered(<<>>, mode)
    BY <1>3 DEF Numbered
  <2>2. Unread(d)
    <3>1. Queued(tlsq, d) = 0 /\ 0 + 0 + 0 + 0 + 0 = 0
      BY <1>1, <1>3 DEF Queued
    <3> QED
      BY <1>2, <1>3, <3>1 DEF Unread
  <2>3. Held(d)
    <3>1. 0 + 0 = 0
      OBVIOUS
    <3> QED
      BY <1>2, <1>3, <3>1 DEF Held
  <2>4. Shape(d)
    <3>1. 0 % 2 = 0 /\ (0 + 0) % 2 = 0 /\ 0 < 2
      OBVIOUS
    <3> QED
      BY <1>1, <1>2, <1>3, <3>1 DEF Shape
  <2>5. Reported(d) /\ Logged(d)
    <3>1. 0 >= 0 /\ 0 >= 0 + 0 /\ 0 + 0 = 0
      OBVIOUS
    <3>2. Reported(d)
      BY <1>2, <1>3, <3>1 DEF Reported
    <3>3. LoggedIn(records, d, 0)
      BY DEF LoggedIn
    <3> QED
      BY <1>2, <1>3, <3>1, <3>2, <3>3 DEF Logged
  <2>6. Ends(d)
    BY <1>1, <1>2, <1>3 DEF Ends, OrderlyEnds, Threaded, TlsUp
  <2> QED
    BY <1>2, <2>1, <2>2, <2>3, <2>4, <2>5, <2>6
<1> QED
  BY <1>4, <1>5, <1>6, <1>7, <1>8 DEF RelayInv, Types, FlowInv, EndInv

\* Every step keeps the invariant.
LEMMA StepInv ==
    ASSUME RelayInv, [Next]_vars
    PROVE  RelayInv'
<1>1. ASSUME NEW d \in Directions, Endpoint(d) PROVE RelayInv'
  BY <1>1, SendInv, EndpointInv DEF Endpoint
<1>2. ASSUME NEW d \in Directions, Thread(d) PROVE RelayInv'
  BY <1>2, ThreadReadInv, ThreadWriteInv, ThreadShutInv DEF Thread
<1>3. CASE TlsFlushes
  BY <1>3, TlsFlushInv DEF TlsFlushes
<1>4. CASE TlsReadClient \/ TlsReadUpstream \/ TlsDeliver
  BY <1>4, TlsReadClientInv, TlsReadUpstreamInv, TlsDeliverInv
<1>5. CASE NbRead("up", "down") \/ NbRead("down", "write")
  BY <1>5, NbReadInv DEF Directions
<1>6. CASE NbFlush \/ NbCheck \/ LoopDrop
  BY <1>6, NbFlushInv, NbCheckInv, LoopDropInv
<1>7. CASE UNCHANGED vars
  <2>1. /\ mode' = mode /\ src' = src /\ fed' = fed /\ net' = net /\ pend' = pend /\ got' = got
        /\ eof' = eof /\ counted' = counted /\ thread' = thread /\ records' = records
        /\ lapsed' = lapsed /\ cut' = cut /\ part' = part /\ tlsq' = tlsq /\ closed' = closed
        /\ closeSeen' = closeSeen /\ pc' = pc
    BY <1>7 DEF vars, relayVars, loopVars
  <2>2. StreamTypes' /\ FlagTypes' /\ ControlTypes' /\ TlsHeld'
    BY <2>1 DEF RelayInv, Types, StreamTypes, FlagTypes, ControlTypes, Threaded, TlsHeld
  <2>3. ASSUME NEW e \in Directions
        PROVE  /\ Numbered(fed'[e], mode') /\ Unread(e)' /\ Held(e)' /\ Shape(e)'
               /\ Reported(e)' /\ Logged(e)' /\ Ends(e)'
    <3>1. /\ Numbered(fed[e], mode) /\ Unread(e) /\ Held(e) /\ Shape(e)
          /\ Reported(e) /\ Logged(e) /\ Ends(e)
      BY DirFacts
    <3>2. Apart(e) /\ (Orderly(e)' => Orderly(e)) /\ Logged(e)'
      BY <2>1, <3>1 DEF Apart, Orderly, Logged, Framed
    <3> QED
      BY <2>1, <3>1, <3>2, Frame, EndFrame
  <2> QED
    BY <2>2, <2>3 DEF RelayInv, Types, FlowInv, EndInv
<1> QED
  BY <1>1, <1>2, <1>3, <1>4, <1>5, <1>6, <1>7 DEF Next, Loop

\* In every reachable state, whatever the endpoints do, the units a relay holds
\* are the ones that follow the delivered ones, without a gap, and its counters,
\* records and ends agree with them (proxy/tunnel.rs, proxy/websocket/).
THEOREM RelayInvariant == Spec => []RelayInv
<1>1. Init => RelayInv
  BY InitInv
<1>2. RelayInv /\ [Next]_vars => RelayInv'
  BY StepInv
<1> QED
  BY <1>1, <1>2, PTL DEF Spec

-----------------------------------------------------------------------------
\* What is joined to a sequence leaves it a prefix.
LEMMA PrefixJoin ==
    ASSUME NEW S, NEW s \in Seq(S), NEW x \in Seq(S)
    PROVE  IsPrefix(s, s \o x)
<1>1. s \o x \in Seq(S) /\ Size(s) <= Size(s \o x) /\ \A i \in 1..Size(s) : s[i] = (s \o x)[0 + i]
  BY DEF Size
<1>2. At(s, 0, s \o x)
  <2>1. 0 + Size(s) <= Size(s \o x)
    BY <1>1 DEF Size
  <2> QED
    BY <1>1, <2>1 DEF At
<1> QED
  BY <1>1, <1>2, AtPrefix

\* What one step does to the two ends of a direction.
Advances(d) ==
    \/ fed'[d] = fed[d] /\ got'[d] = got[d] /\ eof'[d] = eof[d]
    \/ (\E x \in Units : fed'[d] = Append(fed[d], x)) /\ got'[d] = got[d] /\ eof'[d] = eof[d]
    \/ /\ ~eof[d] /\ fed'[d] = fed[d]
       /\ \E x \in Seq(Units \cup {Notify}) : got'[d] = got[d] \o x

\* Each step sends, delivers or does nothing, and nothing follows the end.
LEMMA StepAdvances ==
    ASSUME RelayInv, [Next]_vars, NEW e \in Directions
    PROVE  Advances(e)
<1>0. /\ StreamTypes /\ FlagTypes /\ Shape(e) /\ got[e] \in Seq(Units) /\ pend[e] \in Seq(Units)
      /\ eof[e] \in BOOLEAN
  BY DirFacts, Sizes DEF FlagTypes
<1>1. <<>> \in Seq(Units \cup {Notify}) /\ got[e] = got[e] \o <<>>
  BY <1>0
<1>2. \A x \in Seq(Units) : x \in Seq(Units \cup {Notify})
  OBVIOUS
<1>3. CASE UNCHANGED <<fed, got, eof>>
  BY <1>3 DEF Advances
<1>4. ASSUME UNCHANGED <<fed, got>>, eof'[e] = TRUE PROVE Advances(e)
  BY <1>0, <1>1, <1>4 DEF Advances
<1>5. ASSUME NEW d \in Directions, Send(d) PROVE Advances(e)
  <2>1. got' = got /\ eof' = eof
    BY <1>5 DEF Send, relayVars
  <2>2. PICK k \in {"data", "close", "bad"} : fed' = [fed EXCEPT ![d] = Append(fed[d], Unit(Len(fed[d]) + 1, k))]
    <3>1. fed[d] \in Seq(Units)
      BY <1>0, Sizes
    <3>2. CASE Framed /\ (Size(fed[d]) + 1) % 2 = 0
      <4>1. Last(fed[d]) \in Units
        BY <3>1, <3>2, OddLen
      <4>2. Last(fed[d]).kind \in {"data", "close", "bad"}
        BY <4>1 DEF Units
      <4> QED
        BY <1>5, <3>2, <4>2 DEF Send, FrameSize, Size
    <3>3. CASE ~(Framed /\ (Size(fed[d]) + 1) % 2 = 0)
      <4>1. Kinds(d) \subseteq {"data", "close", "bad"}
        BY DEF Kinds
      <4> QED
        BY <1>5, <3>3, <4>1 DEF Send, FrameSize, Size
    <3> QED
      BY <3>2, <3>3
  <2>3. Unit(Len(fed[d]) + 1, k) \in Units
    BY <1>0, Sizes DEF Unit, Units, Size
  <2>4. e = d => fed'[e] = Append(fed[e], Unit(Len(fed[d]) + 1, k))
    BY <1>0, <2>2 DEF StreamTypes
  <2>5. e # d => fed'[e] = fed[e]
    BY <1>0, <2>2 DEF StreamTypes
  <2> QED
    BY <2>1, <2>3, <2>4, <2>5 DEF Advances
<1>6. ASSUME NEW d \in Directions, EndpointEnds(d) \/ ThreadRead(d) PROVE Advances(e)
  BY <1>3, <1>6 DEF EndpointEnds, ThreadRead, relayVars
<1>7. ASSUME NEW d \in Directions, ThreadWrite(d) PROVE Advances(e)
  <2>1. fed' = fed /\ eof' = eof /\ (got' = got \/ got' = [got EXCEPT ![d] = got[d] \o pend[d]])
    BY <1>7 DEF ThreadWrite
  <2>2. e = d => ~eof[e]
    BY <1>0, <1>7 DEF ThreadWrite, Shape
  <2>3. got'[e] = got[e] \/ (e = d /\ got'[e] = got[e] \o pend[e])
    BY <1>0, <2>1 DEF StreamTypes
  <2> QED
    BY <1>0, <1>2, <2>1, <2>2, <2>3 DEF Advances
<1>8. ASSUME NEW d \in Directions, ThreadShut(d) PROVE Advances(e)
  <2>1. fed' = fed /\ got' = got /\ (eof'[e] = eof[e] \/ eof'[e] = TRUE)
    BY <1>0, <1>8 DEF ThreadShut, Shutdown, FlagTypes
  <2> QED
    BY <1>4, <2>1 DEF Advances
<1>9. ASSUME NEW next, TlsFlush(next) PROVE Advances(e)
  <2>1. PICK p \in Prefixes(pend["up"]) : \E w \in IF Gone("up") THEN {<<>>} ELSE Prefixes(tlsq \o p) :
            /\ got' = [got EXCEPT !["up"] = IF eof["up"] THEN got["up"] ELSE got["up"] \o BeforeNotify(w)]
            /\ eof' = [eof EXCEPT !["up"] = eof["up"] \/ Notify \in ToSet(w)]
            /\ fed' = fed
    BY <1>9 DEF TlsFlush
  <2>2. tlsq \o p \in Seq(Units \cup {Notify})
    <3>1. pend["up"] \in Seq(Units) /\ tlsq \in Seq(Units \cup {Notify})
      BY <1>0 DEF StreamTypes, Directions
    <3>2. p \in Seq(Units)
      BY <3>1, PrefixFacts
    <3> QED
      BY <1>2, <3>1, <3>2
  <2>3. PICK w \in Seq(Units \cup {Notify}) :
            /\ got' = [got EXCEPT !["up"] = IF eof["up"] THEN got["up"] ELSE got["up"] \o BeforeNotify(w)]
            /\ eof' = [eof EXCEPT !["up"] = eof["up"] \/ Notify \in ToSet(w)]
    <3>1. \A w \in Prefixes(tlsq \o p) : w \in Seq(Units \cup {Notify})
      BY <2>2, PrefixFacts
    <3> QED
      BY <1>1, <2>1, <3>1
  <2>4. BeforeNotify(w) \in Seq(Units \cup {Notify})
    <3>1. PICK l \in 0..Len(w) : BeforeNotify(w) = SubSeq(w, 1, l)
      BY BeforeFacts
    <3>2. SubSeq(w, 1, l) \in Seq(Units \cup {Notify})
      BY SubFacts DEF Size
    <3> QED
      BY <3>1, <3>2
  <2>5. CASE e = "up" /\ ~eof["up"]
    <3>1. got'[e] = got[e] \o BeforeNotify(w)
      BY <1>0, <2>3, <2>5 DEF StreamTypes
    <3> QED
      BY <2>1, <2>4, <2>5, <3>1 DEF Advances
  <2>6. CASE ~(e = "up" /\ ~eof["up"])
    <3>1. got'[e] = got[e] /\ eof'[e] = eof[e]
      BY <1>0, <2>3, <2>6 DEF StreamTypes, FlagTypes
    <3> QED
      BY <2>1, <3>1 DEF Advances
  <2> QED
    BY <2>5, <2>6
<1>10. CASE TlsReadClient \/ TlsReadUpstream \/ NbRead("up", "down") \/ NbRead("down", "write")
  BY <1>3, <1>10 DEF TlsReadClient, TlsReadUpstream, NbRead
<1>11. CASE TlsDeliver
  <2>1. PICK w \in IF Gone("down") THEN {<<>>} ELSE Prefixes(pend["down"]) :
            got' = [got EXCEPT !["down"] = got["down"] \o w]
    BY <1>11 DEF TlsDeliver
  <2>2. fed' = fed /\ eof' = eof /\ mode = "tls" /\ pc = "deliver"
    BY <1>11 DEF TlsDeliver
  <2>3. e = "down" => ~eof[e]
    BY <1>0, <2>2 DEF Shape
  <2>4. e = "down" => w \in Seq(Units \cup {Notify})
    BY <1>0, <1>1, <1>2, <2>1, PrefixFacts
  <2>5. got'[e] = IF e = "down" THEN got[e] \o w ELSE got[e]
    BY <1>0, <2>1 DEF StreamTypes
  <2> QED
    BY <2>2, <2>3, <2>4, <2>5 DEF Advances
<1>12. CASE NbFlush
  <2>1. PICK u \in IF Gone("up") THEN {<<>>} ELSE Prefixes(pend["up"]),
             v \in IF Gone("down") THEN {<<>>} ELSE Prefixes(pend["down"]) :
          LET w == [d \in Directions |-> IF d = "up" THEN u ELSE v]
          IN  got' = [d \in Directions |-> got[d] \o w[d]]
    BY <1>12 DEF NbFlush
  <2>2. fed' = fed /\ eof' = eof /\ mode = "wsnb" /\ pc = "write"
    BY <1>12 DEF NbFlush
  <2>3. PICK x : got'[e] = got[e] \o x /\ (x = <<>> \/ x \in Prefixes(pend[e]))
    BY <2>1 DEF Directions
  <2>4. x \in Seq(Units) /\ (x \in Prefixes(pend[e]) => Size(x) <= Size(pend[e]))
    <3>1. CASE x = <<>>
      <4>1. <<>> \in Seq(Units) /\ Size(<<>>) <= Size(pend[e])
        BY <1>0 DEF Size
      <4> QED
        BY <3>1, <4>1
    <3>2. CASE x \in Prefixes(pend[e])
      BY <1>0, <3>2, PrefixFacts
    <3> QED
      BY <2>3, <3>1, <3>2
  <2>5. eof[e] => x = <<>>
    <3>1. SUFFICES ASSUME eof[e], x \in Prefixes(pend[e]) PROVE x = <<>>
      BY <2>3
    <3>2. pend[e] = <<>>
      BY <1>0, <2>2, <3>1 DEF Shape
    <3>3. Size(x) <= Size(<<>>) /\ Size(<<>>) = 0 /\ Size(x) \in Nat
      BY <2>4, <3>1, <3>2 DEF Size
    <3> QED
      BY <2>4, <3>3 DEF Size
  <2> QED
    BY <1>1, <1>2, <2>2, <2>3, <2>4, <2>5 DEF Advances
<1>13. CASE NbCheck
  <2>1. fed' = fed /\ got' = got /\ (eof'[e] = eof[e] \/ eof'[e] = TRUE)
    BY <1>0, <1>13 DEF NbCheck
  <2> QED
    BY <1>4, <2>1 DEF Advances
<1>14. CASE LoopDrop
  <2>1. fed' = fed /\ got' = got /\ eof'[e] = TRUE
    BY <1>14 DEF LoopDrop, Each
  <2> QED
    BY <1>4, <2>1
<1>15. CASE UNCHANGED vars
  BY <1>3, <1>15 DEF vars, relayVars
<1> QED
  BY <1>5, <1>6, <1>7, <1>8, <1>9, <1>10, <1>11, <1>12, <1>13, <1>14, <1>15
     DEF Next, Loop, Endpoint, Thread, TlsFlushes

\* A step of a direction is a step of a pipe.
LEMMA PipeStep ==
    ASSUME RelayInv, RelayInv', [Next]_vars, NEW e \in Directions
    PROVE  \/ fed'[e] = fed[e] /\ got'[e] = got[e] /\ eof'[e] = eof[e]
           \/ IsPrefix(fed[e], fed'[e]) /\ got'[e] = got[e] /\ eof'[e] = eof[e]
           \/ /\ ~eof[e] /\ fed'[e] = fed[e] /\ eof'[e] \in BOOLEAN
              /\ IsPrefix(got[e], got'[e]) /\ IsPrefix(got'[e], fed[e])
<1>1. /\ fed[e] \in Seq(Units) /\ got[e] \in Seq(Units) /\ got'[e] \in Seq(Units) /\ At(got'[e], 0, fed'[e])
      /\ eof'[e] \in BOOLEAN
  <2>1. StreamTypes /\ StreamTypes' /\ FlagTypes' /\ Held(e)'
    BY DEF RelayInv, Types, FlowInv
  <2> QED
    BY <2>1, Sizes, SizesNext DEF Held, FlagTypes
<1>2. CASE \E x \in Units : fed'[e] = Append(fed[e], x) /\ got'[e] = got[e] /\ eof'[e] = eof[e]
  <2>1. PICK x \in Units : fed'[e] = Append(fed[e], x) /\ got'[e] = got[e] /\ eof'[e] = eof[e]
    BY <1>2
  <2>2. <<x>> \in Seq(Units) /\ Append(fed[e], x) = fed[e] \o <<x>>
    BY <1>1
  <2>3. IsPrefix(fed[e], fed'[e])
    BY <1>1, <2>1, <2>2, PrefixJoin
  <2> QED
    BY <2>1, <2>3
<1>3. CASE ~eof[e] /\ fed'[e] = fed[e] /\ \E x \in Seq(Units \cup {Notify}) : got'[e] = got[e] \o x
  <2>1. got[e] \in Seq(Units \cup {Notify})
    BY <1>1
  <2>2. IsPrefix(got[e], got'[e])
    BY <1>3, <2>1, PrefixJoin
  <2>3. IsPrefix(got'[e], fed[e])
    BY <1>1, <1>3, AtPrefix
  <2> QED
    BY <1>1, <1>3, <2>2, <2>3
<1> QED
  BY <1>2, <1>3, StepAdvances DEF Advances

\* Each direction of each of the four relays refines a pipe, for any traffic, any
\* order of threads and endpoints and any partial reads and writes: in order,
\* nothing twice, nothing left out of the middle, nothing after the end
\* (tunnel.rs, websocket/).
THEOREM PipeRefined == Spec => ImplementsPipe
<1>1. Init => Up!Init /\ Down!Init
  BY DEF Init, Up!Init, Down!Init, Each, Directions
<1>2. RelayInv /\ RelayInv' /\ [Next]_vars => [Up!Next]_Up!vars
  <2>1. "up" \in Directions
    BY DEF Directions
  <2> QED
    BY <2>1, PipeStep DEF Up!Next, Up!Send, Up!Deliver, Up!vars, IsPrefix, Up!IsPrefix
<1>3. RelayInv /\ RelayInv' /\ [Next]_vars => [Down!Next]_Down!vars
  <2>1. "down" \in Directions
    BY DEF Directions
  <2> QED
    BY <2>1, PipeStep DEF Down!Next, Down!Send, Down!Deliver, Down!vars, IsPrefix, Down!IsPrefix
<1> QED
  BY <1>1, <1>2, <1>3, RelayInvariant, PTL DEF Spec, ImplementsPipe, Up!Spec, Down!Spec

-----------------------------------------------------------------------------
\* The even numbers up to n are the even numbers up to n without its last odd one.
LEMMA EvenBelow ==
    ASSUME NEW n \in Nat, NEW i \in Nat, i <= n, i % 2 = 0
    PROVE  i <= n - (n % 2)
  OBVIOUS

\* Where nothing is owed behind the delivered units, they hold all that is owed.
LEMMA OwedArrived ==
    ASSUME NEW d \in Directions, fed[d] \in Seq(Units), got[d] \in Seq(Units), At(got[d], 0, fed[d]),
           Settled(d, Size(got[d]))
    PROVE  IsPrefix(Owed(d), got[d])
<1> DEFINE f == fed[d]
           g == Size(got[d])
           s == IF Framed THEN Whole(f) ELSE f
           c == {i \in 1..Len(s) : s[i].kind = "close" /\ i % FrameSize = 0}
<1>1. g \in Nat /\ Size(f) \in Nat /\ g <= Size(f) /\ f \in Seq(Units)
  <2>1. 0 + g <= Size(f) /\ g \in Nat /\ Size(f) \in Nat
    BY DEF At, Size
  <2> QED
    BY <2>1
<1>2. /\ s \in Seq(Units) /\ Size(s) \in Nat /\ Size(s) <= Size(f)
      /\ \A i \in 1..Size(s) : s[i] = f[i]
      /\ Framed => Size(s) = Size(f) - (Size(f) % 2)
      /\ ~Framed => Size(s) = Size(f)
  <2>1. CASE Framed
    <3>1. Whole(f) \in Prefixes(f) /\ Whole(f) \in Seq(Units) /\ Size(Whole(f)) \in Nat
      BY <1>1, WholeFacts
    <3>2. Size(Whole(f)) <= Size(f) /\ \A i \in 1..Size(Whole(f)) : Whole(f)[i] = f[i]
      BY <1>1, <3>1, PrefixFacts
    <3>3. Size(Whole(f)) = Size(f) - (Size(f) % 2)
      <4> DEFINE n == Size(f) - (Size(f) % 2)
      <4>1. n \in 0..Size(f) /\ n \in Nat
        BY <1>1
      <4>2. Whole(f) = SubSeq(f, 1, n)
        BY DEF Whole, Size, FrameSize
      <4> HIDE DEF n
      <4>3. Size(SubSeq(f, 1, n)) = n - 1 + 1
        BY <1>1, <4>1, SubFacts
      <4>4. Size(Whole(f)) = n
        BY <4>1, <4>2, <4>3
      <4> QED
        BY <4>4 DEF n
    <3> QED
      BY <2>1, <3>1, <3>2, <3>3
  <2>2. CASE ~Framed
    BY <1>1, <2>2
  <2> QED
    BY <2>1, <2>2
<1>3. Owed(d) = IF Framed /\ c # {} THEN SubSeq(s, 1, CHOOSE i \in c : \A j \in c : i <= j) ELSE s
  BY DEF Owed
<1> HIDE DEF f, s
<1>4. c \subseteq Nat /\ \A i \in c : i \in 1..Size(s)
  BY <1>2 DEF Size
<1>5. Framed /\ CloseIn(f, g) => \E i \in c : i <= g
  <2>1. SUFFICES ASSUME Framed, CloseIn(f, g) PROVE \E i \in c : i <= g
    OBVIOUS
  <2>2. PICK i \in 1..g : i <= Size(f) /\ i % 2 = 0 /\ f[i].kind = "close"
    BY <2>1 DEF CloseIn
  <2>3. i <= Size(s)
    <3>1. i <= Size(f) - (Size(f) % 2)
      BY <1>1, <2>2, EvenBelow
    <3> QED
      BY <1>2, <2>1, <3>1
  <2>4. i \in 1..Size(s)
    BY <1>2, <2>2, <2>3
  <2>5. i \in c
    BY <1>2, <2>2, <2>4 DEF Size, FrameSize
  <2> QED
    BY <1>1, <2>2, <2>5
<1>6. AllIn(f, g, mode) => Size(s) <= g
  <2>1. CASE g = Size(f)
    BY <1>2, <2>1
  <2>2. CASE FramedMode(mode) /\ g % 2 = 0 /\ g + 1 = Size(f)
    <3>1. Framed
      BY <2>2 DEF Framed, FramedMode
    <3>2. \A n \in Nat : n % 2 = 0 => (n + 1) - ((n + 1) % 2) <= n
      <4>1. \A n \in Nat : n % 2 = 0 => (n + 1) % 2 = 1
        OBVIOUS
      <4>2. \A n \in Nat : (n + 1) - 1 <= n
        OBVIOUS
      <4> QED
        BY <4>1, <4>2
    <3>3. (g + 1) - ((g + 1) % 2) <= g
      BY <1>1, <2>2, <3>2
    <3> QED
      BY <1>2, <2>2, <3>1, <3>3
  <2> QED
    BY <2>1, <2>2 DEF AllIn
<1>7. (Framed /\ CloseIn(f, g)) \/ Size(s) <= g
  BY <1>6 DEF Settled, f
<1>8. ASSUME NEW m \in 0..Size(s), m <= g, Owed(d) = SubSeq(s, 1, m)
      PROVE  IsPrefix(Owed(d), got[d])
  <2>0. m \in Nat
    BY <1>2
  <2>1. /\ Owed(d) \in Seq(Units) /\ Size(Owed(d)) = m - 1 + 1
        /\ \A i \in 1..(m - 1 + 1) : Owed(d)[i] = s[1 + i - 1]
    BY <1>2, <1>8, <2>0, SubFacts
  <2>2. Size(Owed(d)) = m
    BY <2>0, <2>1
  <2>3. ASSUME NEW i \in 1..m PROVE Owed(d)[i] = got[d][0 + i]
    <3>1. i \in 1..(m - 1 + 1) /\ 1 + i - 1 = i /\ 0 + i = i /\ i \in 1..Size(s) /\ i \in 1..g
      BY <1>1, <1>2, <1>8, <2>0
    <3>2. got[d][i] = f[0 + i]
      BY <3>1 DEF At, f
    <3> QED
      BY <1>2, <2>1, <3>1, <3>2
  <2>4. 0 + m <= g
    BY <1>8, <2>0
  <2>5. At(Owed(d), 0, got[d])
    BY <2>2, <2>3, <2>4 DEF At
  <2> QED
    BY <2>1, <2>5, AtPrefix
<1>9. CASE Framed /\ c # {}
  <2>1. \E i \in c : \A j \in c : i <= j
    BY <1>4, <1>9, Least
  <2> DEFINE m == CHOOSE i \in c : \A j \in c : i <= j
  <2>2. m \in c /\ \A j \in c : m <= j
    BY <2>1
  <2>3. Owed(d) = SubSeq(s, 1, m)
    BY <1>3, <1>9
  <2> HIDE DEF m, c
  <2>4. m \in 0..Size(s) /\ m \in Nat
    BY <1>2, <1>4, <2>2
  <2>5. m <= g
    <3>1. CASE Framed /\ CloseIn(f, g)
      <4>1. PICK i \in c : i <= g
        BY <1>5, <3>1
      <4>2. i \in Nat /\ m <= i
        BY <1>4, <2>2
      <4> QED
        BY <1>1, <2>4, <4>1, <4>2
    <3>2. CASE Size(s) <= g
      BY <1>1, <1>2, <2>4, <3>2
    <3> QED
      BY <1>7, <3>1, <3>2
  <2> QED
    BY <1>8, <2>3, <2>4, <2>5
<1>10. CASE ~(Framed /\ c # {})
  <2>1. Owed(d) = s
    BY <1>3, <1>10
  <2>2. s = SubSeq(s, 1, Size(s)) /\ Size(s) \in 0..Size(s)
    BY <1>2 DEF Size
  <2>3. Size(s) <= g
    BY <1>5, <1>7, <1>10
  <2> QED
    BY <1>8, <2>1, <2>2, <2>3
<1> QED
  BY <1>9, <1>10

\* An orderly end leaves nothing owed, but for what close_notify overtook.
LEMMA OrderlyEndSettled ==
    ASSUME RelayInv, NEW d \in Directions, eof[d], Orderly(d), cut[d] = 0
    PROVE  Settled(d, Size(got[d]))
<1>0. /\ StreamTypes /\ FlagTypes /\ ControlTypes /\ Shape(d) /\ Ends(d)
  BY DirFacts
<1>1. OrderlyEnds(d) /\ (closeSeen[d] => Framed /\ CloseIn(fed[d], Size(got[d]) + Size(pend[d])))
  BY <1>0 DEF Ends
<1>2. /\ Size(got[d]) \in Nat /\ Size(<<>>) = 0
      /\ pend[d] = <<>> => Size(got[d]) + Size(pend[d]) = Size(got[d])
  <2>1. Size(got[d]) \in Nat /\ Size(<<>>) = 0
    BY <1>0, Sizes DEF Size
  <2> QED
    BY <2>1
<1>3. CASE Threaded
  BY <1>0, <1>1, <1>3 DEF Shape, OrderlyEnds
<1>4. CASE mode = "wsnb"
  <2>1. pend[d] = <<>> /\ (closed[d] \/ closeSeen[d])
    BY <1>1, <1>4 DEF OrderlyEnds
  <2>2. CASE closed[d]
    BY <1>1, <1>2, <1>4, <2>1, <2>2 DEF OrderlyEnds
  <2>3. CASE closeSeen[d]
    BY <1>1, <1>2, <2>1, <2>3 DEF Settled
  <2> QED
    BY <2>1, <2>2, <2>3
<1>5. CASE mode = "tls" /\ d = "down"
  <2>1. pc = "done"
    BY <1>0, <1>5 DEF Shape
  <2>2. closed[d] /\ pend[d] = <<>>
    BY <1>1, <1>5, <2>1 DEF OrderlyEnds
  <2> QED
    BY <1>1, <1>2, <1>5, <2>2 DEF OrderlyEnds
<1>6. CASE TlsUp(d)
  BY <1>1, <1>6 DEF OrderlyEnds, Settled, AllIn
<1> QED
  BY <1>0, <1>3, <1>4, <1>5, <1>6 DEF ControlTypes, Modes, Threaded, TlsUp, Directions

\* In every reachable state, for any traffic, an end that is not the result of a
\* failure hides no loss: everything owed has arrived, has been counted and, up
\* to the cap, recorded, except for what the TLS relay's close_notify overtook
\* (tunnel.rs:153).
THEOREM LossFree == Spec => []NoSilentLoss
<1>1. RelayInv => NoSilentLoss
  <2>1. SUFFICES ASSUME RelayInv, NEW d \in Directions, eof[d], Orderly(d)
                 PROVE  /\ IsPrefix(Owed(d), got[d]) \/ cut[d] > 0
                        /\ counted[d] >= Len(got[d])
                        /\ Framed /\ Len(records) < RecordCap =>
                             \A i \in 1..Len(got[d]) :
                                 i % FrameSize = 0 => <<d, i>> \in ToSet(records)
    BY DEF NoSilentLoss
  <2>2. /\ StreamTypes /\ FlagTypes /\ Held(d) /\ Reported(d) /\ Logged(d)
        /\ fed[d] \in Seq(Units) /\ got[d] \in Seq(Units) /\ cut[d] \in Nat
    BY <2>1, DirFacts, Sizes DEF FlagTypes
  <2>3. ASSUME cut[d] = 0 PROVE IsPrefix(Owed(d), got[d])
    <3>1. Settled(d, Size(got[d])) /\ At(got[d], 0, fed[d])
      BY <2>1, <2>2, <2>3, OrderlyEndSettled DEF Held
    <3> QED
      BY <2>2, <3>1, OwedArrived
  <2>4. ASSUME cut[d] # 0 PROVE cut[d] > 0
    BY <2>2, <2>4
  <2>5. counted[d] >= Len(got[d])
    BY <2>2 DEF Reported, Size
  <2>6. ASSUME Framed, Len(records) < RecordCap, NEW i \in 1..Len(got[d]), i % FrameSize = 0
        PROVE  <<d, i>> \in ToSet(records)
    <3>1. LoggedIn(records, d, Size(got[d]) + IF mode = "wsnb" THEN Size(pend[d]) ELSE 0)
      BY <2>2, <2>6 DEF Logged, Size
    <3>2. Size(got[d]) \in Nat /\ Size(pend[d]) \in Nat /\ i \in 1..Size(got[d]) /\ i % 2 = 0
      BY <2>2, <2>6, Sizes DEF Size, FrameSize
    <3>3. i \in 1..(Size(got[d]) + IF mode = "wsnb" THEN Size(pend[d]) ELSE 0)
      BY <3>2
    <3> QED
      BY <3>1, <3>2, <3>3 DEF LoggedIn
  <2> QED
    BY <2>3, <2>4, <2>5, <2>6
<1> QED
  BY <1>1, RelayInvariant, PTL
=============================================================================
