------------------------------ MODULE RtpVideo ------------------------------
(***************************************************************************)
(* H.264 and H.265 over RTP: access units are cut into packets                *)
(* (h264/payloader.go, h265/payloader.go), the packets may be lost, doubled   *)
(* or swapped on their way, and RTPDepay joins what arrives into access units *)
(* again (h264/rtp.go, h265/rtp.go).  A NAL unit has a type and a number of   *)
(* body units, which are numbered so that a joined NAL shows where its pieces *)
(* come from.  The parts of an access unit come in the order the codecs       *)
(* prescribe: parameter sets, SEI, slices.                                    *)
(***************************************************************************)
EXTENDS Integers, FiniteSetsExt, SequencesExt

CONSTANTS Mtu,             \* units of a packet, without the RTP header
          SliceSizes,      \* body units of a slice
          MaxUnits,        \* bound: access units
          MaxWaiting,      \* bound: packets under way when the next unit is sent
          SeqNums,         \* sequence numbers wrap at 2^16
          MaxFaults        \* bound: packets lost, doubled or swapped

VARIABLES codec, marks,    \* "h264", "h265"; the sender marks parameter sets, too
          units,           \* the access units that went out
          pending,         \* Payloader.stapANalu
          seq, wire,       \* the sequencer; packets under way
          fua,             \* the FU-A buffer of pion's H264Packet
          buf, seqNum,     \* the unit under collection; the number of its last packet
          out, faults      \* what the handler got

sender == <<units, pending, seq>>
receiver == <<fua, buf, seqNum, out>>
vars == <<codec, marks, sender, wire, receiver, faults>>

Nal(t, n) == [type |-> t, size |-> n]
Heads == {<<>>, <<Nal("ps", 1)>>, <<Nal("sei", 1)>>, <<Nal("ps", 1), Nal("sei", 1)>>}
Slices(t) == {<<Nal(t, n)>> : n \in SliceSizes} \cup {<<Nal(t, 1), Nal(t, Max(SliceSizes))>>}
AccessUnits == {h \o s : h \in Heads, s \in Slices("key") \cup Slices("delta")}

Init ==
    /\ codec \in {"h264", "h265"} /\ marks \in BOOLEAN
    /\ units = <<>> /\ pending = <<>> /\ seq = SeqNums - 1 /\ wire = <<>>
    /\ fua = <<>> /\ buf = <<>> /\ seqNum = 0 /\ out = <<>> /\ faults = 0
-----------------------------------------------------------------------------
\* The sender.  A NAL unit on the wire knows its access unit and its place there.

Header == IF codec = "h264" THEN 1 ELSE 2    \* of a NAL unit
NalsOf(k, unit) == [i \in DOMAIN unit |-> [unit |-> k, at |-> i, type |-> unit[i].type,
                      body |-> [j \in 1..unit[i].size |-> <<k, i, j>>]]]
Nals(k) == NalsOf(k, units[k])
Length(n) == Header + Len(n.body)
Total(nals) == FoldSeq(LAMBDA n, x : x + 2 + Length(n), 0, nals)

Single(n) == [kind |-> "single", nals |-> <<n>>, part |-> "whole", size |-> Length(n)]
\* STAP-A of H.264, aggregation packet of H.265: a header, and a length for each.
Several(nals) == [kind |-> "several", nals |-> nals, part |-> "whole", size |-> Header + Total(nals)]

\* Fragments: the NAL header goes into the fragment header.
Fragments(n) ==
    LET room == Mtu - (Header + 1)
        count == (Len(n.body) + room - 1) \div room
        Piece(i) == SubSeq(n.body, room * (i - 1) + 1, IF i = count THEN Len(n.body) ELSE room * i)
    IN  [i \in 1..count |-> [kind |-> "fu", nals |-> <<[n EXCEPT !.body = Piece(i)]>>,
            part |-> IF i = 1 THEN "begin" ELSE IF i = count THEN "end" ELSE "cont",
            size |-> Header + 1 + Len(Piece(i))]]

\* Payloader of H.264: parameter sets wait for the NAL unit that follows them.
EmitNalus(x, n) ==
    IF n.type = "ps" THEN [x EXCEPT !.held = Append(@, n)]
    ELSE LET stap == IF x.held # <<>> /\ 1 + Total(x.held) <= Mtu THEN <<Several(x.held)>> ELSE <<>>
             own == IF Length(n) <= Mtu THEN <<Single(n)>> ELSE Fragments(n)
         IN  [held |-> <<>>, payloads |-> x.payloads \o stap \o own]

\* Payloader of H.265: small NAL units are collected while they fit together.
Flush(x) ==
    LET whole == IF x.held = <<>> THEN <<>>
                 ELSE IF Len(x.held) = 1 THEN <<Single(x.held[1])>> ELSE <<Several(x.held)>>
    IN  [held |-> <<>>, payloads |-> x.payloads \o whole]
Collect(x, n) ==
    IF Length(n) <= Mtu
    THEN LET room == Total(x.held) + Length(n) + 2 <= Mtu
             y == IF room THEN x ELSE Flush(x)
         IN  [y EXCEPT !.held = Append(@, n)]
    ELSE LET y == Flush(x) IN [y EXCEPT !.payloads = @ \o Fragments(n)]

Payload(nals) ==
    IF codec = "h264" THEN FoldLeft(EmitNalus, [held |-> pending, payloads |-> <<>>], nals)
    ELSE Flush(FoldLeft(Collect, [held |-> <<>>, payloads |-> <<>>], nals))

\* Some cameras mark the packets of parameter sets as well, and of SEI; RTPDepay of
\* H.265 does not survive the latter (it skips the packet and then misses a number).
Marked == IF codec = "h264" THEN {"ps", "sei"} ELSE {"ps"}

\* RTPPay: one access unit goes out, the marker on its last packet.
RTPPay(unit) ==
    LET x == Payload(NalsOf(Len(units) + 1, unit))
        last == Len(x.payloads)
    IN  /\ Len(units) < MaxUnits /\ Len(wire) <= MaxWaiting
        /\ units' = Append(units, unit)
        /\ pending' = x.held /\ seq' = (seq + last) % SeqNums
        /\ wire' = wire \o [i \in 1..last |->
             [p |-> x.payloads[i], seq |-> (seq + i) % SeqNums,
              marker |-> i = last \/ (marks /\ \A n \in Range(x.payloads[i].nals) : n.type \in Marked)]]
        /\ UNCHANGED <<codec, marks, receiver, faults>>
-----------------------------------------------------------------------------
\* The receiver.

Inserted == [unit |-> 0, at |-> 0, type |-> "ps", body |-> <<>>]   \* from the SDP
Join(nals, n) == Append(Front(nals), [Last(nals) EXCEPT !.body = @ \o n.body])

\* pion's H264Packet: fragments are collected until one has the end bit.
Unmarshal(p) ==
    IF p.kind # "fu" THEN p.nals
    ELSE IF p.part # "end" THEN <<>>
    ELSE <<[p.nals[1] EXCEPT !.body = fua \o @]>>

\* RTPDepay of H.264.
Depay264(m) ==
    LET nals == Unmarshal(m.p)
        Starts(t) == nals # <<>> /\ nals[1].type = t
        \* A unit starts with a slice or a parameter set, never with SEI.
        unit == IF buf # <<>> THEN buf \o nals
                ELSE IF Starts("key") THEN <<Inserted>> \o nals
                ELSE IF Starts("sei") THEN <<>> ELSE nals
    IN  /\ fua' = IF m.p.kind # "fu" THEN fua
                  ELSE IF m.p.part = "end" THEN <<>> ELSE fua \o m.p.nals[1].body
        /\ IF nals = <<>> \/ unit = <<>> \/ (m.marker /\ Starts("sei")) THEN UNCHANGED <<buf, out>>
           ELSE IF m.marker /\ ~Starts("ps") THEN buf' = <<>> /\ out' = Append(out, unit)
           ELSE buf' = unit /\ UNCHANGED out
        /\ UNCHANGED seqNum

NextInSequence(m) == (m.seq - seqNum) % SeqNums = 1

\* What RTPDepay of H.265 puts into its buffer; it does not take an aggregation
\* packet apart.
Collected(p) ==
    LET n == p.nals[1] IN
    CASE p.kind = "single" -> buf \o p.nals
      [] p.kind = "several" -> Append(buf, [n EXCEPT !.type = "several", !.body = p.nals])
      [] p.part = "begin" ->
            (IF buf = <<>> /\ n.type = "key" THEN <<Inserted>> ELSE buf) \o <<n>>
      [] OTHER -> IF buf = <<>> THEN <<>> ELSE Join(buf, n)
Is(p, t) == p.kind = "single" /\ p.nals[1].type = t
Finish(m, nals) ==
    /\ seqNum' = m.seq /\ UNCHANGED fua
    /\ IF m.marker /\ ~Is(m.p, "ps") /\ nals # <<>> THEN buf' = <<>> /\ out' = Append(out, nals)
       ELSE buf' = nals /\ UNCHANGED out

\* Mutant: a piece that was lost within a unit is not noticed.
Depay265Unchecked(m) == Finish(m, Collected(m.p))

\* RTPDepay of H.265: a gap in the sequence drops the unit under collection, and
\* the packet that showed it.
Depay265(m) ==
    IF m.marker /\ Is(m.p, "sei") THEN UNCHANGED receiver
    ELSE IF buf # <<>> /\ ~NextInSequence(m) THEN buf' = <<>> /\ UNCHANGED <<fua, seqNum, out>>
    ELSE Finish(m, Collected(m.p))

Depay(m) == IF codec = "h264" THEN Depay264(m) ELSE Depay265(m)

Deliver ==
    /\ wire # <<>> /\ Depay(Head(wire)) /\ wire' = Tail(wire)
    /\ UNCHANGED <<codec, marks, sender, faults>>
\* RTPDepay of H.264 does not look at the sequence numbers and promises nothing on a
\* path that loses packets.
Fault(next) ==
    /\ codec = "h265" /\ wire # <<>> /\ faults < MaxFaults /\ faults' = faults + 1 /\ wire' = next
    /\ UNCHANGED <<codec, marks, sender, receiver>>
Lose == Fault(Tail(wire))
Double == Fault(<<Head(wire)>> \o wire)
Swap == Len(wire) > 1 /\ Fault(<<wire[2], wire[1]>> \o SubSeq(wire, 3, Len(wire)))

Next == (\E unit \in AccessUnits : RTPPay(unit)) \/ Deliver \/ Lose \/ Double \/ Swap
Spec == Init /\ [][Next]_vars
-----------------------------------------------------------------------------
\* Every variable has its type.
TypeOK ==
    /\ codec \in {"h264", "h265"} /\ marks \in BOOLEAN /\ Len(units) \in 0..MaxUnits
    /\ seq \in 0..SeqNums - 1 /\ seqNum \in 0..SeqNums - 1 /\ faults \in 0..MaxFaults

\* The NAL units of what was handed on, out of aggregation packets, too.
Handed(i) == UNION {IF n.type = "several" THEN Range(n.body) ELSE {n} : n \in Range(out[i])}
IsSlice(n) == n.type \in {"key", "delta"}

\* A NAL unit that is handed on is one that was sent: never without a piece, never
\* glued from two (RTPDepay: "all of it falls into the same sequence").
NalsAreWhole ==
    \A i \in DOMAIN out : \A n \in Handed(i) : n = Inserted \/ n = Nals(n.unit)[n.at]

\* What is handed on together was one access unit: slices of two never meet.
UnitsStayApart ==
    \A i \in DOMAIN out : \A n, m \in Handed(i) :
                 IsSlice(n) /\ IsSlice(m) => n.unit = m.unit

\* On a path without faults every slice arrives, and once.
AllArrives ==
    (faults = 0 /\ wire = <<>>) =>
        \A k \in DOMAIN units : \A n \in Range(Nals(k)) :
            IsSlice(n) => Cardinality({i \in DOMAIN out : n \in Handed(i)}) = 1

\* A packet fits; one of several NAL units of H.265 may exceed the MTU by the two
\* units of its own header.
FitsMtu == \A m \in Range(wire) :
               m.p.size <= Mtu + (IF codec = "h265" /\ m.p.kind = "several" THEN 2 ELSE 0)

\* What the module promises.
Promise == []TypeOK /\ [](NalsAreWhole /\ UnitsStayApart /\ AllArrives /\ FitsMtu)
=============================================================================
