---------------------------- MODULE DirectMedia ----------------------------
(***************************************************************************)
(* The deframer of the direct media connection (ezviz_direct_media.py): the   *)
(* camera sends private frames, TCP delivers their bytes in pieces of any     *)
(* size, and feed returns the media fragments that are complete.  A frame is  *)
(* a header (magic, type, length) of two units and a payload; a media payload *)
(* starts with a prefix of one unit.                                          *)
(***************************************************************************)
EXTENDS Integers, Sequences, SequencesExt

CONSTANTS MaxFrames, MaxPayload     \* bounds: frames of a connection, units of a payload

VARIABLES frames,         \* what the camera sends, in order
          arrived,        \* units that TCP has delivered
          reader          \* [buffer, media returned so far, status]

vars == <<frames, arrived, reader>>

Header == 2
Prefix == 1
\* "garbage" stands for what has no magic, "other" for an unknown type.
Frame == [type : {"session", "mismatch", "media", "other", "garbage"}, size : 0..MaxPayload]
Wire == FlattenSeq([k \in DOMAIN frames |-> [i \in 1..Header + frames[k].size |-> <<k, i>>]])

Init == /\ frames \in UNION {[1..n -> Frame] : n \in 0..MaxFrames}
        /\ arrived = 0 /\ reader = [buffer |-> <<>>, media |-> <<>>, status |-> "new"]

Connect == /\ reader.status = "new" /\ reader' = [reader EXCEPT !.status = "open"]
           /\ UNCHANGED <<frames, arrived>>
-----------------------------------------------------------------------------
\* What feed does with a whole frame k: an error, or the fragment to return.
Refused(k) == \/ frames[k].type \notin {"session", "media"}
              \/ frames[k].type = "media" /\ frames[k].size < Prefix
Fragment(k) == IF frames[k].type = "media" /\ frames[k].size > Prefix THEN <<k>> ELSE <<>>

\* Mutant: a frame that is not complete is dropped with the rest of its piece.
TakeFrameDrops(r) ==
    LET k == r.buffer[1][1]
        size == Header + frames[k].size
    IN  IF r.status # "open" \/ Len(r.buffer) < Header THEN r
        ELSE IF frames[k].type = "garbage" \/ r.buffer[1][2] # 1 THEN [r EXCEPT !.status = "error"]
        ELSE IF Len(r.buffer) < size THEN [r EXCEPT !.buffer = <<>>]
        ELSE IF Refused(k) THEN [r EXCEPT !.buffer = SubSeq(@, size + 1, Len(@)), !.status = "error"]
        ELSE [r EXCEPT !.buffer = SubSeq(@, size + 1, Len(@)), !.media = @ \o Fragment(k)]

\* One turn of the loop of feed.
TakeFrame(r) ==
    LET k == r.buffer[1][1]
        size == Header + frames[k].size
    IN  IF r.status # "open" \/ Len(r.buffer) < Header THEN r
        ELSE IF frames[k].type = "garbage" \/ r.buffer[1][2] # 1 THEN [r EXCEPT !.status = "error"]
        ELSE IF Len(r.buffer) < size THEN r
        ELSE IF Refused(k) THEN [r EXCEPT !.buffer = SubSeq(@, size + 1, Len(@)), !.status = "error"]
        ELSE [r EXCEPT !.buffer = SubSeq(@, size + 1, Len(@)), !.media = @ \o Fragment(k)]

\* feed(data): an error loses what this call had found before it.
Feed(n) ==
    /\ reader.status = "open" /\ arrived + n <= Len(Wire) /\ arrived' = arrived + n
    /\ LET before == [reader EXCEPT !.buffer = @ \o SubSeq(Wire, arrived + 1, arrived')]
           after == FoldLeft(LAMBDA r, i : TakeFrame(r), before, [i \in 1..MaxFrames |-> i])
       IN  reader' = IF after.status = "error" THEN [after EXCEPT !.media = reader.media] ELSE after
    /\ UNCHANGED frames

\* finish(): the connection may not end within a frame.
Finish ==
    /\ reader.status = "open"
    /\ reader' = [reader EXCEPT !.status = IF reader.buffer # <<>> THEN "error" ELSE "ended"]
    /\ UNCHANGED <<frames, arrived>>

Next == Connect \/ Finish \/ \E n \in 1..(MaxFrames * (Header + MaxPayload)) : Feed(n)
Spec == Init /\ [][Next]_vars
-----------------------------------------------------------------------------
\* The frames that are complete after n units, up to the first that is refused.
Whole(n) == {k \in DOMAIN frames :
                /\ \A j \in 1..k : ~Refused(j)
                /\ \E i \in 1..n : Wire[i] = <<k, Header + frames[k].size>>}
Expected(n) == SelectSeq([k \in DOMAIN frames |-> k], LAMBDA k : k \in Whole(n) /\ Fragment(k) # <<>>)

\* However TCP cuts the bytes: without an error everything that is complete was
\* returned, once and in order; with one, nothing behind the refused frame was.
SplitDoesNotMatter ==
    /\ reader.status \in {"open", "ended"} => reader.media = Expected(arrived)
    /\ IsPrefix(reader.media, Expected(arrived))

\* A connection that ends well ends between two frames that were all accepted.
EndsWhole == reader.status = "ended" => \A k \in DOMAIN frames :
                (\E i \in 1..arrived : Wire[i][1] = k) => k \in Whole(arrived)

\* What was handed on is never taken back, and nothing follows an error.
Monotone == [][IsPrefix(reader.media, reader'.media)
               /\ (reader.status \in {"error", "ended"} => reader' = reader)]_vars

\* What the module promises.
Promise == [](SplitDoesNotMatter /\ EndsWhole) /\ Monotone
=============================================================================
