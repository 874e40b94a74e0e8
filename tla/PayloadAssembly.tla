-------------------------- MODULE PayloadAssembly --------------------------
(* How libuvc puts the payloads of a video stream together to frames         *)
(* (libuvc/src/stream.c: _uvc_process_payload for a bulk endpoint,           *)
(* _uvc_process_payload_iso for an isochronous one, _uvc_swap_buffers).      *)
(* The camera sends the payloads of one frame after another; the headers     *)
(* carry a frame ID bit (FID) that toggles with each frame and, with most    *)
(* cameras, an end of frame bit (EOF) in the last.  On the way a payload may *)
(* be lost or damaged.                                                       *)
EXTENDS Integers, Sequences

CONSTANTS
    Parts,        \* data payloads of a frame
    Size,         \* size_buf, in payloads
    MaxFrame,     \* bound: frames the camera sends
    Faults        \* what may happen to a payload on its way

(* do_preview asks for buffers that are larger than a frame. *)
ASSUME SizesAssumption ==
    Parts \in Nat \ {0} /\ Size \in Nat /\ Parts < Size /\ MaxFrame \in Nat
ASSUME FaultsAssumption == Faults \subseteq {"lost", "error_bit", "bogus"}

VARIABLES
    strmh,        \* fid, outbuf (whose length is got_bytes), bfh_err, and
                  \* swapped: all that was in holdbuf, with hold_bfh_err
    isochronous,  \* the endpoint, and so which of the two functions runs
    usesEof,      \* whether this camera sets EOF
    at,           \* the payload the camera sends next
    arrived,      \* the payloads that arrived undamaged (history)
    skipped,      \* a payload came with the error bit (history)
    aborted       \* an assertion failed and ended the process

vars == <<strmh, isochronous, usesEof, at, arrived, skipped, aborted>>

Payload == (1 .. MaxFrame) \X (1 .. Parts)
Fid(frame) == frame % 2

(* A stream may be joined in the middle of a frame, of either FID. *)
Init ==
    /\ strmh = [fid |-> 0, outbuf |-> <<>>, bfh_err |-> FALSE, swapped |-> <<>>]
    /\ isochronous \in BOOLEAN /\ usesEof \in BOOLEAN
    /\ at \in (1 .. 2) \X (1 .. Parts)
    /\ arrived = {}
    /\ skipped = FALSE /\ aborted = FALSE

-----------------------------------------------------------------------------
(* The steps of the two functions, as functions of the stream handle.  A     *)
(* packet is [frame, part, data, eof]; only its FID tells its frame.         *)

(* Mutants: the swap forgets to empty the buffer, or to clear the error. *)
SwapOnly(s) ==
    [s EXCEPT !.swapped = Append(s.swapped, [data |-> s.outbuf, err |-> s.bfh_err]),
              !.bfh_err = FALSE]
SwapKeepingError(s) ==
    [s EXCEPT !.swapped = Append(s.swapped, [data |-> s.outbuf, err |-> s.bfh_err]),
              !.outbuf  = <<>>]

(* _uvc_swap_buffers *)
SwapBuffers(s) ==
    [s EXCEPT !.swapped = Append(s.swapped, [data |-> s.outbuf, err |-> s.bfh_err]),
              !.outbuf  = <<>>,
              !.bfh_err = FALSE]

MarkError(s) == [s EXCEPT !.bfh_err = TRUE]

(* The FID flipped with data of the frame before in the buffer: publish it. *)
Toggle(s, p) ==
    [(IF s.fid # Fid(p.frame) /\ s.outbuf # <<>> THEN SwapBuffers(s) ELSE s)
        EXCEPT !.fid = Fid(p.frame)]

(* Mutant: an off-by-one. *)
FitsAlmost(s) == Len(s.outbuf) <= Size

Fits(s) == Len(s.outbuf) + 1 <= Size

(* The isochronous function asserts that a byte is left over. *)
AssertionFails(s, p) == isochronous /\ p.data /\ Len(s.outbuf) + 1 >= Size

Store(s, p) ==
    IF ~p.data THEN s
    ELSE IF Fits(s) THEN [s EXCEPT !.outbuf = Append(s.outbuf, <<p.frame, p.part>>)]
    ELSE MarkError(s)

(* Publish at EOF: isochronous with any data, bulk with this payload's. *)
Publishes(s, p) == p.eof /\ (IF isochronous THEN s.outbuf # <<>> ELSE p.data)
EndFrame(s, p) == IF Publishes(s, p) THEN SwapBuffers(s) ELSE s

(* A bogus packet is shorter than its header says: only the isochronous      *)
(* function has evaluated the header by then.                                *)
Bogus(s, p) == MarkError(IF isochronous THEN Toggle(s, p) ELSE s)

(* Mutant: a bad packet status does not mark the frame. *)
LostUnmarked(s) == s

(* A lost isochronous packet has a status of its own; a bulk transfer that   *)
(* fails is retried and nothing is processed.                                *)
Lost(s) == IF isochronous THEN MarkError(s) ELSE s

(* The error bit of the header: bulk goes on, isochronous skips the packet.  *)
SkipsErrorBit == isochronous

-----------------------------------------------------------------------------
Following(p) == IF p[2] < Parts THEN <<p[1], p[2] + 1>> ELSE <<p[1] + 1, 1>>

Packet == [frame |-> at[1], part |-> at[2], data |-> TRUE,
           eof |-> usesEof /\ at[2] = Parts]

Sending == ~aborted /\ at[1] <= MaxFrame

Arrives ==
    /\ arrived' = arrived \union {at}
    /\ at' = Following(at)
    /\ UNCHANGED <<isochronous, usesEof, skipped>>

GoesMissing(kind) ==
    /\ kind \in Faults
    /\ at' = Following(at)
    /\ skipped' = (skipped \/ kind = "error_bit")
    /\ UNCHANGED <<isochronous, usesEof, arrived, aborted>>

ReceiveData ==
    /\ Sending
    /\ LET s == Toggle(strmh, Packet) IN
       IF AssertionFails(s, Packet)
       THEN /\ aborted' = TRUE
            /\ UNCHANGED <<strmh, isochronous, usesEof, at, arrived, skipped>>
       ELSE /\ strmh' = EndFrame(Store(s, Packet), Packet)
            /\ Arrives
            /\ UNCHANGED aborted

LosePacket ==
    /\ Sending
    /\ strmh' = Lost(strmh)
    /\ GoesMissing("lost")

(* In bulk the data counts in spite of the error bit. *)
ReceiveErrorBit ==
    /\ Sending /\ SkipsErrorBit
    /\ GoesMissing("error_bit")
    /\ UNCHANGED strmh

ReceiveBogus ==
    /\ Sending
    /\ strmh' = Bogus(strmh, Packet)
    /\ GoesMissing("bogus")

(* Between packets with data a camera may send headers alone, which belong   *)
(* to the frame under way or, between two frames, to either.                 *)
ReceiveHeader ==
    /\ Sending
    /\ \E frame \in {at[1]} \union (IF at[2] = 1 THEN {at[1] - 1} ELSE {}) :
         LET p == [frame |-> frame, part |-> at[2], data |-> FALSE,
                   eof |-> usesEof /\ frame < at[1]]
         IN  strmh' = EndFrame(Toggle(strmh, p), p)
    /\ UNCHANGED <<isochronous, usesEof, at, arrived, skipped, aborted>>

Next ==
    \/ ReceiveData \/ ReceiveHeader
    \/ LosePacket \/ ReceiveErrorBit \/ ReceiveBogus

Spec == Init /\ [][Next]_vars

-----------------------------------------------------------------------------
(* Properties *)

Frame == [data : Seq(Payload), err : BOOLEAN]
Handle == [fid : 0 .. 1, outbuf : Seq(Payload), bfh_err : BOOLEAN,
           swapped : Seq(Frame)]

(* Every variable keeps to its type, and the buffer to its size.            *)
TypeOK ==
    /\ strmh \in Handle
    /\ Len(strmh.outbuf) <= Size
    /\ isochronous \in BOOLEAN /\ usesEof \in BOOLEAN
    /\ at \in (1 .. MaxFrame + 2) \X (1 .. Parts)
    /\ arrived \subseteq Payload
    /\ skipped \in BOOLEAN /\ aborted \in BOOLEAN

(* The payloads first to last of one frame, in order *)
Run(frame, first, last) ==
    [i \in 1 .. last - first + 1 |-> <<frame, first + i - 1>>]

Good == {i \in DOMAIN strmh.swapped : ~strmh.swapped[i].err}

(* On an isochronous endpoint, as long as no packet had the error bit, a    *)
(* frame handed over without the error mark is one camera frame, whole from *)
(* some payload to its last: no other frame's data, no hole, no end cut     *)
(* off, whatever packets are lost or bogus.                                 *)
GoodFrameHasNoHole ==
    isochronous /\ ~skipped =>
        \A i \in Good : \E frame \in 1 .. MaxFrame, first \in 1 .. Parts :
            strmh.swapped[i].data = Run(frame, first, Parts)

(* Payloads are handed over in the order of the camera and none twice, from *)
(* one frame to the next and within each frame, marked or not.              *)
FramesInOrder ==
    \A i, j \in DOMAIN strmh.swapped :
        \A x \in DOMAIN strmh.swapped[i].data, y \in DOMAIN strmh.swapped[j].data :
            LET p == strmh.swapped[i].data[x]
                q == strmh.swapped[j].data[y]
            IN  i < j \/ (i = j /\ x < y)
                    => p[1] < q[1] \/ (p[1] = q[1] /\ p[2] < q[2])

Whole(frame) == {frame} \X (1 .. Parts)

(* A frame that arrived whole, after one whose end arrived, is handed over  *)
(* as it is and without the error mark, once its end is known.              *)
WholeFrameIsPublished ==
    \A frame \in 2 .. MaxFrame :
        /\ Whole(frame) \union {<<frame - 1, Parts>>} \subseteq arrived
        /\ usesEof \/ <<frame + 1, 1>> \in arrived
        => \E i \in Good : strmh.swapped[i].data = Run(frame, 1, Parts)
=============================================================================
