---------------------------- MODULE FfiBuffers -----------------------------
(***************************************************************************)
(* How a reply reaches a buffer of the caller: every FFI call that returns *)
(* a text copies as many of its bytes as fit, and a NUL byte after them;   *)
(* PHP reads the buffer up to the first NUL.  JSON texts have no NUL.      *)
(***************************************************************************)
EXTENDS Naturals, Sequences

CONSTANTS Bytes, Nul

ASSUME NulAssumption == Nul \in Bytes

Buffers(cap) == [0 .. cap - 1 -> Bytes]
Texts == Seq(Bytes \ {Nul})

MinOf(a, b) == IF a <= b THEN a ELSE b

(* Mutant: no room is kept for the NUL byte. *)
CopyLenFull(text, max) == MinOf(Len(text), max)

CopyLen(text, max) == MinOf(Len(text), max - 1)

CopyOut(buf, text, max) ==
  IF max = 0 THEN buf
  ELSE [i \in DOMAIN buf |->
          IF i < CopyLen(text, max) THEN text[i + 1]
          ELSE IF i = CopyLen(text, max) THEN Nul
          ELSE buf[i]]

(* text is what a reader of the buffer finds. *)
Reads(buf, text) ==
  /\ Len(text) \in DOMAIN buf
  /\ buf[Len(text)] = Nul
  /\ \A i \in 1 .. Len(text) : buf[i - 1] = text[i] /\ text[i] # Nul

(* A buffer of max bytes holds the whole text, or a piece that fills it: a *)
(* reader who finds less than max - 1 bytes has all of them, and one who   *)
(* finds max - 1 cannot tell a text of that length from one that was cut.  *)
WholeOrFull(buf, text, max) ==
  \/ Reads(buf, text)
  \/ Len(text) >= max /\ Reads(buf, SubSeq(text, 1, max - 1))
============================================================================
