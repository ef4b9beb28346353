----------------------------- MODULE TtyDecoder -----------------------------
(***************************************************************************)
(* The decoder of escape sequences of src/platform/tty_decoder.c.  Bytes   *)
(* are numbers below 256; the digits of a number n are the one symbol      *)
(* Num(n).  A decoder is [pending, last]: the bytes not yet decoded   *)
(* and the column of the last pointer report (all are of the same row).    *)
(* The operators that decode return [event, dec].                          *)
(***************************************************************************)
EXTENDS Integers, Sequences

CONSTANT Capacity        \* sizeof(decoder->pending), 64 in the code

ASSUME CapacityAssumption == Capacity \in Nat \ {0}

Esc       == 27
Semicolon == 59
Less      == 60
Bracket   == 91
Press     == 77          \* M, ends the report of a press or of motion
Release   == 109         \* m
Num(n)    == 256 + n
Finals    == 64 .. 126   \* bytes that end a control sequence

NoEvent == [kind |-> "none"]
Char(byte)          == [kind |-> "char", byte |-> byte]
Key(code, mods)     == [kind |-> "key", code |-> code, mods |-> mods]
Pointer(flags, col) == [kind |-> "mouse", flags |-> flags, x |-> col]

NewDecoder == [pending |-> <<>>, last |-> -1]

\* The first place in s of a member of S, 0 if there is none.
First(s, S) ==
  LET places == {i \in DOMAIN s : s[i] \in S}
  IN  IF places = {} THEN 0 ELSE CHOOSE i \in places : \A j \in places : i <= j

Starts(s, prefix) ==
  Len(s) >= Len(prefix) /\ SubSeq(s, 1, Len(prefix)) = prefix

Consume(dec, n) == [dec EXCEPT !.pending = SubSeq(@, n + 1, Len(@))]

Incomplete(dec) == [event |-> NoEvent, dec |-> dec]

\* Mutant: a sequence that means nothing stays.
RejectKept(dec, end) == [event |-> NoEvent, dec |-> dec]

\* The bytes up to end mean nothing.
Reject(dec, end) == [event |-> NoEvent, dec |-> Consume(dec, end)]

\* Bytes that do not fit are dropped.
AppendBytes(dec, bytes) ==
  LET space == Capacity - Len(dec.pending)
  IN  [dec EXCEPT !.pending = @ \o SubSeq(bytes, 1, IF Len(bytes) > space THEN space ELSE Len(bytes))]

\* The numbers of "n;n;...;n", or <<>> if s is not of this form.
Numbers(s) ==
  IF /\ Len(s) % 2 = 1
     /\ \A i \in DOMAIN s : IF i % 2 = 0 THEN s[i] = Semicolon ELSE s[i] >= Num(0)
    THEN [i \in 1 .. (Len(s) + 1) \div 2 |-> s[2 * i - 1] - Num(0)]
    ELSE <<>>

-----------------------------------------------------------------------------
\* Pointer reports, "Esc [ < button ; x ; y M".
StartsMouse(dec) == Starts(dec.pending, <<Esc, Bracket, Less>>)

Bit(n, weight) == (n \div weight) % 2 = 1

\* What report n of column x says.  A release is always a click as well,
\* and motion with the button held one more press.
MouseFlags(n, release) ==
  LET button == n % 4
      motion == Bit(n, 32)
  IN  IF Bit(n, 64) THEN {IF Bit(n, 1) THEN "scroll_down" ELSE "scroll_up"}
      ELSE IF button = 2
        THEN IF release THEN {"right_clicked"}
             ELSE {"right_pressed"} \cup (IF motion THEN {} ELSE {"right_clicked"})
      ELSE IF button = 1 THEN {}
      ELSE IF release \/ button = 3
        THEN {"released"} \cup (IF motion THEN {} ELSE {"clicked"})
      ELSE {"pressed"}

DecodeMouse(dec) ==
  LET end  == First(dec.pending, {Press, Release})
      nums == Numbers(SubSeq(dec.pending, 4, end - 1))
      col  == IF nums[2] > 0 THEN nums[2] - 1 ELSE 0
      rest == Consume(dec, end)
  IN  IF ~StartsMouse(dec) \/ Len(dec.pending) < 6 THEN Incomplete(dec)
      ELSE IF end = 0
        THEN IF Len(dec.pending) = Capacity THEN Reject(dec, 1) ELSE Incomplete(dec)
      ELSE IF Len(nums) # 3 THEN Reject(dec, end)
      ELSE [event |-> Pointer(MouseFlags(nums[1], dec.pending[end] = Release)
                                \cup (IF col # dec.last THEN {"moved"} ELSE {}), col),
            dec   |-> [rest EXCEPT !.last = col]]

-----------------------------------------------------------------------------
\* Keys, "Esc [ parameters letter".
ArrowKeys == [b \in 65 .. 68 |-> <<"up", "down", "right", "left">>[b - 64]]

Modifiers(n) ==
  IF n \notin 2 .. 8 THEN {}
  ELSE {m \in {"shift", "alt", "ctrl"} :
          Bit(n - 1, CASE m = "shift" -> 1 [] m = "alt" -> 2 [] m = "ctrl" -> 4)}

DecodeCsiKey(dec) ==
  LET end    == First(SubSeq(dec.pending, 3, Len(dec.pending)), Finals) + 2
      params == SubSeq(dec.pending, 3, end - 1)
      nums   == Numbers(params)
      mods   == IF Len(nums) >= 2 THEN Modifiers(nums[Len(nums)]) ELSE {}
      known  == /\ dec.pending[end] \in DOMAIN ArrowKeys
                /\ \/ params = <<>>
                   \/ nums = <<1>>
                   \/ Len(nums) >= 2 /\ mods # {}
  IN  IF end = 2
        THEN IF Len(dec.pending) = Capacity THEN Reject(dec, Capacity) ELSE Incomplete(dec)
      ELSE IF ~known THEN Reject(dec, end)
      ELSE [event |-> Key(ArrowKeys[dec.pending[end]], mods), dec |-> Consume(dec, end)]

-----------------------------------------------------------------------------
ByteKey(b) == Char(IF b = 13 THEN 10 ELSE b)

\* tty_decoder_decode: at most one event; a malformed or unknown sequence is
\* consumed and gives none.
Decode(dec) ==
  LET mouse == DecodeMouse(dec)
      rest  == mouse.dec
  IN  IF mouse.event # NoEvent \/ rest.pending = <<>> \/ StartsMouse(rest) THEN mouse
      ELSE IF Starts(rest.pending, <<Esc, Bracket>>) THEN DecodeCsiKey(rest)
      ELSE [event |-> ByteKey(Head(rest.pending)), dec |-> Consume(rest, 1)]
=============================================================================
