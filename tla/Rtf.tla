--------------------------------- MODULE Rtf ---------------------------------
(***************************************************************************)
(* rtfToText, which reduces the RTF that some clients send to the plain    *)
(* text that is kept as an offline message: a scanner that goes through    *)
(* the input once with two integers, the depth of the groups it is in and  *)
(* the depth at which it began to skip a destination (a font table, say),  *)
(* beside a decision for each group on a stack, as RTF defines it.         *)
(*                                                                         *)
(* A token is what one turn of the loop takes off the input. Control words *)
(* that write nothing, and wording and white space, are left out.          *)
(***************************************************************************)
EXTENDS Integers, Sequences

CONSTANTS MaxDepth,  \* bound: groups open at a time
          MaxText    \* bound: characters written

ASSUME RtfAssumption == MaxDepth \in Nat /\ MaxText \in Nat

VARIABLES depth,     \* how many groups are open
          skipFrom,  \* the depth of the group being skipped, or -1
          out,       \* what is written: bytes of the document's code page
          groups,    \* reference: the kinds of the groups that are open
          text       \* reference: the characters that are to be shown

rtfVars == <<depth, skipFrom, out, groups, text>>

\* A letter of ASCII is the same byte in UTF-8 and in every code page; one of
\* the national letters is not.
Letters == {"ascii", "national"}

\* The kind of a group: is its first word in rtfSkipDestinations?
Kinds == {"shown", "skipped"}

RtfInit ==
  /\ depth = 0
  /\ skipFrom = -1
  /\ out = <<>>
  /\ groups = <<>>
  /\ text = <<>>

Shown == \A i \in DOMAIN groups : groups[i] = "shown"

\* "{", with the word that follows.
OpenGroup(kind) ==
  /\ depth < MaxDepth
  /\ depth' = depth + 1
  /\ skipFrom' = IF skipFrom < 0 /\ kind = "skipped" THEN depth + 1 ELSE skipFrom
  /\ groups' = Append(groups, kind)
  /\ UNCHANGED <<out, text>>

\* "}", also where no group is open.
CloseGroup_Ends ==
  /\ skipFrom' = -1
  /\ depth' = IF depth > 0 THEN depth - 1 ELSE depth
  /\ groups' = IF groups = <<>> THEN groups ELSE SubSeq(groups, 1, Len(groups) - 1)
  /\ UNCHANGED <<out, text>>
CloseGroup ==
  /\ skipFrom' = IF skipFrom >= 0 /\ depth = skipFrom THEN -1 ELSE skipFrom
  /\ depth' = IF depth > 0 THEN depth - 1 ELSE depth
  /\ groups' = IF groups = <<>> THEN groups ELSE SubSeq(groups, 1, Len(groups) - 1)
  /\ UNCHANGED <<out, text>>

\* A character, as a byte or as the bytes of its UTF-8.
Emit(letter, bytes) ==
  /\ Len(text) < MaxText
  /\ out' = IF skipFrom < 0 THEN Append(out, bytes) ELSE out
  /\ text' = IF Shown THEN Append(text, letter) ELSE text
  /\ UNCHANGED <<depth, skipFrom, groups>>

\* A character of the input, one that is escaped, \tab, \par and \line; \'hh.
Char == Emit("ascii", "ascii")
Hex == \E letter \in Letters : Emit(letter, letter)

\* \uN writes UTF-8 among the bytes of the code page.
Unicode == \E letter \in Letters :
             Emit(letter, IF letter = "ascii" THEN "ascii" ELSE "utf8")

RtfNext == (\E kind \in Kinds : OpenGroup(kind)) \/ CloseGroup \/ Char \/ Hex \/ Unicode

RtfSpec == RtfInit /\ [][RtfNext]_rtfVars

\* The whole is decoded from the code page in the end.
Decoded(bytes) == IF bytes = "utf8" THEN "garbled" ELSE bytes

----------------------------------------------------------------------------
RtfTypeOK ==
  /\ depth \in Nat
  /\ skipFrom \in {-1} \cup (Nat \ {0})
  /\ out \in Seq(Letters \cup {"utf8"})
  /\ groups \in Seq(Kinds)
  /\ text \in Seq(Letters)

\* The two integers are as good as the stack: the scanner skips exactly where
\* some group that is open is to be skipped, also behind groups inside it that
\* have ended, and behind closing braces that close nothing.
SkipsExactly == skipFrom < 0 <=> Shown

\* One byte sequence is written for each character shown, and none of a skipped
\* group.
NothingLeaks == Len(out) = Len(text)

\* "offline messages arrive intact" (README:82). They do not where \uN is used:
\* its UTF-8 is decoded as if it were of the code page.
TextIntact == Len(out) = Len(text) => \A i \in DOMAIN out : Decoded(out[i]) = text[i]

=============================================================================
