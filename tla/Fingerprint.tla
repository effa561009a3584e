----------------------------- MODULE Fingerprint -----------------------------
(***************************************************************************)
(* The fingerprint of a command (crates/nid-core/src/fingerprint.rs), by   *)
(* which nid keeps its profiles, samples, locks and sessions apart: the    *)
(* stem of the binary and the argument list in canonical form, joined by   *)
(* blanks.                                                                 *)
(*                                                                         *)
(* A token is a value, a flag, or a flag with a value behind `=`; whatever *)
(* starts with a dash is a flag, a negative number too.  A value is its    *)
(* words and what the canonical form makes of it: "<n>" of a number,       *)
(* "<str>" of several words, the host of a URL, a plain word itself.  No   *)
(* word of a value starts with a dash or looks like a canonical form.      *)
(***************************************************************************)
EXTENDS Naturals, SequencesExt

CONSTANTS
  Programs,    \* argv[0]: a stem, and the path and extension around it
  ArgTokens,   \* the tokens commands are made of
  ShapeFlags,  \* SHAPE_DEFINING_FLAGS, whose values are kept
  NoFlag,
  NoValue,
  MaxTokens    \* bound: tokens of a command

ASSUME ProgramsAssumption == \A b \in Programs : DOMAIN b = {"stem", "around"}
ASSUME TokensAssumption ==
  \A t \in ArgTokens :
    /\ t.flag # NoFlag \/ t.value # NoValue
    /\ t.value # NoValue =>
         /\ DOMAIN t.value = {"words", "form"}
         /\ LET ws == t.value.words
                texts == {ws[j] : j \in 1 .. Len(ws)}
            IN  ws \in Seq(texts) /\ NoValue \notin texts \cup {t.value.form}
ASSUME ShapeAssumption == NoFlag \notin ShapeFlags

VARIABLES
  argv,   \* a command
  other   \* the same, or another one

fingerprintVars == <<argv, other>>

FingerprintTypeOK ==
  {argv, other} \subseteq [bin : Programs, tail : Seq(ArgTokens)]

FingerprintInit ==
  /\ \E b \in Programs : argv = [bin |-> b, tail |-> <<>>]
  /\ other = argv

-----------------------------------------------------------------------------
(* canonicalize_token, canonicalize_argv and fingerprint.                  *)

CanonicalToken(v, keepLiteral) == IF keepLiteral THEN v.words ELSE <<v.form>>

Bare(t) == t.flag # NoFlag /\ t.value = NoValue

\* Mutant of TakesNext: the token after a flag is its value even if it is a flag.
TakesAnything(tail, i) == Bare(tail[i]) /\ i < Len(tail)

\* A flag without a value takes the next token, unless that is a flag.
TakesNext(tail, i) == Bare(tail[i]) /\ i < Len(tail) /\ tail[i + 1].flag = NoFlag

\* What a token adds to the fingerprint, a pair for each word: the flag is in
\* front of the first.
Printed(t, keepLiteral) ==
  IF Bare(t) THEN << <<t.flag, NoValue>> >>
  ELSE LET ws == CanonicalToken(t.value, keepLiteral) IN
         [j \in 1 .. Len(ws) |-> <<IF j = 1 THEN t.flag ELSE NoFlag, ws[j]>>]

\* What the tokens from the i-th on add, for every i.
CanonicalFrom(tail) ==
  LET isShape(i) == tail[i].flag \in ShapeFlags
      from[i \in 1 .. Len(tail) + 2] ==
        IF i > Len(tail) THEN <<>>
        ELSE IF TakesNext(tail, i)
        THEN Printed(tail[i], FALSE) \o Printed(tail[i + 1], isShape(i)) \o from[i + 2]
        ELSE Printed(tail[i], isShape(i)) \o from[i + 1]
  IN  from

CanonicalizeArgv(tail) == CanonicalFrom(tail)[1]

FingerprintOf(c) == <<c.bin.stem, CanonicalizeArgv(c.tail)>>

-----------------------------------------------------------------------------
(* The commands there are, one by one and in pairs.                        *)

AddToken ==
  /\ other = argv /\ Len(argv.tail) < MaxTokens
  /\ \E t \in ArgTokens : argv' = [argv EXCEPT !.tail = Append(@, t)]
  /\ other' = argv'

\* Another program, or one token made none, another one or two.
Differ ==
  /\ other = argv
  /\ \/ \E b \in Programs : other' = [argv EXCEPT !.bin = b]
     \/ \E i \in 1 .. Len(argv.tail) : \E s \in BoundedSeq(ArgTokens, 2) :
          other' = [argv EXCEPT !.tail = SubSeq(@, 1, i - 1) \o s \o SubSeq(@, i + 1, Len(@))]
  /\ UNCHANGED argv

FingerprintNext == AddToken \/ Differ

FingerprintSpec == FingerprintInit /\ [][FingerprintNext]_fingerprintVars

-----------------------------------------------------------------------------
(* Properties.                                                             *)

\* A shape-defining flag has value i behind `=`, or stands before it.
KeptWhole(tail, i) ==
  \/ tail[i].flag \in ShapeFlags
  \/ i > 1 /\ tail[i].flag = NoFlag /\ Bare(tail[i - 1]) /\ tail[i - 1].flag \in ShapeFlags

\* What tells commands apart: of each token the flag, and of its value the words
\* or only their form.
Distinctive(tail) ==
  [i \in 1 .. Len(tail) |->
     [flag  |-> tail[i].flag,
      value |-> IF tail[i].value = NoValue THEN <<>>
                ELSE IF KeptWhole(tail, i) THEN tail[i].value.words ELSE <<tail[i].value.form>>]]

\* Two commands have one fingerprint if and only if their binaries' stems and what
\* tells them apart agree token by token: nid neither mixes what it learned of two
\* commands nor learns one twice for its numbers and paths ("Values stay literal
\* for these; otherwise flag values collapse", fingerprint.rs:17).  Exempt are
\* values kept with a blank in them, which the join makes several tokens.
FingerprintApart ==
  (\A c \in {argv, other} : \A i \in 1 .. Len(c.tail) :
     KeptWhole(c.tail, i) /\ c.tail[i].value # NoValue => Len(c.tail[i].value.words) = 1)
  => (FingerprintOf(argv) = FingerprintOf(other) <=>
        argv.bin.stem = other.bin.stem /\ Distinctive(argv.tail) = Distinctive(other.tail))
=============================================================================
