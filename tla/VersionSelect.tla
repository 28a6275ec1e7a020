---------------------------- MODULE VersionSelect ----------------------------
(***************************************************************************)
(* The game version the node probes with, from the command line to the    *)
(* manager: `run --version V` is parsed by config.ParseVersion (run.go),   *)
(* stored in the config, given to the TUI model and to Manager.SetVersion *)
(* before the TUI starts; afterwards the "[" and "]" keys run              *)
(* Model.cycleVersion, whose versionCallback calls SetVersion and logs     *)
(* "version changed" with config.FormatVersion.  That log record goes to  *)
(* the TUI log handler, which drops it before SetReady and afterwards      *)
(* calls program.Send: from inside Update, on the event loop that alone    *)
(* receives, so the Send never returns.                                    *)
(*                                                                         *)
(* A string is a sequence of one-character strings.  strconv.ParseUint is  *)
(* modelled by its digit loop with its overflow check, at width Bits (32   *)
(* in the code).  The product code is left out: nothing here changes it.  *)
(***************************************************************************)
EXTENDS Integers, Sequences

CONSTANTS
  Alphabet,   \* the characters the --version argument is made of
  MaxLen,     \* longest --version argument
  Bits        \* ParseUint's bitSize

ASSUME VersionAssumption ==
  /\ MaxLen \in Nat
  /\ Bits \in Nat \ {0}
  /\ Alphabet \subseteq {" ", ".", "0", "1", "2", "3", "4", "5", "6", "7", "8", "9", "x"}

VARIABLES
  flag,     \* the --version argument
  up,       \* runExec was reached (ParseVersion returned no error)
  tuiVer,   \* Model.version.Version, what the status bar shows
  mgrVer,   \* Manager.version.Version, what probeAllPeers sends
  logged,   \* the version attribute of the last "version changed" record, or <<>>
  ready,    \* Handler.ready: records are sent to the program, not dropped
  hung      \* the event loop is blocked in its own program.Send

vars == <<flag, up, tuiVer, mgrVer, logged, ready, hung>>

Decimal == <<"0", "1", "2", "3", "4", "5", "6", "7", "8", "9">>
DigitChars == {Decimal[i] : i \in 1 .. 10}
DigitValue(c) == CHOOSE d \in 0 .. 9 : Decimal[d + 1] = c
MaxVal == 2^Bits - 1

Strings == UNION {[1 .. n -> Alphabet] : n \in 0 .. MaxLen}

(* strings.TrimSpace: drop the leading and trailing blanks. *)
TrimSpace(s) ==
  LET kept == {i \in 1 .. Len(s) : s[i] # " "}
      lo   == CHOOSE i \in kept : \A j \in kept : i <= j
      hi   == CHOOSE i \in kept : \A j \in kept : j <= i
  IN  IF kept = {} THEN <<>> ELSE SubSeq(s, lo, hi)

(* strings.CutPrefix(s, "1."): the rest of s, when s starts with "1.". *)
CutPrefix(s) ==
  IF Len(s) >= 2 /\ SubSeq(s, 1, 2) = <<"1", ".">> THEN SubSeq(s, 3, Len(s)) ELSE s

Ok(v) == [ok |-> TRUE, val |-> v]
Err == [ok |-> FALSE, val |-> 0]

(* Mutant: the digit loop without the range check. *)
RECURSIVE ParseDigitsUnbounded(_, _, _)
ParseDigitsUnbounded(s, i, n) ==
  IF i > Len(s) THEN Ok(n)
  ELSE IF s[i] \notin DigitChars THEN Err
  ELSE ParseDigitsUnbounded(s, i + 1, n * 10 + DigitValue(s[i]))

(* strconv.ParseUint(s, 10, Bits): the digit loop from position i with the *)
(* value n read so far; a non-digit is a syntax error, a value above      *)
(* 1<<Bits - 1 a range error.                                             *)
RECURSIVE ParseDigits(_, _, _)
ParseDigits(s, i, n) ==
  IF i > Len(s) THEN Ok(n)
  ELSE IF s[i] \notin DigitChars \/ n * 10 + DigitValue(s[i]) > MaxVal THEN Err
  ELSE ParseDigits(s, i + 1, n * 10 + DigitValue(s[i]))

ParseUint(s) == IF s = <<>> THEN Err ELSE ParseDigits(s, 1, 0)

(* Mutant: the argument is not trimmed. *)
ParseVersionNoTrim(s) == ParseUint(CutPrefix(s))

(* config.ParseVersion *)
ParseVersion(s) == ParseUint(CutPrefix(TrimSpace(s)))

(* The decimal digits of n, as fmt's %d writes them. *)
RECURSIVE Itoa(_)
Itoa(n) ==
  IF n < 10 THEN <<Decimal[n + 1]>>
  ELSE Itoa(n \div 10) \o <<Decimal[(n % 10) + 1]>>

(* config.FormatVersion: fmt.Sprintf("1.%d", v). *)
FormatVersion(v) == <<"1", ".">> \o Itoa(v)

(* config.SupportedVersions *)
SupportedVersions == <<26, 27, 28>>

(* Model.cycleVersion's new version: from a version not in the list, the  *)
(* first one; otherwise the neighbour at delta, wrapping at both ends.    *)
CycleVersion(v, delta) ==
  LET n   == Len(SupportedVersions)
      at  == {i \in 1 .. n : SupportedVersions[i] = v}
      cur == CHOOSE i \in at : \A j \in at : i <= j
  IN  IF at = {} THEN SupportedVersions[1]
      ELSE IF cur + delta < 1 THEN SupportedVersions[n]
      ELSE IF cur + delta > n THEN SupportedVersions[1]
      ELSE SupportedVersions[cur + delta]

(* Model.versionString: the status bar's version. *)
Display(v) == IF v = 0 THEN "detecting" ELSE FormatVersion(v)

-----------------------------------------------------------------------------
(* newRunCommand's Exec and runExec up to program.Run: a parse error ends  *)
(* the command; otherwise the parsed version is the config's, given to    *)
(* NewModel and to SetVersion before any key is read.                     *)
Init ==
  /\ flag \in Strings
  /\ up = ParseVersion(flag).ok
  /\ tuiVer = ParseVersion(flag).val
  /\ mgrVer = ParseVersion(flag).val
  /\ logged = <<>>
  /\ ready = FALSE
  /\ hung = FALSE

(* runExec: handler.SetReady() right after go program.Run(). *)
SetReady ==
  /\ up
  /\ ~ready
  /\ ready' = TRUE
  /\ UNCHANGED <<flag, up, tuiVer, mgrVer, logged, hung>>

KeyCycle(delta) ==
  /\ up
  /\ ~hung
  /\ mgrVer' = CycleVersion(tuiVer, delta)
  /\ logged' = FormatVersion(CycleVersion(tuiVer, delta))
  /\ \/ /\ ~ready
        /\ tuiVer' = CycleVersion(tuiVer, delta)
        /\ UNCHANGED hung
     \/ /\ ready
        /\ hung' = TRUE
        /\ UNCHANGED tuiVer
  /\ UNCHANGED <<flag, up, ready>>

(* The command returned its parse error; nothing more happens. *)
Exited ==
  /\ ~up
  /\ UNCHANGED vars

Next == SetReady \/ KeyCycle(-1) \/ KeyCycle(1) \/ Exited

Spec == Init /\ [][Next]_vars

-----------------------------------------------------------------------------
TypeOK ==
  /\ flag \in Strings
  /\ up \in BOOLEAN
  /\ tuiVer \in 0 .. MaxVal
  /\ mgrVer \in 0 .. MaxVal
  /\ logged \in Seq(DigitChars \cup {"."})
  /\ ready \in BOOLEAN
  /\ hung \in BOOLEAN

(* spec.md 6 "Version parsing", the reference: the argument, between      *)
(* blanks, is N or 1.N with N a non-empty decimal numeral below 2^Bits,   *)
(* and denotes N; anything else is refused.                                *)
Denotes(s, v) ==
  \E a, b \in 0 .. Len(s), p \in {<<>>, <<"1", ".">>} :
     LET lo == a + Len(p) + 1
         hi == Len(s) - b
     IN  /\ lo <= hi
         /\ \A i \in 1 .. a : s[i] = " "
         /\ \A i \in hi + 1 .. Len(s) : s[i] = " "
         /\ SubSeq(s, a + 1, a + Len(p)) = p
         /\ \A i \in lo .. hi : s[i] \in DigitChars
         /\ \A i \in lo .. hi :
               (v \div 10^(hi - i)) % 10 = DigitValue(s[i])
         /\ v < 10^(hi - lo + 1)

(* ParseVersion accepts exactly the arguments the spec's rule accepts,    *)
(* with the value it gives them, overflow at 2^Bits included.              *)
ParseFollowsSpec ==
  ParseVersion(flag) =
     IF \E v \in 0 .. MaxVal : Denotes(flag, v)
     THEN Ok(CHOOSE v \in 0 .. MaxVal : Denotes(flag, v))
     ELSE Err

=============================================================================
