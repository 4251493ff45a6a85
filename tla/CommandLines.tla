----------------------------- MODULE CommandLines -----------------------------
(***************************************************************************)
(* The two commands (cli.py of both packages) and the boundary they share  *)
(* with canonical.py: what becomes of a file that is not what it should    *)
(* be.  A user replaces files and runs the commands; a0bk-route may write  *)
(* its decision over the one an earlier run left.                          *)
(*                                                                         *)
(* A text is what it says and the set of its flaws.  Flaws that parsing    *)
(* finds are gone from the value it returns; the others stay in it.        *)
(***************************************************************************)
CONSTANTS
    Values,       \* what a proposal, a control or a packet may say
    FlawSets,     \* the flaws that a text may have together
    Admissible,   \* the <<proposal, control>> that get ADMIT or REOPEN
    Allowed,      \* the packets whose attempt is ALLOWED
    None,         \* no file, no decision, no exit code
    Partial       \* an --output file that was emptied or written in part

Flaws == {"ENCODING", "BOM", "SYNTAX", "DUPLICATE", "NUMBER", "NONFINITE",
          "DEPTH", "SURROGATE", "SCHEMA"}

ASSUME KnownFlaws == FlawSets \subseteq SUBSET Flaws

VARIABLES
    files,    \* the texts on disk
    output,   \* what the --output file holds: a decision, Partial or None
    run       \* the last run: what it was given, what it wrote, how it ended

vars == <<files, output, run>>

Text(says, flaws) == [says |-> says, flaws |-> flaws]

Texts == {Text(v, f) : v \in Values, f \in FlawSets}
Requests == {Text(<<v, w>>, f) : v, w \in Values, f \in FlawSets}

ASSUME NoneIsApart == None \notin Texts /\ None \notin Requests /\ None # 0

-------------------------------------------------------------------------------
(***************************************************************************)
(* canonical.py of both packages.  An operator that raises returns the     *)
(* exceptions that may come first in the text.                             *)
(***************************************************************************)
ValueErrors == {"CanonicalJSONError", "ValidationError", "UnicodeEncodeError",
                "UnicodeDecodeError", "JSONDecodeError", "ValueError"}

When(condition, error) == IF condition THEN {error} ELSE {}

\* Mutant: json.loads without its hooks, which repairs what is ambiguous.
LoadErrorsUnhooked(text) ==
    When(text.flaws \cap {"ENCODING", "BOM", "SYNTAX"} # {}, "CanonicalJSONError")
    \cup When("DEPTH" \in text.flaws, "RecursionError")

\* load_bytes_strict: the bytes are decoded before anything is parsed.
LoadErrors(text) ==
    IF text.flaws \cap {"ENCODING", "BOM"} # {} THEN {"CanonicalJSONError"}
    ELSE When(text.flaws \cap {"SYNTAX", "DUPLICATE", "NUMBER", "NONFINITE"} # {},
              "CanonicalJSONError")
         \cup When("DEPTH" \in text.flaws, "RecursionError")

Survivors(flaws) == flaws \cap {"SURROGATE", "SCHEMA"}

\* canonical_bytes of a loaded value.
EncodeErrors(flaws) == When("SURROGATE" \in flaws, "UnicodeEncodeError")

\* loads_no_duplicates, after the bytes are decoded: a number that is no
\* integer becomes a Decimal, and NaN and Infinity are taken.
LegacyLoadErrors(text) ==
    IF "ENCODING" \in text.flaws THEN {"UnicodeDecodeError"}
    ELSE When(text.flaws \cap {"BOM", "SYNTAX"} # {}, "JSONDecodeError")
         \cup When("DUPLICATE" \in text.flaws, "ValueError")
         \cup When("DEPTH" \in text.flaws, "RecursionError")

LegacySurvivors(flaws) == flaws \cap {"NONFINITE", "SURROGATE", "SCHEMA"}

LegacyEncodeErrors(flaws) ==
    When("NONFINITE" \in flaws, "ValueError")
    \cup When("SURROGATE" \in flaws, "UnicodeEncodeError")

-------------------------------------------------------------------------------
(***************************************************************************)
(* a0bk-route.  A run ends with a decision, whose route it returns as its  *)
(* exit code; in a usage error; or in an exception that nothing catches.   *)
(***************************************************************************)
Decisions == {"ADMIT", "HOLD", "REJECT"}

ExitCode ==
    [ADMIT |-> 0, HOLD |-> 2, REJECT |-> 2, USAGE |-> 2, TRACEBACK |-> 1]

\* evaluate_route_raw.
RawRoutes(raw) ==
    LET errors == LoadErrors(raw)
        flaws == Survivors(raw.flaws)
    IN  IF errors # {}
        THEN {IF e \in ValueErrors THEN "REJECT" ELSE "TRACEBACK" : e \in errors}
        ELSE IF "SCHEMA" \in flaws \/ EncodeErrors(flaws) # {} THEN {"REJECT"}
        ELSE IF raw.says \in Admissible THEN {"ADMIT"}
        ELSE {"HOLD", "REJECT"}

RequestRoutes(text) == IF text = None THEN {"USAGE"} ELSE RawRoutes(text)

\* What stands for separate inputs that are not strict JSON.
InvalidInput(p, k) == Text(<<p.says, k.says>>, {"SCHEMA"})

\* Mutant: the separate inputs are joined without being parsed strictly.
SeparateRoutesLenient(p, k) ==
    IF None \in {p, k} THEN {"USAGE"}
    ELSE RawRoutes(Text(<<p.says, k.says>>,
                        Survivors(p.flaws) \cup Survivors(k.flaws)))

\* --proposal and --control: parsed, joined, encoded, and parsed again.
SeparateRoutes(p, k) ==
    IF None \in {p, k} THEN {"USAGE"}
    ELSE LET flaws == Survivors(p.flaws) \cup Survivors(k.flaws)
             errors == IF LoadErrors(p) # {} THEN LoadErrors(p)
                       ELSE IF LoadErrors(k) # {} THEN LoadErrors(k)
                       ELSE EncodeErrors(flaws)
             handled ==
                [e \in errors |->
                    IF e = "CanonicalJSONError" THEN RawRoutes(InvalidInput(p, k))
                    ELSE IF e \in ValueErrors THEN {"USAGE"} ELSE {"TRACEBACK"}]
         IN  IF errors = {} THEN RawRoutes(Text(<<p.says, k.says>>, flaws))
             ELSE UNION {handled[e] : e \in errors}

\* Mutant: an error is written to the output file as a decision is.
FinishWritingErrors(read, about, routes) ==
    \E route \in routes :
        /\ run' = [command |-> "a0bk-route", read |-> read, about |-> about,
                   ends |-> route, exit |-> ExitCode[route]]
        /\ output' = [route |-> route, about |-> about]
        /\ UNCHANGED files

\* The rest of main.  Writing the output file may fail, before it is emptied or
\* with only a part of the decision in it.
Finish(read, about, routes) ==
    \E route \in routes :
        LET decision == [route |-> route, about |-> about]
        IN  /\ UNCHANGED files
            /\ \/ /\ run' = [command |-> "a0bk-route", read |-> read, about |-> about,
                             ends |-> route, exit |-> ExitCode[route]]
                  /\ output' = IF route \in Decisions THEN decision ELSE output
               \/ /\ route \in Decisions
                  /\ run' = [command |-> "a0bk-route", read |-> read, about |-> about,
                             ends |-> "TRACEBACK", exit |-> 1]
                  /\ output' \in {output, Partial}

RouteRequest ==
    Finish({files.request} \ {None},
           IF files.request = None THEN None ELSE files.request.says,
           RequestRoutes(files.request))

RouteSeparate ==
    LET read == {files.proposal, files.control}
    IN  IF None \in read THEN Finish({}, None, {"USAGE"})
        ELSE Finish(read, <<files.proposal.says, files.control.says>>,
                    SeparateRoutes(files.proposal, files.control))

-------------------------------------------------------------------------------
(***************************************************************************)
(* a0-zsa-kernel: the receipt goes to the standard output.                 *)
(***************************************************************************)
\* evaluate_raw: the outcomes it may return, TRACEBACK where it raises.
RawOutcomes(text) ==
    LET errors == LegacyLoadErrors(text)
        flaws == LegacySurvivors(text.flaws)
    IN  IF errors # {}
        THEN {IF e \in ValueErrors THEN "INVALID" ELSE "TRACEBACK" : e \in errors}
        ELSE IF "SCHEMA" \in flaws THEN {"INVALID"}
        ELSE IF LegacyEncodeErrors(flaws) # {} THEN {"TRACEBACK"}
        ELSE IF text.says \in Allowed THEN {"ALLOWED"}
        ELSE {"BLOCKED", "INVALID"}

Transition ==
    /\ \E outcome \in IF files.packet = None THEN {"TRACEBACK"}
                      ELSE RawOutcomes(files.packet) :
          run' = [command |-> "a0-zsa-kernel", read |-> {files.packet} \ {None},
                  about |-> None, ends |-> outcome,
                  exit |-> CASE outcome = "ALLOWED" -> 0
                             [] outcome = "TRACEBACK" -> 1
                             [] OTHER -> 2]
    /\ UNCHANGED <<files, output>>

-------------------------------------------------------------------------------
NoFiles ==
    [request |-> None, proposal |-> None, control |-> None, packet |-> None]

Idle ==
    [command |-> None, read |-> {}, about |-> None, ends |-> None, exit |-> None]

\* The output file holds a whole decision.
Written == output \notin {None, Partial}

TypeOK ==
    /\ files.request \in Requests \cup {None}
    /\ {files.proposal, files.control, files.packet} \subseteq Texts \cup {None}
    /\ Written => output.route \in Decisions
    /\ run.exit \in {None, 0, 1, 2}

Init ==
    /\ files = NoFiles
    /\ output = None
    /\ run = Idle

\* A file is written anew; those of another way to call a command are removed.
Edit ==
    /\ \/ \E t \in Requests : files' = [NoFiles EXCEPT !.request = t]
       \/ \E t \in Texts : files' = [NoFiles EXCEPT !.packet = t]
       \/ \E t \in Texts, f \in {"proposal", "control"} :
             files' = [files EXCEPT !.request = None, !.packet = None, ![f] = t]
    /\ run' = Idle
    /\ UNCHANGED output

Next == RouteRequest \/ RouteSeparate \/ Transition \/ Edit

Spec == Init /\ [][Next]_vars

-------------------------------------------------------------------------------
FlawsRead == UNION {t.flaws : t \in run.read}

\* Fail closed: a run ends with 0 only if every text it read is flawless for its
\* command and what they say together is admitted, and then the output file holds
\* that admission and not an earlier one.  Nothing ambiguous is repaired on the
\* way, also not by parsing separate inputs, joining them and parsing again.  A
\* run that fails may leave an earlier run's decision in the output file; when
\* that is an admission, it is one of admissible content
\* (cli.py:43-83, routing.py:482-493).
SuccessIsFlawless ==
    /\ run.exit = 0 =>
          IF run.command = "a0bk-route"
          THEN /\ FlawsRead = {}
               /\ run.about \in Admissible
               /\ output = [route |-> "ADMIT", about |-> run.about]
          ELSE FlawsRead \subseteq {"NUMBER"}
    /\ Written /\ output.route = "ADMIT" => output.about \in Admissible

\* A proposal and a control are admitted from two files exactly when they are
\* from one request that says the same with the same flaws (cli.py:43-68).
ModesAgree ==
    LET p == files.proposal
        k == files.control
    IN  None \notin {p, k} =>
            ("ADMIT" \in SeparateRoutes(p, k)
                <=> "ADMIT" \in RawRoutes(Text(<<p.says, k.says>>, p.flaws \cup k.flaws)))

\* DESIGN.md:88, "Every attempt emits an `AttemptReceipt`".
EveryAttemptEmitsAReceipt ==
    run.command = "a0-zsa-kernel" /\ run.read # {} => run.ends # "TRACEBACK"
===============================================================================
