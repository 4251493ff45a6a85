----------------------------- MODULE CommandProofs -----------------------------
(***************************************************************************)
(* The two commands fail closed, for all texts, whatever they say and with *)
(* whatever flaws together: exit code 0 comes from flawless input only,    *)
(* and it makes no difference whether a proposal and its control are in    *)
(* one file or in two.                                                     *)
(***************************************************************************)
EXTENDS CommandLines, TLAPS

-------------------------------------------------------------------------------
(***************************************************************************)
(* What a text must be to get through.                                     *)
(***************************************************************************)
\* load_bytes_strict raises unless the only flaws are those it cannot see.
LEMMA LoadsWithoutErrors ==
  ASSUME NEW text, text.flaws \subseteq Flaws
  PROVE  LoadErrors(text) = {} <=> text.flaws \subseteq {"SURROGATE", "SCHEMA"}
BY DEF LoadErrors, When, Flaws

\* evaluate_route_raw admits what is flawless and admissible, and nothing else.
LEMMA RawAdmits ==
  ASSUME NEW raw, raw.flaws \subseteq Flaws
  PROVE  "ADMIT" \in RawRoutes(raw) <=> raw.flaws = {} /\ raw.says \in Admissible
<1> DEFINE errors == LoadErrors(raw)
           flaws == Survivors(raw.flaws)
<1>1. CASE errors # {}
  <2>1. "ADMIT" \notin RawRoutes(raw)
    BY <1>1 DEF RawRoutes
  <2>2. raw.flaws # {}
    BY <1>1, LoadsWithoutErrors
  <2>3. QED
    BY <2>1, <2>2
<1>2. CASE errors = {}
  <2>1. raw.flaws = flaws
    BY <1>2, LoadsWithoutErrors DEF Survivors
  <2>2. "SCHEMA" \in flaws \/ EncodeErrors(flaws) # {} <=> flaws # {}
    BY DEF EncodeErrors, When, Survivors
  <2>3. QED
    BY <1>2, <2>1, <2>2 DEF RawRoutes
<1>3. QED
  BY <1>1, <1>2

\* What SeparateRoutes joins, the exceptions on its way there, and the routes
\* its handlers make of each.
JoinedFlaws(p, k) == Survivors(p.flaws) \cup Survivors(k.flaws)

SeparateErrors(p, k) ==
    IF LoadErrors(p) # {} THEN LoadErrors(p)
    ELSE IF LoadErrors(k) # {} THEN LoadErrors(k)
    ELSE EncodeErrors(JoinedFlaws(p, k))

Handled(p, k, e) ==
    IF e = "CanonicalJSONError" THEN RawRoutes(InvalidInput(p, k))
    ELSE IF e \in ValueErrors THEN {"USAGE"} ELSE {"TRACEBACK"}

LEMMA SeparateCases ==
  ASSUME NEW p, NEW k, None \notin {p, k}
  PROVE  /\ SeparateErrors(p, k) = {} =>
               SeparateRoutes(p, k) =
                  RawRoutes(Text(<<p.says, k.says>>, JoinedFlaws(p, k)))
         /\ SeparateErrors(p, k) # {} =>
               \A route \in SeparateRoutes(p, k) :
                  \E e \in SeparateErrors(p, k) : route \in Handled(p, k, e)
<1> DEFINE errors == SeparateErrors(p, k)
           handled == [e \in errors |-> Handled(p, k, e)]
<1>1. SeparateRoutes(p, k) =
         IF errors = {} THEN RawRoutes(Text(<<p.says, k.says>>, JoinedFlaws(p, k)))
         ELSE UNION {handled[e] : e \in errors}
  BY DEF SeparateRoutes, SeparateErrors, JoinedFlaws, Handled
<1>2. \A e \in errors : handled[e] = Handled(p, k, e)
  OBVIOUS
<1> HIDE DEF errors, handled
<1>3. QED
  BY <1>1, <1>2 DEF errors

\* Neither parsing the two texts apart nor joining and parsing them again
\* repairs a flaw or adds one.
LEMMA SeparateAdmits ==
  ASSUME NEW p, NEW k, None \notin {p, k},
         p.flaws \subseteq Flaws, k.flaws \subseteq Flaws
  PROVE  "ADMIT" \in SeparateRoutes(p, k)
            <=> p.flaws \cup k.flaws = {} /\ <<p.says, k.says>> \in Admissible
<1> DEFINE flaws == JoinedFlaws(p, k)
           joined == Text(<<p.says, k.says>>, flaws)
<1>1. CASE SeparateErrors(p, k) # {}
  <2>1. "ADMIT" \notin RawRoutes(InvalidInput(p, k))
    <3>1. InvalidInput(p, k).flaws = {"SCHEMA"}
      BY DEF InvalidInput, Text
    <3>2. QED
      BY <3>1, RawAdmits DEF Flaws
  <2>2. \A e : "ADMIT" \notin Handled(p, k, e)
    BY <2>1 DEF Handled
  <2>3. p.flaws \cup k.flaws # {}
    BY <1>1, LoadsWithoutErrors
       DEF SeparateErrors, JoinedFlaws, EncodeErrors, When, Survivors
  <2>4. QED
    BY <1>1, <2>2, <2>3, SeparateCases
<1>2. CASE SeparateErrors(p, k) = {}
  <2>1. flaws = p.flaws \cup k.flaws
    BY <1>2, LoadsWithoutErrors DEF SeparateErrors, JoinedFlaws, Survivors
  <2>2. joined.flaws = flaws /\ joined.says = <<p.says, k.says>>
    BY DEF Text
  <2>3. "ADMIT" \in RawRoutes(joined)
           <=> flaws = {} /\ <<p.says, k.says>> \in Admissible
    BY <2>1, <2>2, RawAdmits
  <2>4. QED
    BY <1>2, <2>1, <2>3, SeparateCases
<1>3. QED
  BY <1>1, <1>2

\* The preserved parser takes numbers that the successor forbids, and no other
\* flaw gets past it, the model and the hash.
LEMMA RawAllows ==
  ASSUME NEW text, text.flaws \subseteq Flaws, "ALLOWED" \in RawOutcomes(text)
  PROVE  text.flaws \subseteq {"NUMBER"}
<1>1. /\ LegacyLoadErrors(text) = {}
      /\ "SCHEMA" \notin LegacySurvivors(text.flaws)
      /\ LegacyEncodeErrors(LegacySurvivors(text.flaws)) = {}
  BY DEF RawOutcomes
<1>2. text.flaws \cap {"ENCODING", "BOM", "SYNTAX", "DUPLICATE", "DEPTH"} = {}
  BY <1>1 DEF LegacyLoadErrors, When
<1>3. text.flaws \cap {"NONFINITE", "SURROGATE", "SCHEMA"} = {}
  BY <1>1 DEF LegacySurvivors, LegacyEncodeErrors, When
<1>4. QED
  BY <1>2, <1>3 DEF Flaws

-------------------------------------------------------------------------------
(***************************************************************************)
(* Runs.                                                                   *)
(***************************************************************************)
\* Files hold texts, whose flaws are known ones.
LEMMA TextFacts ==
  ASSUME NEW t \in Texts \cup Requests
  PROVE  t.flaws \subseteq Flaws /\ t # None
BY KnownFlaws, NoneIsApart DEF Texts, Requests, Text

Files == [{"request", "proposal", "control", "packet"}
              -> Texts \cup Requests \cup {None}]

IInv ==
    /\ TypeOK
    /\ files \in Files
    /\ SuccessIsFlawless

\* The exit code of a run that ends with a0bk-route, and what it leaves behind.
LEMMA FinishEnds ==
  ASSUME NEW read, NEW about, NEW routes, TypeOK,
         routes \subseteq Decisions \cup {"USAGE", "TRACEBACK"},
         "ADMIT" \in routes => about \in Admissible,
         Written /\ output.route = "ADMIT" => output.about \in Admissible,
         Finish(read, about, routes)
  PROVE  /\ UNCHANGED files
         /\ run'.command = "a0bk-route" /\ run'.read = read /\ run'.about = about
         /\ run'.exit \in {0, 1, 2}
         /\ Written' => output'.route \in Decisions
         /\ Written' /\ output'.route = "ADMIT" => output'.about \in Admissible
         /\ run'.exit = 0 =>
               "ADMIT" \in routes /\ output' = [route |-> "ADMIT", about |-> about]
<1>1. PICK route \in routes :
        \/ /\ run' = [command |-> "a0bk-route", read |-> read, about |-> about,
                      ends |-> route, exit |-> ExitCode[route]]
           /\ output' = IF route \in Decisions
                        THEN [route |-> route, about |-> about] ELSE output
        \/ /\ run' = [command |-> "a0bk-route", read |-> read, about |-> about,
                      ends |-> "TRACEBACK", exit |-> 1]
           /\ output' \in {output, Partial}
  BY DEF Finish
<1>2. /\ ExitCode[route] \in {0, 1, 2}
      /\ ExitCode[route] = 0 => route = "ADMIT"
  BY DEF ExitCode, Decisions
<1>3. QED
  BY <1>1, <1>2 DEF Finish, TypeOK, Written, Decisions

LEMMA RouteRequestInv ==
  ASSUME IInv, RouteRequest
  PROVE  IInv'
<1> DEFINE t == files.request
           read == {t} \ {None}
           about == IF t = None THEN None ELSE t.says
<1>1. Finish(read, about, RequestRoutes(t))
  BY DEF RouteRequest
<1>2. RequestRoutes(t) \subseteq Decisions \cup {"USAGE", "TRACEBACK"}
  BY DEF RequestRoutes, RawRoutes, Decisions
<1>3. "ADMIT" \in RequestRoutes(t) =>
         UNION {s.flaws : s \in read} = {} /\ about \in Admissible
  <2>1. CASE t = None
    BY <2>1 DEF RequestRoutes
  <2>2. CASE t # None
    <3>1. t.flaws \subseteq Flaws
      BY <2>2, TextFacts DEF IInv, TypeOK
    <3>2. QED
      BY <2>2, <3>1, RawAdmits DEF RequestRoutes
  <2>3. QED
    BY <2>1, <2>2
<1>4. QED
  BY <1>1, <1>2, <1>3, FinishEnds DEF IInv, TypeOK, Written,
      SuccessIsFlawless, FlawsRead

LEMMA RouteSeparateInv ==
  ASSUME IInv, RouteSeparate
  PROVE  IInv'
<1> DEFINE p == files.proposal
           k == files.control
<1>1. CASE None \in {p, k}
  <2>1. Finish({}, None, {"USAGE"})
    BY <1>1 DEF RouteSeparate
  <2>2. QED
    BY <2>1, FinishEnds DEF IInv, TypeOK, Written,
      SuccessIsFlawless, FlawsRead
<1>2. CASE None \notin {p, k}
  <2>1. Finish({p, k}, <<p.says, k.says>>, SeparateRoutes(p, k))
    BY <1>2 DEF RouteSeparate
  <2>2. SeparateRoutes(p, k) \subseteq Decisions \cup {"USAGE", "TRACEBACK"}
    <3>1. \A raw : RawRoutes(raw) \subseteq Decisions \cup {"TRACEBACK"}
      BY DEF RawRoutes, Decisions
    <3>2. \A e : Handled(p, k, e) \subseteq Decisions \cup {"USAGE", "TRACEBACK"}
      BY <3>1 DEF Handled
    <3>3. CASE SeparateErrors(p, k) = {}
      BY <1>2, <3>1, <3>3, SeparateCases
    <3>4. CASE SeparateErrors(p, k) # {}
      BY <1>2, <3>2, <3>4, SeparateCases
    <3>5. QED
      BY <3>3, <3>4
  <2>3. p.flaws \subseteq Flaws /\ k.flaws \subseteq Flaws
    BY <1>2, TextFacts DEF IInv, TypeOK
  <2>4. "ADMIT" \in SeparateRoutes(p, k) =>
           /\ UNION {s.flaws : s \in {p, k}} = {}
           /\ <<p.says, k.says>> \in Admissible
    BY <1>2, <2>3, SeparateAdmits
  <2>5. QED
    BY <2>1, <2>2, <2>4, FinishEnds DEF IInv, TypeOK, Written,
      SuccessIsFlawless, FlawsRead
<1>3. QED
  BY <1>1, <1>2

LEMMA TransitionInv ==
  ASSUME IInv, Transition
  PROVE  IInv'
<1> DEFINE t == files.packet
<1>1. PICK outcome \in IF t = None THEN {"TRACEBACK"} ELSE RawOutcomes(t) :
        run' = [command |-> "a0-zsa-kernel", read |-> {t} \ {None},
                about |-> None, ends |-> outcome,
                exit |-> CASE outcome = "ALLOWED" -> 0
                           [] outcome = "TRACEBACK" -> 1
                           [] OTHER -> 2]
  BY DEF Transition
<1>2. /\ run'.command = "a0-zsa-kernel" /\ run'.read = {t} \ {None}
      /\ run'.exit \in {0, 1, 2} /\ run'.exit = 0 => outcome = "ALLOWED"
  BY <1>1
<1>3. outcome = "ALLOWED" => UNION {s.flaws : s \in {t} \ {None}} \subseteq {"NUMBER"}
  BY <1>1, RawAllows, TextFacts DEF IInv, TypeOK
<1>4. QED
  BY <1>2, <1>3 DEF IInv, TypeOK, Transition, Written, SuccessIsFlawless, FlawsRead

LEMMA EditInv ==
  ASSUME IInv, Edit
  PROVE  IInv'
<1>1. run' = Idle /\ output' = output
  BY DEF Edit
<1>2. files' \in Files
  BY DEF Edit, IInv, Files, NoFiles
<1>3. /\ files'.request \in Requests \cup {None}
      /\ {files'.proposal, files'.control, files'.packet} \subseteq Texts \cup {None}
  <2>1. CASE \E t \in Requests : files' = [NoFiles EXCEPT !.request = t]
    BY <2>1 DEF NoFiles
  <2>2. CASE \E t \in Texts : files' = [NoFiles EXCEPT !.packet = t]
    BY <2>2 DEF NoFiles
  <2>3. CASE \E t \in Texts, f \in {"proposal", "control"} :
               files' = [files EXCEPT !.request = None, !.packet = None, ![f] = t]
    BY <2>3 DEF IInv, TypeOK, Files
  <2>4. QED
    BY <2>1, <2>2, <2>3 DEF Edit
<1>4. SuccessIsFlawless'
  BY <1>1, NoneIsApart DEF IInv, SuccessIsFlawless, Written, Idle
<1>5. QED
  BY <1>1, <1>2, <1>3, <1>4 DEF IInv, TypeOK, Written, Idle

THEOREM Inductive == Spec => []IInv
<1>1. Init => IInv
  BY NoneIsApart DEF Init, IInv, TypeOK, Files, NoFiles, Idle, Written,
                      SuccessIsFlawless
<1>2. IInv /\ [Next]_vars => IInv'
  <2> SUFFICES ASSUME IInv, [Next]_vars PROVE IInv'
    OBVIOUS
  <2>1. CASE UNCHANGED vars
    BY <2>1 DEF vars, IInv, TypeOK, Written, SuccessIsFlawless, FlawsRead
  <2>2. QED
    BY <2>1, RouteRequestInv, RouteSeparateInv, TransitionInv, EditInv DEF Next
<1>3. QED
  BY <1>1, <1>2, PTL DEF Spec

\* Files hold texts, and the output file holds decisions and no error.
THEOREM TypeCorrect == Spec => []TypeOK
BY Inductive, PTL DEF IInv

\* Exit code 0 means flawless input, an admission, and that the output file
\* holds this admission.
THEOREM SuccessIsFlawlessAlways == Spec => []SuccessIsFlawless
BY Inductive, PTL DEF IInv

\* One file or two makes no difference to what is admitted.
THEOREM ModesAgreeAlways == Spec => []ModesAgree
<1>1. IInv => ModesAgree
  <2> SUFFICES ASSUME IInv, None \notin {files.proposal, files.control}
               PROVE  "ADMIT" \in SeparateRoutes(files.proposal, files.control)
                        <=> "ADMIT" \in RawRoutes(
                               Text(<<files.proposal.says, files.control.says>>,
                                    files.proposal.flaws \cup files.control.flaws))
    BY DEF ModesAgree
  <2> DEFINE p == files.proposal
             k == files.control
             t == Text(<<p.says, k.says>>, p.flaws \cup k.flaws)
  <2>1. p.flaws \subseteq Flaws /\ k.flaws \subseteq Flaws
    BY TextFacts DEF IInv, TypeOK
  <2>2. t.flaws = p.flaws \cup k.flaws /\ t.says = <<p.says, k.says>>
    BY DEF Text
  <2>3. "ADMIT" \in RawRoutes(t)
           <=> p.flaws \cup k.flaws = {} /\ <<p.says, k.says>> \in Admissible
    BY <2>1, <2>2, RawAdmits
  <2>4. "ADMIT" \in SeparateRoutes(p, k)
           <=> p.flaws \cup k.flaws = {} /\ <<p.says, k.says>> \in Admissible
    BY <2>1, SeparateAdmits
  <2>5. QED
    BY <2>3, <2>4
<1>2. QED
  BY <1>1, Inductive, PTL
===============================================================================
