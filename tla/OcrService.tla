----------------------------- MODULE OcrService -----------------------------
(***************************************************************************)
(* What the pipeline promises its callers, with no word of caches,         *)
(* fallback chains or metrics: a run of a function on a document is        *)
(* answered at most once, either with the result of a document recognised  *)
(* by a provider able to serve that function, or with an error code.       *)
(***************************************************************************)
EXTENDS Routing

CONSTANTS
    Runs,       \* the calls of runPipeline
    Shas,       \* the uploaded documents, by content hash
    GroupOf,    \* sha -> mime group, or "unknown" for a type sniff rejects
    Functions,  \* the functions called
    Registry    \* the providers of this process, in order

VARIABLES
    req,        \* run -> NoRun or what was asked
    answer      \* run -> NoAnswer or how it ended

vars == <<req, answer>>

NoRun == [fn |-> "none", sha |-> "none"]
NoAnswer == [outcome |-> "none", provider |-> "none"]

(* The codes of http/errors.ts a run can end with; "untyped" is an Error   *)
(* that is no OcrError.                                                    *)
ErrorCode ==
    {"INVALID_ARGS", "UNSUPPORTED_MEDIA_TYPE", "EXTRACTION_FAILED",
     "PAGE_LIMIT_EXCEEDED", "INTERPRETATION_FAILED",
     "SCHEMA_VALIDATION_FAILED", "untyped"}

Capable(fn, sha) == Candidates(Registry, fn, GroupOf[sha])

Init ==
    /\ req = [r \in Runs |-> NoRun]
    /\ answer = [r \in Runs |-> NoAnswer]

Ask(r) ==
    /\ req[r] = NoRun
    /\ \E fn \in Functions, sha \in Shas :
          req' = [req EXCEPT ![r] = [fn |-> fn, sha |-> sha]]
    /\ UNCHANGED answer

(* "none" is the provider of the empty document of a function that skips   *)
(* extraction.                                                             *)
Serve(r) ==
    /\ req[r] # NoRun /\ answer[r] = NoAnswer
    /\ GroupOf[req[r].sha] \in FnDef[req[r].fn].accepts
    /\ \E p \in IF FnDef[req[r].fn].skipExtraction
                THEN {"none"}
                ELSE Capable(req[r].fn, req[r].sha) :
          answer' = [answer EXCEPT ![r] = [outcome |-> "success", provider |-> p]]
    /\ UNCHANGED req

Refuse(r) ==
    /\ req[r] # NoRun /\ answer[r] = NoAnswer
    /\ \E code \in ErrorCode :
          /\ code = "untyped" => Capable(req[r].fn, req[r].sha) = {}
          /\ answer' = [answer EXCEPT ![r] = [outcome |-> code, provider |-> "none"]]
    /\ UNCHANGED req

Next == \E r \in Runs : Ask(r) \/ Serve(r) \/ Refuse(r)

Spec == Init /\ [][Next]_vars /\ \A r \in Runs : WF_vars(Serve(r) \/ Refuse(r))

=============================================================================
