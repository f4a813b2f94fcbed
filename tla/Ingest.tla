------------------------------- MODULE Ingest -------------------------------
(***************************************************************************)
(* From the bytes of a file to the providers for it: ingest/sniff.ts tells *)
(* the mime group, the function accepts it or not (pipeline.ts), and       *)
(* module Router routes it.  A file is the mime type that file-type detects *)
(* in it, <<>> if none, and its text: a sequence of runs of one kind of    *)
(* character, each "width" bytes wide, "count" of them.                    *)
(***************************************************************************)
EXTENDS Router, Catalog, FiniteSets, FiniteSetsExt, Functions

CONSTANT Files          \* the files uploaded

VARIABLE file

(* A control character is a byte below 0x20 (sniff.ts:79).                 *)
CharacterRun ==
    {r \in [kind : {"printable", "control", "NUL", "malformed"}, width : 1..4,
            count : Nat \ {0}] :
        r.kind = "control" => r.width = 1}

ASSUME IngestAssumption == \A f \in Files : f.text \in Seq(CharacterRun)

toMimeGroup(mime) ==
    CASE mime = <<"application", "pdf">> -> "pdf"
      [] mime[1] = "image" -> "image"
      [] mime = <<"application", "docx">> -> "docx"
      [] mime \in {<<"text", "plain">>, <<"text", "markdown">>} -> "text"
      [] OTHER -> "unknown"

-----------------------------------------------------------------------------
(* The heuristic for what has no signature.                                *)

TEXT_SAMPLE_BYTES == 4096

End(text, i) ==
    SumFunctionOnSet([j \in DOMAIN text |-> text[j].width * text[j].count], 1..i)
Start(text, i) == End(text, i - 1)
Length(text) == End(text, Len(text))
SampleEnd(text) == Min({Length(text), TEXT_SAMPLE_BYTES})

(* The sample ends inside a character.                                     *)
Cuts(text) ==
    \E i \in DOMAIN text :
        /\ Start(text, i) < SampleEnd(text) /\ SampleEnd(text) < End(text, i)
        /\ (SampleEnd(text) - Start(text, i)) % text[i].width # 0

Sampled(text) == {i \in DOMAIN text : Start(text, i) < SampleEnd(text)}

Controls(text) ==
    LET InSample(i) == Min({End(text, i), SampleEnd(text)}) - Start(text, i)
    IN SumFunctionOnSet([i \in DOMAIN text |-> InSample(i)],
                        {i \in Sampled(text) : text[i].kind = "control"})

isProbablyText(text) ==
    /\ Length(text) > 0
    /\ \A i \in Sampled(text) : text[i].kind \notin {"NUL", "malformed"}
    /\ ~Cuts(text)
    /\ 10 * Controls(text) <= SampleEnd(text)

sniff(f) ==
    IF f.detected # <<>> THEN toMimeGroup(f.detected)
    ELSE IF isProbablyText(f.text) THEN "text"
    ELSE "unknown"

-----------------------------------------------------------------------------
(* Of the files that function fn accepts; the others are refused with      *)
(* UNSUPPORTED_MEDIA_TYPE.                                                 *)

IngestInit ==
    /\ Init
    /\ file \in Files
    /\ group = sniff(file)
    /\ group \in FnDef[fn].accepts

IngestSpec == IngestInit /\ [][Next /\ UNCHANGED file]_<<vars, file>>

-----------------------------------------------------------------------------

(* A text: what decodes and has few control characters.                    *)
IsText(f) ==
    LET has(kind) == {i \in DOMAIN f.text : f.text[i].kind = kind}
        controls == SumFunctionOnSet([i \in DOMAIN f.text |-> f.text[i].count], has("control"))
    IN /\ f.detected = <<>> /\ f.text # <<>>
       /\ has("NUL") = {} /\ has("malformed") = {}
       /\ 10 * controls <= SampleEnd(f.text)

(* With GLM-OCR enabled a file that is a PDF, an image, a docx or a text   *)
(* in UTF-8 (sniff.ts:33-35) is served by each function that takes its     *)
(* format, from its bytes to a provider, but for two: RESUME_PARSING on    *)
(* docx, whose only provider has no layout (resume-parsing/index.ts:11),   *)
(* and a text with a character across the end of the sample (sniff.ts:71). *)
AcceptedIsRoutable ==
    /\ (decision = "throw" /\ registry = buildProviderRegistry(TRUE)) =>
           <<fn, group>> = <<"RESUME_PARSING", "docx">>
    /\ \A f \in Files : IsText(f) /\ ~Cuts(f.text) => sniff(f) = "text"

=============================================================================
