------------------------ MODULE MCDocumentFunctions ------------------------
EXTENDS DocumentFunctions

(* What the API reads on page p, or tells of it: a cue beside its mark; a  *)
(* two-column page whose label for a region is unknown; a blank page; and  *)
(* a body that tells of two pages.                                         *)
Says(p, text) == [of |-> p, text |-> text]
Block(label, bbox, content) == [label |-> label, bbox_2d |-> bbox, content |-> content]
Body(p, text, dims, layout, tokens) ==
    [markdown |-> Says(p, text), dims |-> dims, layout |-> layout, tokens |-> tokens]

Signed(p) == <<Block("text", <<10, 80, 30, 82>>, Says(p, "Signature")),
               Block("image", <<10, 84, 30, 90>>, Says(p, "")),
               Block("text", <<12, 91, 30, 93>>, Says(p, "Director")),
               Block("image", <<60, 10, 70, 14>>, Says(p, ""))>>
Columns(p) == <<Block("text", <<5, 10, 45, 20>>, Says(p, "left top")),
                Block("table", <<55, 8, 95, 20>>, Says(p, "right top")),
                Block("text", <<5, 40, 45, 50>>, Says(p, "left below")),
                Block("seal", <<60, 50, 90, 60>>, Says(p, "right below")),
                Block("text", <<10, 92, 40, 95>>, Says(p, "Signature"))>>

MCResponsesOf == [p \in Page |->
    {Body(p, "signed", 1, <<Signed(p)>>, 3),
     Body(p, "columns", 1, <<Columns(p)>>, 2),
     Body(p, "", 0, <<>>, 0),
     Body(p, "two", 1, <<Signed(p), Columns(p)>>, 1)}]

MCMentions == [text \in {"", "left top", "right top", "left below", "right below",
                         "Signature", "Director"} |->
                  {text} \cap {"Signature", "Director"}]

(* The texts of identity documents: prose, a zone of two or three lines    *)
(* alone, after or before a line that looks like one, and a broken zone.   *)
Date(form, y, m, d) == [form |-> form, y |-> y, m |-> m, d |-> d]
Word(word, spelled) == [word |-> word, spelled |-> spelled]
Line(looks, n) == [looks |-> looks, n |-> n]
ZoneLines(length) == [n \in 1..length |-> Line(TRUE, n)]

MCToday == UTC(2026, 7, 15)

MCTexts(length) ==
    {<<Line(FALSE, 0)>>, <<Line(FALSE, 0)>> \o ZoneLines(length),
     <<Line(TRUE, 0)>> \o ZoneLines(length), ZoneLines(length) \o <<Line(FALSE, 0)>>,
     ZoneLines(length) \o <<Line(TRUE, 0)>>, <<Line(TRUE, 0)>> \o Tail(ZoneLines(length))}

MCZoneFields ==
    {[fullName |-> Word("ada", "CAPITALS"), dateOfBirth |-> Date("mrz", 1974, 8, 12),
      documentNumber |-> Word("A1", "A1"), expiryDate |-> Date("mrz", 2036, 2, 29)],
     [fullName |-> Word("ada", "CAPITALS"), dateOfBirth |-> Date("mrz", 1948, 8, 12),
      documentNumber |-> Null, expiryDate |-> Date("mrz", 2026, 7, 15)]}

MCLlmFields ==
    {[fullName |-> n, dateOfBirth |-> b, documentNumber |-> Word("B2", "B-2"), expiryDate |-> e] :
        n \in {Null, Word("ada", "Capitalised")},
        b \in {Null, Date("iso", 1974, 8, 12)},
        e \in {Null, Date("iso", 2026, 7, 15), Date("iso", 2026, 7, 16),
               Date("words", 2030, 12, 12), Date("words", 2027, 1, 2),
               [form |-> "unreadable"]}}

MCIdentities ==
    UNION {{[text |-> t, zone |-> [length |-> length, valid |-> v, fields |-> z], llm |-> l] :
               t \in MCTexts(length), v \in BOOLEAN, z \in MCZoneFields, l \in MCLlmFields} :
           length \in {2, 3}}

MCExpected ==
    {[fullName |-> n, dateOfBirth |-> b, documentNumber |-> Null] :
        n \in {Null, Word("ada", "lower")},
        b \in {Null, Date("iso", 1974, 8, 12), Date("iso", 1974, 8, 13)}}

(* The arguments and the answers of a form.                                *)
Field(name, type, required, enum) ==
    [name |-> name, type |-> type, required |-> required, enum |-> enum]
Schema(paths, accepts) ==
    <<[paths |-> paths, bytes |-> 100, compiles |-> TRUE, accepts |-> accepts]>>
Value(type, text) == [type |-> type, text |-> text]

MCAnswers ==
    {"total" :> t : t \in {Value("number", "7"), Value("string", "7"), Value("null", "")}}
    \cup {"total" :> Value("number", "7") @@ "paid" :> p :
            p \in {Value("string", "yes"), Value("string", "so"), Value("null", "")}}
    \cup {"other" :> Value("boolean", "true")}

Total == Field("total", "number", TRUE, {})
MCFields ==
    {Missing, <<Total>>, <<Total, Field("paid", "number", FALSE, {"yes", "no"})>>,
     <<Total, Field("total", "date", FALSE, {})>>,
     [i \in 1..51 |-> Field("total", "number", FALSE, {})]}

Properties == {<<>>, <<"properties">>, <<"properties", "total">>}
Keywords(count) == {<<>>} \cup {<<ToString(i)>> : i \in 1..count}
HasTotal == {a \in MCAnswers : "total" \in DOMAIN a}
MCSchemas ==
    {Missing, Schema(Properties, HasTotal),
     Schema(Properties \cup {<<"properties", "total", "type">>},
            {a \in HasTotal : a["total"].type = "number"}),
     Schema(Keywords(49), MCAnswers), Schema(Keywords(50), MCAnswers),
     <<[Schema(Properties, HasTotal)[1] EXCEPT !.bytes = 20001]>>,
     <<[Schema(Properties, HasTotal)[1] EXCEPT !.compiles = FALSE]>>}

MCFormArgs == {[fields |-> f, schema |-> s] : f \in MCFields, s \in MCSchemas}

(* Files, saved up to three times and signed at any.                       *)
MCSaves == UNION {[1..n -> [signs : BOOLEAN, bytes : {100}]] : n \in 1..3}
MCMeta ==
    {<<>>} \cup {<<[producer |-> p, creator |-> "word", modified |-> m]>> :
                    p \in {"none", "word", "editor"}, m \in BOOLEAN}
MCPdfs == [mimeGroup : {"pdf"}, saves : MCSaves, trailing : {0, 5, 6},
           form : BOOLEAN, meta : MCMeta]
MCImages == [mimeGroup : {"image"}, container : {"jpeg", "png", "other"},
             head : SUBSET {"editor", "history", "exif"}]

MCTasks ==
    {[fn |-> "SIGNING", signatureCues |-> <<"Signature", "Director">>, geometryOnly |-> g] :
        g \in BOOLEAN}
    \cup {[fn |-> f] : f \in {"RESUME_PARSING", "RECEIPT_PARSING"}}
    \cup {[fn |-> "ID_VERIFICATION", expected |-> e] : e \in MCExpected}
    \cup {[fn |-> "FORM_DATA_EXTRACTION", args |-> a] : a \in MCFormArgs}
    \cup {[fn |-> "DOCUMENT_AUTHENTICITY", file |-> f] : f \in MCPdfs \cup MCImages}
    \cup {[fn |-> "TEXT_EXTRACTION", format |-> f, pageRange |-> r] :
        f \in {"plain", "markdown"}, r \in {<<>>, <<2, 2>>, <<2, 3>>}}

(* A sale with amounts that are missing, that agree, that nearly do and    *)
(* that do not, and a refund of the order of the floor of the tolerance.   *)
Receipt(items, subtotal, tax, tip, total) ==
    [lineItems |-> items, subtotal |-> subtotal, tax |-> tax, tip |-> tip,
     total |-> total, confidence |-> "low"]

MCReceipts ==
    {Receipt(<<<<100>>, <<>>, <<200>>>>, subtotal, <<20>>, tip, total) :
        subtotal \in {<<>>, <<300>>, <<306>>, <<320>>},
        tip \in {<<>>, <<30>>},
        total \in {<<>>, <<320>>, <<350>>, <<356>>}}
    \cup {Receipt(<<<<-20>>>>, subtotal, <<>>, <<0>>, total) :
        subtotal \in {<<-18>>, <<-23>>}, total \in {<<-18>>, <<-20>>}}
=============================================================================
