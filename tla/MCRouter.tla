------------------------------ MODULE MCRouter ------------------------------
(* Every function of the catalogue, with GLM-OCR on and off, on files of   *)
(* every kind: some are not what any function takes, some are text whose   *)
(* wide characters fall on or across the end of the sample.                *)
EXTENDS Ingest

MCRegistries == {buildProviderRegistry(glm) : glm \in BOOLEAN}

Run(kind, width, count) == [kind |-> kind, width |-> width, count |-> count]
Binary(detected) == [detected |-> detected, text |-> <<>>]
Bare(text) == [detected |-> <<>>, text |-> text]

MCFiles ==
    {Binary(mime) : mime \in {<<"application", "pdf">>, <<"image", "png">>, <<"image", "heic">>,
                              <<"application", "docx">>, <<"application", "zip">>,
                              <<"audio", "mpeg">>}}
    \cup {Bare(<<>>), Bare(<<Run("NUL", 1, 9)>>), Bare(<<Run("malformed", 1, 9)>>)}
    \cup {Bare(<<Run("printable", 1, before), Run("printable", width, 2), Run(kind, 1, after)>>) :
            before \in {90, 4091, 4092, 4095}, width \in {1, 2, 3},
            kind \in {"printable", "control", "NUL", "malformed"}, after \in {1, 11}}
=============================================================================
