---------------------------- MODULE RouterProofs ----------------------------
(***************************************************************************)
(* Proofs about routeProvider, for every registry, policy and catalogue,   *)
(* and about the files that are routed, for every text.                    *)
(***************************************************************************)
EXTENDS Ingest, FoldProofs

(* What has been kept is what could be kept of the names offered so far.   *)
KeptSoFar ==
    \A p : p \in Kept <=> /\ p \in Candidates(registry, fn, group)
                          /\ \E j \in 1..(next - 1) : Names[j] = p

KeptInOrder ==
    \A i, j \in DOMAIN ordered :
        i < j => Before(ordered[i], ordered[j], registry, fn, group)

Decided ==
    decision # "none" =>
        /\ next = Len(Names) + 1
        /\ decision = "throw" <=> ordered = <<>>

IInv == TypeOK /\ KeptSoFar /\ KeptInOrder /\ Decided

-----------------------------------------------------------------------------

LEMMA NamesAreStrings ==
    ASSUME TypeOK
    PROVE  Names \in Seq(STRING) /\ Len(Names) \in Nat
  <1>1. registry \in Seq(STRING)
    BY RouterAssumption DEF TypeOK
  <1>2. preferenceOrder(fn, group) \in Seq(STRING)
    BY RouterAssumption DEF TypeOK
  <1> QED
    BY <1>1, <1>2 DEF Names, Offered

(* A registered provider is offered, preferred or not.                     *)
LEMMA EveryProviderIsOffered ==
    ASSUME TypeOK, NEW p \in Registered(registry)
    PROVE  \E j \in 1..Len(Names) : Names[j] = p
  <1> DEFINE preferred == preferenceOrder(fn, group)
  <1>1. registry \in Seq(STRING) /\ preferred \in Seq(STRING)
    BY RouterAssumption DEF TypeOK
  <1>2. PICK i \in 1..Len(registry) : registry[i] = p
    BY <1>1 DEF Registered
  <1> HIDE DEF preferred
  <1>3. Names = preferred \o registry
    BY DEF Names, Offered, preferred
  <1>4. Len(preferred) + i \in 1..Len(Names) /\ Names[Len(preferred) + i] = p
    BY <1>1, <1>2, <1>3
  <1> QED
    BY <1>4

(* Two kept providers are in order, so they are different.                 *)
LEMMA NotBeforeItself ==
    ASSUME TypeOK, NEW p
    PROVE  ~Before(p, p, registry, fn, group)
  <1> SUFFICES ASSUME NEW i \in DOMAIN Names, Names[i] = p,
                      \A j \in 1..i : Names[j] # p
               PROVE  FALSE
    BY DEF Before, Names
  <1>1. i \in 1..i
    BY NamesAreStrings
  <1> QED
    BY <1>1

LEMMA PushStep ==
    ASSUME IInv, push
    PROVE  IInv'
  <1> DEFINE name == Names[next]
  <1>0. /\ UNCHANGED <<registry, fn, group, decision>>
        /\ Names' = Names
        /\ next \in 1..Len(Names) /\ next' = next + 1
        /\ Len(Names) \in Nat
        /\ decision = "none"
        /\ ordered \in Seq(DOMAIN ProviderDef)
    BY NamesAreStrings DEF push, Names, IInv, TypeOK, Decided
  <1>1. CASE name \in Candidates(registry, fn, group) \ Kept
    <2>1. ordered' = Append(ordered, name)
      BY <1>1 DEF push
    <2>2. name \in DOMAIN ProviderDef
      <3>1. name \in Registered(registry)
        BY <1>1 DEF Candidates
      <3>2. registry \in Seq(DOMAIN ProviderDef)
        BY RouterAssumption DEF IInv, TypeOK
      <3> QED
        BY <3>1, <3>2 DEF Registered
    <2>3. /\ ordered' \in Seq(DOMAIN ProviderDef)
          /\ DOMAIN ordered' = 1..(Len(ordered) + 1)
          /\ DOMAIN ordered = 1..Len(ordered)
          /\ Len(ordered) \in Nat
          /\ ordered'[Len(ordered) + 1] = name
          /\ \A i \in 1..Len(ordered) : ordered'[i] = ordered[i]
      BY <1>0, <2>1, <2>2
    <2>4. TypeOK'
      BY <1>0, <2>3 DEF IInv, TypeOK
    <2>5. Kept' = Kept \cup {name}
      BY <2>3 DEF Kept
    <2>6. KeptSoFar'
      BY <1>0, <1>1, <2>5 DEF IInv, KeptSoFar
    <2>7. \A i \in 1..Len(ordered) : Before(ordered[i], name, registry, fn, group)
      <3> TAKE i \in 1..Len(ordered)
      <3>1. ordered[i] \in Kept
        BY <2>3 DEF Kept
      <3>2. PICK k \in 1..(next - 1) : Names[k] = ordered[i]
        BY <3>1 DEF IInv, KeptSoFar
      <3>3. \A j \in 1..(next - 1) : Names[j] # name
        BY <1>1 DEF IInv, KeptSoFar
      <3>4. k \in DOMAIN Names /\ 1..k \subseteq 1..(next - 1)
        BY <1>0, NamesAreStrings DEF IInv
      <3> QED
        BY <3>2, <3>3, <3>4 DEF Before, Names
    <2>8. KeptInOrder'
      <3> SUFFICES ASSUME NEW i \in 1..(Len(ordered) + 1), NEW j \in 1..(Len(ordered) + 1),
                          i < j
                   PROVE  Before(ordered'[i], ordered'[j], registry, fn, group)
        BY <1>0, <2>3 DEF KeptInOrder
      <3>1. i \in 1..Len(ordered)
        BY <2>3
      <3>2. CASE j = Len(ordered) + 1
        BY <2>3, <2>7, <3>1, <3>2
      <3>3. CASE j \in 1..Len(ordered)
        BY <2>3, <3>1, <3>3 DEF IInv, KeptInOrder
      <3> QED
        BY <2>3, <3>2, <3>3
    <2>9. Decided'
      BY <1>0 DEF Decided
    <2> QED
      BY <2>4, <2>6, <2>8, <2>9 DEF IInv
  <1>2. CASE name \notin Candidates(registry, fn, group) \ Kept
    <2>1. ordered' = ordered
      BY <1>2 DEF push
    <2>2. TypeOK'
      BY <1>0, <2>1 DEF IInv, TypeOK
    <2>3. Kept' = Kept
      BY <2>1 DEF Kept
    <2>4. KeptSoFar'
      BY <1>0, <1>2, <2>3 DEF IInv, KeptSoFar
    <2>5. KeptInOrder' /\ Decided'
      BY <1>0, <2>1 DEF IInv, KeptInOrder, Decided
    <2> QED
      BY <2>2, <2>4, <2>5 DEF IInv
  <1> QED
    BY <1>1, <1>2

LEMMA DecideStep ==
    ASSUME IInv, decide
    PROVE  IInv'
  <1>1. /\ UNCHANGED <<registry, fn, group, next, ordered>>
        /\ Names' = Names /\ Kept' = Kept
    BY DEF decide, Names, Kept
  <1>2. next = Len(Names) + 1
    BY NamesAreStrings DEF IInv, TypeOK, decide
  <1> QED
    BY <1>1, <1>2 DEF decide, IInv, TypeOK, KeptSoFar, KeptInOrder, Decided

(* In every state the chain is what could be kept of the names offered so  *)
(* far, in order (providers/router.ts).                                    *)
THEOREM Inductive == Spec => []IInv
  <1>1. Init => IInv
    <2> SUFFICES ASSUME Init PROVE IInv
      OBVIOUS
    <2>1. TypeOK
      <3>1. registry \in Seq(STRING) /\ preferenceOrder(fn, group) \in Seq(STRING)
        BY RouterAssumption DEF Init
      <3>2. Names \in Seq(STRING)
        BY <3>1 DEF Names, Offered
      <3>3. Len(Names) \in Nat
        BY <3>2
      <3> QED
        BY <3>3 DEF Init, TypeOK
    <2>2. KeptSoFar /\ KeptInOrder /\ Decided
      BY DEF Init, KeptSoFar, KeptInOrder, Decided, Kept
    <2> QED
      BY <2>1, <2>2 DEF IInv
  <1>2. IInv /\ [Next]_vars => IInv'
    <2>1. IInv /\ UNCHANGED vars => IInv'
      BY DEF vars, IInv, TypeOK, KeptSoFar, KeptInOrder, Decided, Kept, Names
    <2> QED
      BY <2>1, PushStep, DecideStep DEF Next
  <1> QED
    BY <1>1, <1>2, PTL DEF Spec

(* The chain holds the capable providers, all of them, once each, with any *)
(* registry, policy and function.                                          *)
THEOREM RouterIsSoundAndComplete == Spec => []ChainIsExactlyTheCapable
  <1>1. IInv => ChainIsExactlyTheCapable
    <2> SUFFICES ASSUME IInv, decision # "none"
                 PROVE  /\ Kept = Candidates(registry, fn, group)
                        /\ \A i, j \in DOMAIN ordered : ordered[i] = ordered[j] => i = j
                        /\ decision = "throw" <=> Kept = {}
      BY DEF ChainIsExactlyTheCapable, Candidates, providerSatisfies
    <2>1. Kept = Candidates(registry, fn, group)
      <3>1. next - 1 = Len(Names)
        BY NamesAreStrings DEF IInv, Decided
      <3>2. \A p \in Candidates(registry, fn, group) :
                \E j \in 1..(next - 1) : Names[j] = p
        BY <3>1, EveryProviderIsOffered DEF Candidates, IInv
      <3> QED
        BY <3>2 DEF IInv, KeptSoFar
    <2>2. DOMAIN ordered = 1..Len(ordered) /\ Len(ordered) \in Nat
      BY DEF IInv, TypeOK
    <2>3. \A i, j \in DOMAIN ordered : ordered[i] = ordered[j] => i = j
      <3> SUFFICES ASSUME NEW i \in 1..Len(ordered), NEW j \in 1..Len(ordered),
                          i < j, ordered[i] = ordered[j]
                   PROVE  FALSE
        BY <2>2
      <3>1. Before(ordered[i], ordered[j], registry, fn, group)
        BY <2>2 DEF IInv, KeptInOrder
      <3> QED
        BY <3>1, NotBeforeItself DEF IInv
    <2>4. Kept = {} <=> ordered = <<>>
      <3>1. Kept = {} <=> Len(ordered) = 0
        <4>1. Len(ordered) # 0 => ordered[1] \in Kept
          BY <2>2 DEF Kept
        <4>2. Len(ordered) = 0 => DOMAIN ordered = {}
          BY <2>2
        <4>3. DOMAIN ordered = {} => Kept = {}
          BY DEF Kept
        <4> QED
          BY <4>1, <4>2, <4>3
      <3>2. Len(ordered) = 0 <=> ordered = <<>>
        BY DEF IInv, TypeOK
      <3> QED
        BY <3>1, <3>2
    <2> QED
      BY <2>1, <2>3, <2>4 DEF IInv, Decided
  <1> QED
    BY <1>1, Inductive, PTL

(* The chain is in the order by which Extraction chooses the next provider. *)
THEOREM RouterFollowsPreference == Spec => []ChainFollowsPreference
  <1>1. IInv => ChainFollowsPreference
    <2> SUFFICES ASSUME IInv, NEW i \in DOMAIN ordered
                 PROVE  IsFirst(ordered[i], {ordered[j] : j \in i..Len(ordered)},
                                registry, fn, group)
      BY DEF ChainFollowsPreference
    <2>1. DOMAIN ordered = 1..Len(ordered) /\ Len(ordered) \in Nat
      BY DEF IInv, TypeOK
    <2>2. \A j \in i..Len(ordered) :
              ordered[j] # ordered[i] =>
                  Before(ordered[i], ordered[j], registry, fn, group)
      BY <2>1 DEF IInv, KeptInOrder
    <2>3. i \in i..Len(ordered)
      BY <2>1
    <2> QED
      BY <2>2, <2>3 DEF IsFirst
  <1> QED
    BY <1>1, Inductive, PTL

(* The chain holds registered providers only, and the loop stays inside    *)
(* the names it offers, for every policy and registry.                     *)
THEOREM TypeCorrect == Spec => []TypeOK
  BY Inductive, PTL DEF IInv

-----------------------------------------------------------------------------
(* From the bytes of a file to a provider, with the functions and the      *)
(* providers that the service declares (Catalog) and the default policy or *)
(* any other.                                                              *)

Declared == FnDef = OcrFunction /\ ProviderDef = OcrProvider

WithGlm == buildProviderRegistry(TRUE)

LEMMA Registers == {"plain-text", "mammoth", "glm-ocr"} \subseteq Registered(WithGlm)
  <1> DEFINE four == <<"plain-text", "pdf-text", "mammoth", "tesseract">>
             one == <<"glm-ocr">>
             all == four \o one
             E == {"plain-text", "pdf-text", "mammoth", "tesseract", "glm-ocr"}
  <1>1. /\ four \in Seq(E) /\ Len(four) = 4 /\ one \in Seq(E) /\ Len(one) = 1
        /\ four[1] = "plain-text" /\ four[3] = "mammoth" /\ one[1] = "glm-ocr"
    <2>1. four \in Seq(E) /\ one \in Seq(E)
      OBVIOUS
    <2>2. Len(four) = 4 /\ Len(one) = 1
      OBVIOUS
    <2>3. four[1] = "plain-text" /\ four[3] = "mammoth" /\ one[1] = "glm-ocr"
      OBVIOUS
    <2> QED
      BY <2>1, <2>2, <2>3
  <1>2. WithGlm = all
    BY DEF WithGlm, buildProviderRegistry
  <1> HIDE DEF four, one, E
  <1>3. /\ DOMAIN all = 1..5 /\ all[1] = "plain-text" /\ all[3] = "mammoth"
        /\ all[5] = "glm-ocr"
    <2>1. four \in Seq(E) /\ one \in Seq(E)
      BY <1>1
    <2>2. /\ DOMAIN all = 1..(Len(four) + Len(one))
          /\ \A i \in 1..Len(four) : all[i] = four[i]
          /\ \A i \in 1..Len(one) : all[Len(four) + i] = one[i]
      BY <2>1, ConcatIs
    <2> HIDE DEF all
    <2>3. DOMAIN all = 1..5 /\ all[1] = four[1] /\ all[3] = four[3] /\ all[4 + 1] = one[1]
      BY <1>1, <2>2
    <2> QED
      BY <1>1, <2>3
  <1> HIDE DEF all
  <1> QED
    BY <1>2, <1>3 DEF Registered

LEMMA ProvidersAre ==
    ASSUME Declared
    PROVE  /\ ProviderDef["plain-text"] = plainText
           /\ ProviderDef["mammoth"] = mammoth
           /\ ProviderDef["glm-ocr"] = glmOcr
  BY DEF Declared, OcrProvider

(* What each function accepts, some registered provider can serve, but for *)
(* a resume in docx.                                                       *)
LEMMA SomeoneServes ==
    ASSUME Declared, NEW f \in DOMAIN FnDef, NEW g \in FnDef[f].accepts,
           <<f, g>> # <<"RESUME_PARSING", "docx">>
    PROVE  Candidates(WithGlm, f, g) # {}
  <1> DEFINE all == {"text", "layout", "tables", "handwriting", "seals"}
             def == FnDef[f]
  <1>1. /\ def.accepts \subseteq {"pdf", "image", "docx", "text"}
        /\ def.requires \subseteq all
        /\ "docx" \in def.accepts => def.requires \subseteq {"text"} \/ f = "RESUME_PARSING"
        /\ "text" \in def.accepts => def.requires \subseteq {"text"}
    BY DEF Declared, OcrFunction, Definition, signing, idVerification, documentClassification,
           formDataExtraction, receiptParsing, textExtraction, resumeParsing, documentAuthenticity
  <1> HIDE DEF def
  <1>2. CASE g \in {"pdf", "image"}
    <2>1. "glm-ocr" \in Candidates(WithGlm, f, g)
      BY <1>1, <1>2, Registers, ProvidersAre DEF Candidates, providerSatisfies, glmOcr, def
    <2> QED
      BY <2>1
  <1>3. CASE g = "docx"
    <2>1. "mammoth" \in Candidates(WithGlm, f, g)
      BY <1>1, <1>3, Registers, ProvidersAre DEF Candidates, providerSatisfies, mammoth, def
    <2> QED
      BY <2>1
  <1>4. CASE g = "text"
    <2>1. "plain-text" \in Candidates(WithGlm, f, g)
      BY <1>1, <1>4, Registers, ProvidersAre DEF Candidates, providerSatisfies, plainText, def
    <2> QED
      BY <2>1
  <1> QED
    BY <1>1, <1>2, <1>3, <1>4 DEF def

(* Where the runs of a text end.                                           *)
LEMMA RunFields ==
    \A r \in CharacterRun :
        /\ r.kind \in {"printable", "control", "NUL", "malformed"}
        /\ r.width \in 1..4 /\ r.count \in Nat \ {0}
        /\ r.kind = "control" => r.width = 1
  BY DEF CharacterRun

LEMMA EndIs ==
    ASSUME NEW text \in Seq(CharacterRun)
    PROVE  /\ Len(text) \in Nat /\ End(text, 0) = 0
           /\ \A i \in 1..Len(text) :
                  /\ End(text, i - 1) \in Nat /\ End(text, i) \in Nat \ {0}
                  /\ End(text, i) = End(text, i - 1) + text[i].width * text[i].count
  <1> DEFINE n == Len(text)
             size == [j \in DOMAIN text |-> text[j].width * text[j].count]
             Sum(i) == SumFunctionOnSet(size, 1..i)
  <1>1. /\ n \in Nat /\ DOMAIN text = 1..n
        /\ \A j \in 1..n : text[j] \in CharacterRun
    OBVIOUS
  <1>2. \A w \in 1..4, c \in Nat \ {0} : w * c \in Nat \ {0}
    OBVIOUS
  <1>3. \A j \in 1..n : /\ size[j] = text[j].width * text[j].count
                        /\ size[j] \in Nat \ {0}
    <2>1. ASSUME NEW j \in 1..n
          PROVE  text[j].width \in 1..4 /\ text[j].count \in Nat \ {0}
      BY <1>1, RunFields
    <2> QED
      BY <1>1, <1>2, <2>1
  <1>4. \A i : End(text, i) = Sum(i)
    BY DEF End
  <1> HIDE DEF size, n
  <1>5. Sum(0) = 0
    <2>1. 1..0 = {}
      OBVIOUS
    <2> QED
      BY <2>1, SumOfNone
  <1>6. \A i \in 0..n : Summable(size, 1..i)
    <2>1. \A i \in 0..n : IsFiniteSet(1..i)
      BY <1>1, FS_Interval
    <2>2. \A i \in 0..n : \A j \in 1..i : j \in 1..n
      BY <1>1
    <2>3. \A j \in 1..n : size[j] \in Int
      BY <1>3
    <2> QED
      BY <2>1, <2>2, <2>3 DEF Summable
  <1>7. ASSUME NEW i \in 1..n
        PROVE  Sum(i) = Sum(i - 1) + size[i]
    <2>1. 1..i = (1..(i - 1)) \cup {i} /\ i \notin 1..(i - 1) /\ i \in 0..n
      BY <1>1
    <2>2. Summable(size, (1..(i - 1)) \cup {i})
      BY <1>6, <2>1
    <2>3. SumFunctionOnSet(size, (1..(i - 1)) \cup {i})
              = SumFunctionOnSet(size, 1..(i - 1)) + size[i]
      BY <2>1, <2>2, SumAdd
    <2> QED
      BY <2>1, <2>3
  <1> DEFINE P == {i \in 0..n : Sum(i) \in Nat}
  <1> HIDE DEF Sum
  <1>8. 0..n \subseteq P
    <2>1. 0 \in P
      BY <1>1, <1>5
    <2>2. ASSUME NEW i \in 1..n, i - 1 \in P
          PROVE  i \in P
      BY <1>1, <1>3, <1>7, <2>2
    <2> HIDE DEF P
    <2> QED
      BY <1>1, <2>1, <2>2, PrefixInduction
  <1>9. ASSUME NEW i \in 1..n
        PROVE  Sum(i - 1) \in Nat /\ Sum(i) \in Nat \ {0}
    <2>1. i - 1 \in 0..n
      BY <1>1
    <2>2. Sum(i - 1) \in Nat
      BY <1>8, <2>1
    <2> QED
      BY <1>3, <1>7, <2>2
  <1> QED
    BY <1>1, <1>3, <1>4, <1>5, <1>7, <1>9 DEF n
(* The control characters of the sample are no more than those of the text, *)
(* so that a text is found to be one.                                      *)
LEMMA TextIsFound ==
    ASSUME NEW f, f.text \in Seq(CharacterRun), IsText(f), ~ Cuts(f.text)
    PROVE  sniff(f) = "text"
  <1> DEFINE text == f.text
             n == Len(text)
             end == SampleEnd(text)
             count == [i \in DOMAIN text |-> text[i].count]
             inSample == [i \in DOMAIN text |-> Min({End(text, i), end}) - Start(text, i)]
             S == {i \in DOMAIN text : text[i].kind = "control"}
             T == {i \in Sampled(text) : text[i].kind = "control"}
  <1>1. /\ f.detected = <<>> /\ text # <<>>
        /\ \A i \in DOMAIN text : text[i].kind \notin {"NUL", "malformed"}
        /\ 10 * SumFunctionOnSet(count, S) <= end
    BY DEF IsText
  <1>2. /\ n \in Nat /\ n # 0 /\ DOMAIN text = 1..n
        /\ \A i \in 1..n : text[i] \in CharacterRun
    BY <1>1
  <1>3. \A i \in 1..n :
            /\ End(text, i - 1) \in Nat /\ End(text, i) \in Nat \ {0}
            /\ End(text, i) = End(text, i - 1) + text[i].width * text[i].count
    BY EndIs
  <1>4. Length(text) \in Nat \ {0} /\ end \in Int
    <2>1. n \in 1..n
      BY <1>2
    <2>2. Length(text) \in Nat \ {0}
      BY <1>3, <2>1 DEF Length
    <2> DEFINE len == Length(text)
               most == TEXT_SAMPLE_BYTES
    <2>3. len \in Int /\ most \in Int
      BY <2>2 DEF TEXT_SAMPLE_BYTES
    <2>4. end = Min({len, most})
      BY DEF SampleEnd
    <2>5. len \in Nat \ {0}
      BY <2>2
    <2> HIDE DEF end, len, most
    <2>6. end \in Int
      BY <2>3, <2>4, MinOfTwo
    <2> QED
      BY <2>2, <2>6
  <1>5. T \subseteq S /\ S \subseteq 1..n
    BY <1>2 DEF Sampled
  <1>6. \A i \in S : /\ count[i] \in Nat /\ text[i].width = 1
                     /\ count[i] = text[i].count
    <2>1. ASSUME NEW i \in S
          PROVE  text[i].count \in Nat /\ text[i].width = 1
      BY <1>2, RunFields
    <2> QED
      BY <2>1
  <1>7. ASSUME NEW i \in T
        PROVE  inSample[i] \in Int /\ inSample[i] <= count[i]
    <2> DEFINE s == End(text, i - 1)
               e == End(text, i)
    <2>1. i \in 1..n /\ i \in S
      BY <1>5
    <2>2. s \in Nat /\ e \in Nat /\ e = s + text[i].width * text[i].count
      BY <1>3, <2>1
    <2>3. e = s + count[i] /\ count[i] \in Nat
      <3> DEFINE c == count[i]
                 w == text[i].width
                 k == text[i].count
      <3>1. c \in Nat /\ w = 1 /\ c = k
        BY <1>6, <2>1
      <3>2. e = s + w * k
        BY <2>2
      <3> HIDE DEF e, s, c, w, k
      <3>3. e = s + c /\ c \in Nat
        BY <2>2, <3>1, <3>2
      <3> QED
        BY <3>3 DEF c
    <2>4. inSample[i] = Min({e, end}) - s
      BY <1>2, <2>1 DEF Start
    <2> HIDE DEF s, e, end, inSample, count
    <2>5. e \in Int /\ end \in Int
      BY <1>4, <2>2
    <2> DEFINE m == Min({e, end})
               x == inSample[i]
               c == count[i]
    <2>6. m \in Int /\ m <= e
      BY <2>5, MinOfTwo
    <2>7. x = m - s /\ e = s + c /\ c \in Nat
      BY <2>3, <2>4
    <2> HIDE DEF m, x, c
    <2>8. x \in Int /\ x <= c
      BY <2>2, <2>6, <2>7
    <2> QED
      BY <2>8 DEF x, c
  <1> HIDE DEF inSample, count, S, T, end
  <1>8. Summable(count, S) /\ AtMost(inSample, T, count, S)
    <2>1. IsFiniteSet(1..n)
      BY <1>2, FS_Interval
    <2>2. IsFiniteSet(S)
      BY <1>5, <2>1, FS_Subset
    <2>3. \A i \in S : count[i] \in Int /\ count[i] >= 0
      BY <1>6
    <2> QED
      BY <1>5, <1>7, <2>2, <2>3 DEF Summable, AtMost
  <1>9. /\ SumFunctionOnSet(inSample, T) \in Int /\ SumFunctionOnSet(count, S) \in Int
        /\ SumFunctionOnSet(inSample, T) <= SumFunctionOnSet(count, S)
    BY <1>8, SumAtMost
  <1>10. Controls(text) = SumFunctionOnSet(inSample, T)
    BY DEF Controls, inSample, T, end
  <1>11. 10 * Controls(text) <= end
    BY <1>1, <1>4, <1>9, <1>10
  <1>12. isProbablyText(text)
    BY <1>1, <1>4, <1>11 DEF isProbablyText, Sampled, end
  <1> QED
    BY <1>1, <1>12 DEF sniff

(* The group of the file that is routed is what it was sniffed to be.      *)
Accepted == fn \in DOMAIN FnDef /\ group \in FnDef[fn].accepts

LEMMA AlwaysAccepted ==
    IngestSpec => [](Accepted /\ ChainIsExactlyTheCapable)
  <1>1. IngestInit => Init /\ Accepted
    BY DEF IngestInit, Init, Accepted
  <1>2. [Next /\ UNCHANGED file]_<<vars, file>> => [Next]_vars
    BY DEF vars
  <1>3. Accepted /\ [Next]_vars => Accepted'
    BY DEF Accepted, Next, push, decide, vars
  <1> QED
    BY <1>1, <1>2, <1>3, RouterIsSoundAndComplete, PTL DEF IngestSpec, Spec

(* With the functions and providers of the service, whatever the policy    *)
(* and the files.                                                          *)
THEOREM AcceptedIsServed ==
    ASSUME FnDef = OcrFunction, ProviderDef = OcrProvider
    PROVE  IngestSpec => []AcceptedIsRoutable
  <1>1. Accepted /\ ChainIsExactlyTheCapable => AcceptedIsRoutable
    <2> SUFFICES ASSUME Accepted, ChainIsExactlyTheCapable PROVE AcceptedIsRoutable
      OBVIOUS
    <2>1. ASSUME decision = "throw", registry = WithGlm,
                 <<fn, group>> # <<"RESUME_PARSING", "docx">>
          PROVE  FALSE
      <3>1. Kept = {} /\ Kept = Candidates(WithGlm, fn, group)
        BY <2>1 DEF ChainIsExactlyTheCapable, Candidates, providerSatisfies
      <3>2. Candidates(WithGlm, fn, group) # {}
        BY <2>1, SomeoneServes DEF Accepted, Declared
      <3> QED
        BY <3>1, <3>2
    <2>2. ASSUME NEW f \in Files, IsText(f), ~ Cuts(f.text)
          PROVE  sniff(f) = "text"
      <3>1. f.text \in Seq(CharacterRun)
        BY IngestAssumption
      <3> QED
        BY <2>2, <3>1, TextIsFound
    <2> QED
      BY <2>1, <2>2 DEF AcceptedIsRoutable, WithGlm
  <1> QED
    BY <1>1, AlwaysAccepted, PTL
=============================================================================
