--------------------------- MODULE IdVerification ---------------------------
(***************************************************************************)
(* functions/id-verification: the machine-readable zone is looked for in   *)
(* the text, its fields are preferred to the model's, and the checks are   *)
(* computed from the fields.  What the mrz package and the model read is   *)
(* external.  A date is what it says, the day of year y, month m and day   *)
(* d, and how: in ISO form, as the YYMMDD of a zone, in words ("12 Dec     *)
(* 2030"), or so that nothing can read it.  A name or number is a word and *)
(* how it is spelled.  The server's time zone is UTC.                      *)
(***************************************************************************)
EXTENDS Integers, Lists

CONSTANT Today          \* the day on which the function runs

Null == [form |-> "null"]

-----------------------------------------------------------------------------
(* mrz.ts.  A line of the text may look like one of a zone, and be line n  *)
(* of the document's zone or none of its lines (n = 0).                    *)

Lines == {line \in [looks : BOOLEAN, n : Nat] : line.n # 0 => line.looks}

(* External: the parser takes the lines of a zone, all of them and no more.*)
tryParse(lines, zone) ==
    lines = [n \in 1..zone.length |-> [looks |-> TRUE, n |-> n]]

(* The last three lines that look right, else the last two.                *)
parseMrz(text, zone) ==
    LET candidates == Only(text, {line \in Lines : line.looks})
    IN \E count \in {2, 3} :
           /\ count <= Len(candidates)
           /\ tryParse(SubSeq(candidates, Len(candidates) - count + 1, Len(candidates)), zone)

(* nationality and sex, which no check reads, go the same way.             *)
mergeMrzFields(llm, mrz) ==
    [f \in DOMAIN llm |-> IF mrz[f] # Null THEN mrz[f] ELSE llm[f]]

-----------------------------------------------------------------------------
(* Dates, as numbers of days.                                              *)

Leap(y) == y % 4 = 0 /\ (y % 100 # 0 \/ y % 400 = 0)
DaysBefore == <<0, 31, 59, 90, 120, 151, 181, 212, 243, 273, 304, 334>>

(* Date.UTC of a year, a month from 1 and a day, which may all overflow.   *)
UTC(year, month, day) ==
    LET y == year + (month - 1) \div 12
        m == 1 + ((month - 1) % 12)
    IN 365 * y + (y - 1) \div 4 - (y - 1) \div 100 + (y - 1) \div 400
           + DaysBefore[m] + (IF m > 2 /\ Leap(y) THEN 1 ELSE 0) + day

(* The digits of a date if there are six of them, by twos.                 *)
sixDigits(date) ==
    IF date.form = "mrz" THEN <<date.y % 100, date.m, date.d>>
    ELSE IF date.form = "words" /\ date.d >= 10
    THEN <<date.d, date.y \div 100, date.y % 100>>
    ELSE <<>>

(* Mutant: the century turns at another year.                              *)
yearOf30(yy) == IF yy <= 30 THEN 2000 + yy ELSE 1900 + yy

yearOf(yy) == IF yy <= 50 THEN 2000 + yy ELSE 1900 + yy

(* The day a date is read as, <<>> if it is not read.                      *)
parseDateLoose(date) ==
    LET two == sixDigits(date)
    IN IF two # <<>> THEN <<UTC(yearOf(two[1]), two[2], two[3])>>
       ELSE IF date.form = "unreadable" THEN <<>>
       ELSE <<UTC(date.y, date.m, date.d)>>

-----------------------------------------------------------------------------
(* The checks: <<>> when there is nothing to check.                        *)

(* The day begins at midnight, and is over then.                           *)
isExpired(date) ==
    IF date = Null \/ parseDateLoose(date) = <<>> THEN <<>>
    ELSE <<parseDateLoose(date)[1] <= Today>>

datesMatch(actual, expected) ==
    /\ actual # Null
    /\ parseDateLoose(actual) # <<>>
    /\ parseDateLoose(actual) = parseDateLoose(expected)

(* looseMatch and alnumMatch drop the spelling of names and of numbers.    *)
wordsMatch(actual, expected) == actual # Null /\ actual.word = expected.word

Checked(expected, matches) == IF expected = Null THEN <<>> ELSE <<matches>>

(* The fields that are compared; a text, the zone in it and what the model *)
(* reads.                                                                  *)
FieldNames == {"fullName", "dateOfBirth", "documentNumber", "expiryDate"}
IsRead(data) ==
    /\ data.text \in Seq(Lines)
    /\ data.zone.length \in {2, 3}
    /\ DOMAIN data.zone.fields = FieldNames
    /\ DOMAIN data.llm = FieldNames

executeIdVerification(data, expected) ==
    LET found == parseMrz(data.text, data.zone)
        fields == IF found /\ data.zone.valid
                  THEN mergeMrzFields(data.llm, data.zone.fields) ELSE data.llm
    IN [fields      |-> fields,
        expired     |-> isExpired(fields.expiryDate),
        nameMatch   |-> Checked(expected.fullName, wordsMatch(fields.fullName, expected.fullName)),
        dobMatch    |-> Checked(expected.dateOfBirth, datesMatch(fields.dateOfBirth, expected.dateOfBirth)),
        numberMatch |-> Checked(expected.documentNumber, wordsMatch(fields.documentNumber, expected.documentNumber)),
        mrzValid    |-> IF found THEN <<data.zone.valid>> ELSE <<>>]
=============================================================================
