----------------------------- MODULE Identifiers -----------------------------
(***************************************************************************)
(* The identifier rules of packages/shared-rules: the ISO 6346 check       *)
(* digit, the repair of misread container numbers, their extraction from   *)
(* what the camera sees, and the edit distance behind a VIN's likeness;    *)
(* with the phone's interpretation of a container plate (ocr.ts).          *)
(*                                                                         *)
(* A text is a sequence of upper-case letters and digits, or of the tokens *)
(* it was split into: case, separators and lookalikes of other alphabets   *)
(* are folded away before anything here.  The other half of VIN reading    *)
(* (I, O and Q, the label's marker) and the ISO 3779 check digit, which    *)
(* gates nothing, are left out.                                            *)
(***************************************************************************)
EXTENDS Naturals, Sequences, FiniteSets, SequencesExt

VARIABLES
    text,  \* the question put to the package
    read   \* its answer, None before it

Alphabet == <<"A", "B", "C", "D", "E", "F", "G", "H", "I", "J", "K", "L", "M",
              "N", "O", "P", "Q", "R", "S", "T", "U", "V", "W", "X", "Y", "Z">>
Decimals == <<"0", "1", "2", "3", "4", "5", "6", "7", "8", "9">>
Letters == ToSet(Alphabet)
Digits == ToSet(Decimals)

\* CONTAINER_LETTER_VALUES: from 10 on, passing over the multiples of 11, one
\* of which comes after A and then after every ten letters.
LetterValue(n) == 9 + n + (n + 8) \div 10

Values == [c \in Letters \union Digits |->
              IF c \in Letters THEN LetterValue(CHOOSE n \in 1..26 : Alphabet[n] = c)
              ELSE (CHOOSE n \in 1..10 : Decimals[n] = c) - 1]

\* CONTAINER_NO_PATTERN: four letters and seven digits.
HasShape(t) ==
    /\ Len(t) = 11
    /\ \A i \in 1..4 : t[i] \in Letters
    /\ \A i \in 5..11 : t[i] \in Digits

\* The place i weighs 2^(i - 1); a remainder of 10 maps to check digit 0.
ContainerCheckDigit(t) ==
    LET v(i) == Values[t[i]]
    IN  ((v(1) + 2 * v(2) + 4 * v(3) + 8 * v(4) + 16 * v(5) + 32 * v(6) + 64 * v(7)
            + 128 * v(8) + 256 * v(9) + 512 * v(10)) % 11) % 10

IsValidContainerNo(t) == HasShape(t) /\ ContainerCheckDigit(t) = Values[t[11]]

\* Mutant: a number that ends in 0 is taken like any other.
IsCheckDigitAmbiguous_Never(t) == FALSE

IsCheckDigitAmbiguous(t) == Len(t) = 11 /\ t[11] = "0"

HasStandardCategory(t) == t[4] \in {"U", "J", "Z"}

-----------------------------------------------------------------------------
ToDigit == [O |-> "0", Q |-> "0", D |-> "0", U |-> "0", I |-> "1", L |-> "1", T |-> "1",
            Z |-> "2", E |-> "3", A |-> "4", S |-> "5", G |-> "6", C |-> "6", Y |-> "7",
            B |-> "8", P |-> "9"]
ToLetter == <<"O", "I", "Z", "E", "A", "S", "G", "T", "B", "P">>   \* of 0, 1, ... 9

CoerceContainerShape(t) ==
    [i \in 1..11 |->
        IF i <= 4 THEN IF t[i] \in Digits THEN ToLetter[Values[t[i]] + 1] ELSE t[i]
        ELSE IF t[i] \in DOMAIN ToDigit THEN ToDigit[t[i]] ELSE t[i]]

\* One digit of the serial number or the check digit replaced.
Repairs(t) ==
    {r \in {[t EXCEPT ![i] = d] : i \in 5..11, d \in Digits} : r # t /\ IsValidContainerNo(r)}

(***************************************************************************)
(* resolveContainerCandidates: the text itself, else the text with each    *)
(* character read as its place demands, else its only repair.  There is at *)
(* most one candidate: what is valid is not changed by the coercion.       *)
(***************************************************************************)
Candidates(t) ==
    IF Len(t) # 11 THEN {}
    ELSE LET base == CoerceContainerShape(t) IN
         IF IsValidContainerNo(t) THEN {t}
         ELSE IF IsValidContainerNo(base) THEN {base}
         ELSE IF HasShape(base) /\ Cardinality(Repairs(base)) = 1 THEN Repairs(base)
         ELSE {}

Join(tokens) == FlattenSeq(tokens)

\* Up to three tokens in a row that make eleven characters, and every run of
\* eleven within one token.
Windows(tokens) ==
    {w \in UNION {{Join(SubSeq(tokens, i, j)) : j \in i..Len(tokens) \intersect i..(i + 2)} :
                     i \in 1..Len(tokens)} : Len(w) = 11}
    \union
    UNION {{SubSeq(tokens[i], j, j + 10) : j \in 1..(Len(tokens[i]) - 10)} : i \in 1..Len(tokens)}

ExtractContainerNumbers(tokens) ==
    {c \in UNION {Candidates(w) : w \in Windows(tokens)} : HasStandardCategory(c)}

Holds(t, part) ==
    \E i \in 0..(Len(t) - Len(part)) : SubSeq(t, i + 1, i + Len(part)) = part

(***************************************************************************)
(* interpret, for a container: one number in frame is proposed, two never; *)
(* it is exact when the raw text holds it letter for letter.               *)
(***************************************************************************)
Interpret(tokens) ==
    LET found == ExtractContainerNumbers(tokens)
    IN  IF Cardinality(found) # 1 THEN [value |-> <<>>, confirm |-> TRUE]
        ELSE LET value == CHOOSE c \in found : TRUE
             IN  [value |-> value,
                  confirm |-> ~Holds(Join(tokens), value) \/ IsCheckDigitAmbiguous(value)]

-----------------------------------------------------------------------------
\* Mutant: the distance is given up one row too early.
GivesUp_Early(row, max) == \A j \in DOMAIN row : row[j] >= max

\* A whole row beyond max: no later row can come back.
GivesUp(row, max) == \A j \in DOMAIN row : row[j] > max

\* The next row of the matrix, for the character c against each of b.
NextRow(prev, c, b) ==
    LET upTo[j \in 0..Len(b)] ==
            IF j = 0 THEN <<prev[1] + 1>>
            ELSE LET row == upTo[j - 1]
                 IN  Append(row, Min({prev[j + 1] + 1, row[j] + 1,
                                        prev[j] + (IF c = b[j] THEN 0 ELSE 1)}))
    IN  upTo[Len(b)]

(***************************************************************************)
(* levenshtein, given up when no distance in a row is within max.  What is *)
(* given up counts as max + 1; a distance that survives may be larger.     *)
(***************************************************************************)
Levenshtein(a, b, max) ==
    LET after[i \in 0..Len(a)] ==
            IF i = 0 THEN [j \in 1..(Len(b) + 1) |-> j - 1]
            ELSE LET row == after[i - 1]
                 IN  IF GivesUp(row, max) THEN row ELSE NextRow(row, a[i], b)
        last == after[Len(a)]
    IN  IF a = b THEN 0
        ELSE IF Len(a) > Len(b) + max \/ Len(b) > Len(a) + max THEN max + 1
        ELSE IF GivesUp(last, max) THEN max + 1
        ELSE last[Len(b) + 1]

\* suffixMatchLength.
SuffixMatchLength(a, b) ==
    LET same == {n \in 0..Len(a) \intersect 0..Len(b) :
                    SubSeq(a, Len(a) - n + 1, Len(a)) = SubSeq(b, Len(b) - n + 1, Len(b))}
    IN  CHOOSE n \in same : \A k \in same : k <= n

\* What findVinLine scores a line's VIN for a reading, in percent.
Likeness(vin, listed) ==
    LET distance == Levenshtein(vin, listed, 3)
    IN  IF vin = listed THEN 100
        ELSE IF distance = 1 THEN 90
        ELSE IF Len(vin) = Len(listed) /\ SuffixMatchLength(vin, listed) >= 12 THEN 85
        ELSE IF distance = 2 THEN 70 ELSE 0

-----------------------------------------------------------------------------
\* A plate as printed, one character of it misread, other tokens after it.
AskPlate(plate, at, as, cuts, after) ==
    /\ text = <<>>
    /\ LET seen == [plate EXCEPT ![at] = as]
           tokens == [k \in 1..(Len(cuts) - 1) |->
                         SubSeq(seen, cuts[k] + 1, cuts[k + 1])] \o after
       IN  /\ text' = [plate |-> plate, at |-> at, as |-> as]
           /\ read' = Interpret(tokens)

AskDistance(a, b, max) ==
    /\ text = <<>>
    /\ text' = [a |-> a, b |-> b, max |-> max]
    /\ read' = Levenshtein(a, b, max)

(***************************************************************************)
(* A plate with one character misread, among the other text of a door: the *)
(* phone proposes the number on the plate, or nothing, or something it     *)
(* flags for confirmation.  What ISO 6346 cannot tell apart remains: two   *)
(* letters whose values are congruent modulo 11.  Legible and alone, the   *)
(* plate is proposed.                                                      *)
(***************************************************************************)
ProposalIsThePlate ==
    text # <<>> /\ "plate" \in DOMAIN text =>
        \/ read.value = text.plate
        \/ read.value = <<>> /\ text.plate[text.at] # text.as
        \/ read.confirm /\ text.plate[text.at] # text.as
        \/ /\ text.at <= 4 /\ text.as \in Letters \ {text.plate[text.at]}
           /\ (Values[text.as] + 22 - Values[text.plate[text.at]]) % 11 = 0

\* The texts one edit away, over the characters that matter.
Edits(t, chars) ==
    {SubSeq(t, 1, i - 1) \o SubSeq(t, i + 1, Len(t)) : i \in 1..Len(t)} \union
    {[t EXCEPT ![i] = c] : i \in 1..Len(t), c \in chars} \union
    {SubSeq(t, 1, i) \o <<c>> \o SubSeq(t, i + 1, Len(t)) : i \in 0..Len(t), c \in chars}

(***************************************************************************)
(* Capped and cut short as it is, levenshtein gives the least number of    *)
(* edits that turn one text into the other wherever that is within max,    *)
(* and otherwise something above max: the verdict's 1 and 2 are true       *)
(* distances.                                                              *)
(***************************************************************************)
DistanceIsExact ==
    text # <<>> /\ "max" \in DOMAIN text =>
        LET within[k \in 0..text.max] ==
                IF k = 0 THEN {text.a}
                ELSE within[k - 1] \union
                     UNION {Edits(t, ToSet(text.b)) : t \in within[k - 1]}
            near == {k \in 0..text.max : text.b \in within[k]}
        IN  IF near = {} THEN read > text.max ELSE read = Min(near)
=============================================================================
