-------------------------- MODULE SharedRules_proofs --------------------------
(***************************************************************************)
(* The rules package's properties for every value of what it is asked.     *)
(*                                                                         *)
(* The engine: every table of VINs, every report and every likeness of     *)
(* readings.  The identifiers: every container number, every misread of    *)
(* one character of it, and every two texts with every cap on their        *)
(* distance.  TLC enumerates a small yard, two owners and short texts.     *)
(***************************************************************************)
EXTENDS ReconTable, Identifiers, ReconRules_proofs, SequenceTheorems, FiniteSetTheorems,
        WellFoundedInduction

-----------------------------------------------------------------------------
(***************************************************************************)
(* The invariant behind all of them: the recorded answer is the engine's   *)
(* answer to the recorded question.                                        *)
(***************************************************************************)
Answered ==
    /\ lines \in Lines
    /\ asked = None
       \/ /\ asked \in Questions
          /\ verdict = Reconcile(asked.container, asked.vin, lines, asked.loaded,
                                 asked.expired)

LEMMA AnsweredInvariant == Spec => []Answered
<1>1. Init => Answered
  BY DEF Init, Answered
<1>2. Answered /\ [Next]_vars => Answered'
  <2> SUFFICES ASSUME Answered, [Next]_vars PROVE Answered'
    OBVIOUS
  <2>1. ASSUME NEW q \in Questions, Judge(q) PROVE Answered'
    BY <2>1 DEF Judge, Answered
  <2>2. CASE UNCHANGED vars
    BY <2>2 DEF vars, Answered
  <2> QED
    BY <2>1, <2>2 DEF Next
<1> QED
  BY <1>1, <1>2, PTL DEF Spec

\* What a recorded pass says, in the terms of ReconcileMatch.
LEMMA MatchedMeans ==
    ASSUME Answered, asked # None, verdict.outcome = "MATCH"
    PROVE  /\ lines \in Lines /\ asked \in Questions
           /\ asked.container \in Containers /\ asked.vin \in Vins
           /\ ~asked.expired
           /\ asked.vin \notin asked.loaded
           /\ verdict.line = FindVinLine(asked.vin, LinesFor(asked.container, lines))
           /\ verdict.line # None
           /\ verdict = Verdict("MATCH", verdict.line, None)
<1>1. /\ lines \in Lines
      /\ asked \in Questions
      /\ verdict = Reconcile(asked.container, asked.vin, lines, asked.loaded,
                             asked.expired)
  BY DEF Answered
<1>2. /\ asked.container \in Containers \union {None}
      /\ asked.vin \in Vins \union {None}
      /\ asked.expired \in BOOLEAN
  BY <1>1 DEF Questions
<1> QED
  BY <1>1, <1>2, ReconcileMatch DEF Verdict

\* A pass is unambiguous: its line is the container's own, clears the threshold
\* and fits the reading better than every other line of that container.
THEOREM PassIsUnambiguous == Spec => []MatchIsUnambiguous
<1>1. Answered => MatchIsUnambiguous
  <2> SUFFICES ASSUME Answered, asked # None, verdict.outcome = "MATCH"
               PROVE  /\ lines[verdict.line] = asked.container
                      /\ Confidence[asked.vin][verdict.line] >= FuzzyThreshold
                      /\ \A v \in LinesFor(asked.container, lines) \ {verdict.line} :
                           Confidence[asked.vin][v] < Confidence[asked.vin][verdict.line]
    BY DEF MatchIsUnambiguous, Matched
  <2> DEFINE vs == LinesFor(asked.container, lines)
             l  == verdict.line
  <2>1. /\ asked.vin \in Vins
        /\ l = FindVinLine(asked.vin, vs)
        /\ l # None
    BY MatchedMeans
  <2>2. vs \in SUBSET Vins
    BY DEF LinesFor
  <2>3. /\ l \in vs
        /\ Confidence[asked.vin][l] >= FuzzyThreshold
        /\ BestFits(asked.vin, vs) = {l}
    BY <2>1, <2>2, FindVinLineFits
  <2>4. ASSUME NEW v \in vs \ {l}
        PROVE  Confidence[asked.vin][v] < Confidence[asked.vin][l]
    <3>1. \A w \in Vins : Confidence[asked.vin][w] \in {0, 70, 85, 90, 100}
      BY <2>1, RulesAssumption
    <3>2. PICK w \in vs : ~(Confidence[asked.vin][v] >= Confidence[asked.vin][w])
      BY <2>3 DEF BestFits
    <3>3. Confidence[asked.vin][l] >= Confidence[asked.vin][w]
      BY <2>3 DEF BestFits
    <3> QED
      BY <2>2, <2>3, <3>1, <3>2, <3>3
  <2> QED
    BY <2>3, <2>4 DEF LinesFor
<1> QED
  BY <1>1, AnsweredInvariant, PTL

\* After a pass the officer's progress and the API's test for a complete
\* container agree, and what is loaded and what remains add up to the container
\* (progressFor inside reconcile, isContainerComplete after it).
THEOREM ProgressAndCompleteAgree == Spec => []ProgressAgreesWithComplete
<1>1. Answered => ProgressAgreesWithComplete
  <2> SUFFICES ASSUME Answered, asked # None, verdict.outcome = "MATCH"
               PROVE  LET p == ProgressFor(asked.container, lines, asked.loaded, verdict.line)
                      IN  /\ p.remaining = {} <=>
                               IsContainerComplete(asked.container, lines,
                                                   asked.loaded \union {verdict.line})
                          /\ p.loaded + Cardinality(p.remaining) = p.expected
    BY DEF ProgressAgreesWithComplete, Matched
  <2> DEFINE vs == LinesFor(asked.container, lines)
             done == asked.loaded \union {verdict.line}
             p == ProgressFor(asked.container, lines, asked.loaded, verdict.line)
  <2>1. /\ asked.vin \in Vins /\ vs \in SUBSET Vins
        /\ verdict.line = FindVinLine(asked.vin, vs) /\ verdict.line # None
    BY MatchedMeans DEF LinesFor
  <2>2. vs # {}
    BY <2>1, FindVinLineFits
  <2>3. done = asked.loaded \union ({verdict.line} \ {None})
    BY <2>1
  <2>4. /\ p.loaded = Cardinality(vs \intersect done)
        /\ p.expected = Cardinality(vs)
        /\ p.remaining = vs \ done
    BY <2>3 DEF ProgressFor, Remaining
  <2>5. p.remaining = {} <=> IsContainerComplete(asked.container, lines, done)
    BY <2>2, <2>4 DEF IsContainerComplete
  <2>6. IsFiniteSet(vs)
    BY <2>1, YardAssumption, FS_Subset
  <2>7. /\ Cardinality(vs \ done) = Cardinality(vs) - Cardinality(vs \intersect done)
        /\ Cardinality(vs) \in Nat /\ Cardinality(vs \intersect done) \in Nat
    BY <2>6, FS_Difference, FS_Intersection, FS_CardinalityType
  <2>8. p.loaded + Cardinality(p.remaining) = p.expected
    BY <2>4, <2>7
  <2> QED
    BY <2>5, <2>8
<1> QED
  BY <1>1, AnsweredInvariant, PTL

\* Knowing of fewer loaded vehicles never turns the server's pass, or any block
\* other than a duplicate or a full container, into something else.
THEOREM StaleLoadedSetIsOptimistic == Spec => []StaleLoadedIsOptimistic
<1>1. Answered => StaleLoadedIsOptimistic
  <2> SUFFICES ASSUME Answered, asked # None,
                      NEW known \in SUBSET asked.loaded,
                      verdict.outcome \notin {"DUPLICATE_VIN", "CONTAINER_FULL"}
               PROVE  Reconcile(asked.container, asked.vin, lines, known,
                                asked.expired) = verdict
    BY DEF StaleLoadedIsOptimistic
  <2>1. verdict = Reconcile(asked.container, asked.vin, lines, asked.loaded,
                            asked.expired)
    BY DEF Answered
  <2> QED
    BY <2>1 DEF Reconcile, Verdict, Remaining
<1> QED
  BY <1>1, AnsweredInvariant, PTL

\* Once an exactly read vehicle is passed and recorded as loaded, scanning it
\* again, at whichever container, is reported as a duplicate.
THEOREM ExactRescanIsADuplicate == Spec => []ExactRescanIsCaught
<1>1. Answered => ExactRescanIsCaught
  <2> SUFFICES ASSUME Answered, asked # None, verdict.outcome = "MATCH",
                      verdict.line = asked.vin, NEW c \in Containers
               PROVE  Reconcile(c, asked.vin, lines,
                                asked.loaded \union {verdict.line},
                                FALSE).outcome = "DUPLICATE_VIN"
    BY DEF ExactRescanIsCaught, Matched
  <2>1. asked.vin \in Vins
    BY MatchedMeans
  <2>2. c # None /\ asked.vin # None
    BY <2>1, RulesAssumption
  <2> QED
    BY <2>2 DEF Reconcile, Verdict
<1> QED
  BY <1>1, AnsweredInvariant, PTL

-----------------------------------------------------------------------------
(***************************************************************************)
(* What the camera sees of a container plate.  The plate's pieces make one *)
(* window, the plate itself; a misread place moves the check sum by a      *)
(* multiple of its weight, a power of two, which 11 does not divide; so    *)
(* what is read wrong is not valid, or one of the two exceptions the       *)
(* standard leaves.                                                        *)
(***************************************************************************)

\* What a text is made of once it is folded to upper case.
Characters == Letters \union Digits

\* What a container can be painted with: shape, check digit and category.
ContainerNumbers ==
    {n \in [1..11 -> Characters] : IsValidContainerNo(n) /\ HasStandardCategory(n)}

\* Where the recognizer breaks a plate: into one, two or three pieces.
PlateCuts ==
    {c \in Seq(0..11) : /\ Len(c) \in 2..4 /\ c[1] = 0 /\ c[Len(c)] = 11
                        /\ \A k \in 1..(Len(c) - 1) : c[k] < c[k + 1]}

\* Letters are worth 10 to 38, digits 0 to 9, and no two digits the same.
LEMMA LettersAndDigits ==
  /\ \A c \in Letters : c \notin Digits /\ Values[c] \in 10..38
  /\ \A c \in Digits : Values[c] \in 0..9
  /\ \A c, d \in Digits : Values[c] = Values[d] => c = d
  /\ \A c \in Digits : Values[c] = 0 => c = "0"
<1>1. \A c \in Digits : c \notin Letters
  BY DEF Digits, Letters, Decimals, Alphabet, ToSet
<1>2. ASSUME NEW c \in Digits PROVE Values[c] \in 0..9 /\ Decimals[Values[c] + 1] = c
  <2> DEFINE p == CHOOSE n \in 1..10 : Decimals[n] = c
  <2>1. \E n \in 1..10 : Decimals[n] = c
    BY DEF Digits, Decimals, ToSet
  <2>2. p \in 1..10 /\ Decimals[p] = c
    BY <2>1
  <2>3. Values[c] = p - 1
    BY <1>1 DEF Values
  <2> HIDE DEF p
  <2>4. Values[c] + 1 = p
    BY <2>2, <2>3
  <2> QED
    BY <2>2, <2>3, <2>4
<1>3. ASSUME NEW c \in Letters PROVE Values[c] \in 10..38
  <2> DEFINE p == CHOOSE n \in 1..26 : Alphabet[n] = c
  <2>1. \E n \in 1..26 : Alphabet[n] = c
    BY DEF Letters, Alphabet, ToSet
  <2>2. p \in 1..26
    BY <2>1
  <2>3. Values[c] = LetterValue(p)
    BY DEF Values
  <2> HIDE DEF p
  <2> QED
    BY <2>2, <2>3 DEF LetterValue
<1>4. \A c \in Digits : Values[c] = 0 => c = "0"
  BY <1>2 DEF Decimals
<1> QED
  BY <1>1, <1>2, <1>3, <1>4

\* What has been joined so far is a function, and Join is its last value.
Joining(h, seqs) ==
    h = [i \in 1..Len(seqs) |-> IF i = 1 THEN seqs[i] ELSE h[i - 1] \o seqs[i]]

\* Join is the last value of what has been joined so far.
LEMMA JoinIs ==
  ASSUME NEW seqs, Len(seqs) # 0, NEW g, Joining(g, seqs)
  PROVE  \E h : Joining(h, seqs) /\ Join(seqs) = h[Len(seqs)]
<1> DEFINE flatten[i \in 1..Len(seqs)] == IF i = 1 THEN seqs[i] ELSE flatten[i - 1] \o seqs[i]
<1>1. Joining(flatten, seqs)
  BY DEF Joining
<1>2. Join(seqs) = flatten[Len(seqs)]
  BY DEF Join, FlattenSeq
<1> HIDE DEF flatten
<1> QED
  BY <1>1, <1>2

\* One token joins to itself.
LEMMA JoinOne == ASSUME NEW seqs, Len(seqs) = 1 PROVE Join(seqs) = seqs[1]
<1> DEFINE g == [i \in 1..1 |-> seqs[1]]
<1>2. Joining(g, seqs)
  BY DEF Joining
<1>3. PICK h : Joining(h, seqs) /\ Join(seqs) = h[Len(seqs)]
  <2>1. Len(seqs) # 0
    OBVIOUS
  <2> HIDE DEF g
  <2> QED
    BY <1>2, <2>1, JoinIs
<1>4. h = [i \in 1..1 |-> IF i = 1 THEN seqs[i] ELSE h[i - 1] \o seqs[i]]
  BY <1>3 DEF Joining
<1>5. h[1] = seqs[1]
  BY <1>4
<1> QED
  BY <1>3, <1>5

\* Two tokens join to their concatenation.
LEMMA JoinTwo == ASSUME NEW seqs, Len(seqs) = 2 PROVE Join(seqs) = seqs[1] \o seqs[2]
<1> DEFINE g == [i \in 1..2 |-> IF i = 1 THEN seqs[1] ELSE seqs[1] \o seqs[2]]
<1>2. Joining(g, seqs)
  BY DEF Joining
<1>3. PICK h : Joining(h, seqs) /\ Join(seqs) = h[Len(seqs)]
  <2>1. Len(seqs) # 0
    OBVIOUS
  <2> HIDE DEF g
  <2> QED
    BY <1>2, <2>1, JoinIs
<1>4. h = [i \in 1..2 |-> IF i = 1 THEN seqs[i] ELSE h[i - 1] \o seqs[i]]
  BY <1>3 DEF Joining
<1>5. h[1] = seqs[1]
  BY <1>4
<1>6. h[2] = h[1] \o seqs[2]
  <2>1. 2 \in 1..2 /\ 2 # 1 /\ 2 - 1 = 1
    OBVIOUS
  <2>2. h[2] = h[2 - 1] \o seqs[2]
    BY <1>4, <2>1
  <2> QED
    BY <2>1, <2>2
<1> QED
  BY <1>3, <1>5, <1>6

\* Three tokens join to their concatenation.
LEMMA JoinThree ==
  ASSUME NEW seqs, Len(seqs) = 3
  PROVE  Join(seqs) = (seqs[1] \o seqs[2]) \o seqs[3]
<1> DEFINE g == [i \in 1..3 |-> IF i = 1 THEN seqs[1]
                               ELSE IF i = 2 THEN seqs[1] \o seqs[2]
                               ELSE (seqs[1] \o seqs[2]) \o seqs[3]]
<1>2. Joining(g, seqs)
  BY DEF Joining
<1>3. PICK h : Joining(h, seqs) /\ Join(seqs) = h[Len(seqs)]
  <2>1. Len(seqs) # 0
    OBVIOUS
  <2> HIDE DEF g
  <2> QED
    BY <1>2, <2>1, JoinIs
<1>4. h = [i \in 1..3 |-> IF i = 1 THEN seqs[i] ELSE h[i - 1] \o seqs[i]]
  BY <1>3 DEF Joining
<1>5. h[1] = seqs[1]
  BY <1>4
<1>6. h[2] = h[1] \o seqs[2]
  <2>1. 2 \in 1..3 /\ 2 # 1 /\ 2 - 1 = 1
    OBVIOUS
  <2>2. h[2] = h[2 - 1] \o seqs[2]
    BY <1>4, <2>1
  <2> QED
    BY <2>1, <2>2
<1>7. h[3] = h[2] \o seqs[3]
  <2>1. 3 \in 1..3 /\ 3 # 1 /\ 3 - 1 = 2
    OBVIOUS
  <2>2. h[3] = h[3 - 1] \o seqs[3]
    BY <1>4, <2>1
  <2> QED
    BY <2>1, <2>2
<1> QED
  BY <1>3, <1>5, <1>6, <1>7

\* Of two pieces of a plate, only both together have eleven characters.
LEMMA LengthsOfTwo ==
  ASSUME NEW p \in Seq(Characters), NEW q \in Seq(Characters),
         Len(p) # 0, Len(q) # 0, Len(p) + Len(q) = 11
  PROVE  Len(p) # 11 /\ Len(q) # 11 /\ Len(p \o q) = 11
<1>1. PICK x \in Nat : x = Len(p)
  BY LenProperties
<1>2. PICK y \in Nat : y = Len(q)
  BY LenProperties
<1>3. x # 0 /\ y # 0 /\ x + y = 11
  BY <1>1, <1>2
<1>4. x # 11 /\ y # 11
  BY <1>3
<1>5. Len(p \o q) = x + y
  BY <1>1, <1>2, ConcatProperties
<1> QED
  BY <1>1, <1>2, <1>3, <1>4, <1>5

\* Of three pieces of a plate, only all together have eleven characters.
LEMMA LengthsOfThree ==
  ASSUME NEW p \in Seq(Characters), NEW q \in Seq(Characters), NEW r \in Seq(Characters),
         Len(p) # 0, Len(q) # 0, Len(r) # 0, Len(p) + Len(q) + Len(r) = 11
  PROVE  /\ Len(p) # 11 /\ Len(q) # 11 /\ Len(r) # 11
         /\ Len(p \o q) # 11 /\ Len(q \o r) # 11 /\ Len((p \o q) \o r) = 11
<1>1. PICK x \in Nat : x = Len(p)
  BY LenProperties
<1>2. PICK y \in Nat : y = Len(q)
  BY LenProperties
<1>3. PICK z \in Nat : z = Len(r)
  BY LenProperties
<1>4. x # 0 /\ y # 0 /\ z # 0 /\ x + y + z = 11
  BY <1>1, <1>2, <1>3
<1>5. x # 11 /\ y # 11 /\ z # 11 /\ x + y # 11 /\ y + z # 11
  BY <1>4
<1>6. /\ p \o q \in Seq(Characters) /\ Len(p \o q) = x + y /\ Len(q \o r) = y + z
  BY <1>1, <1>2, <1>3, ConcatProperties
<1>7. Len((p \o q) \o r) = (x + y) + z
  BY <1>3, <1>6, ConcatProperties
<1> QED
  BY <1>1, <1>2, <1>3, <1>4, <1>5, <1>6, <1>7

\* A plate in one piece is the only window.
LEMMA WindowsOfOne ==
  ASSUME NEW tokens \in Seq(Seq(Characters)), Len(tokens) = 1,
         Len(tokens[1]) = 11
  PROVE  LET seen == tokens[1] IN Windows(tokens) = {seen} /\ Join(tokens) = seen
<1> DEFINE seen == tokens[1]
<1>1. tokens[1] \in Seq(Characters)
  <2>1. \A i \in 1..1 : tokens[i] \in Seq(Characters)
    BY ElementOfSeq
  <2> QED
    BY <2>1
<1>2. Join(SubSeq(tokens, 1, 1)) = tokens[1]
  <2>1. Len(SubSeq(tokens, 1, 1)) = 1 /\ SubSeq(tokens, 1, 1)[1] = tokens[1]
    OBVIOUS
  <2> QED
    BY <2>1, JoinOne
<1>3. Join(tokens) = seen
  BY JoinOne
<1>4. Len(seen) = 11
  BY <1>1
<1>5. ASSUME NEW i \in 1..Len(tokens), NEW j \in i..Len(tokens),
             Len(Join(SubSeq(tokens, i, j))) = 11
      PROVE  Join(SubSeq(tokens, i, j)) = seen
  <2>1. (i = 1 /\ j = 1)
    OBVIOUS
  <2>2. (Join(SubSeq(tokens, i, j)) = tokens[1])
    BY <1>2, <2>1
  <2> QED
    BY <1>4, <1>5, <2>2
<1>6. ASSUME NEW i \in 1..Len(tokens), NEW j \in 1..(Len(tokens[i]) - 10)
      PROVE  SubSeq(tokens[i], j, j + 10) = seen
  <2>1. i = 1 /\ Len(tokens[i]) = 11
    OBVIOUS
  <2>2. j \in 1..(11 - 10)
    BY <2>1
  <2> QED
    BY <1>1, <2>1, <2>2
<1>7. seen \in Windows(tokens)
  <2>1. 1 \in 1..Len(tokens) /\ 1 \in 1..Len(tokens) \intersect 1..(1 + 2)
    OBVIOUS
  <2>2. seen = Join(SubSeq(tokens, 1, 1)) /\ Len(seen) = 11
    BY <1>2, <1>4
  <2> HIDE DEF seen
  <2> QED
    BY <2>1, <2>2 DEF Windows
<1>8. ASSUME NEW w \in Windows(tokens) PROVE w = seen
  <2> HIDE DEF seen
  <2>1. CASE \E i \in 1..Len(tokens) : \E j \in i..Len(tokens) \intersect i..(i + 2) :
                Len(w) = 11 /\ w = Join(SubSeq(tokens, i, j))
    BY <1>5, <2>1
  <2>2. CASE \E i \in 1..Len(tokens) : \E j \in 1..(Len(tokens[i]) - 10) :
                w = SubSeq(tokens[i], j, j + 10)
    BY <1>6, <2>2
  <2> QED
    BY <1>8, <2>1, <2>2 DEF Windows
<1> HIDE DEF seen
<1>9. Windows(tokens) = {seen} /\ Join(tokens) = seen
  BY <1>3, <1>7, <1>8
<1> QED
  BY <1>9 DEF seen

\* A plate in two pieces: neither piece is a window, both together are.
LEMMA WindowsOfTwo ==
  ASSUME NEW tokens \in Seq(Seq(Characters)), Len(tokens) = 2,
         Len(tokens[1]) # 0, Len(tokens[2]) # 0, Len(tokens[1]) + Len(tokens[2]) = 11
  PROVE  LET seen == tokens[1] \o tokens[2] IN Windows(tokens) = {seen} /\ Join(tokens) = seen
<1> DEFINE seen == tokens[1] \o tokens[2]
<1>1. tokens[1] \in Seq(Characters) /\ tokens[2] \in Seq(Characters)
  <2>1. \A i \in 1..2 : tokens[i] \in Seq(Characters)
    BY ElementOfSeq
  <2> QED
    BY <2>1
<1>2. Join(SubSeq(tokens, 1, 1)) = tokens[1]
  <2>1. Len(SubSeq(tokens, 1, 1)) = 1 /\ SubSeq(tokens, 1, 1)[1] = tokens[1]
    OBVIOUS
  <2> QED
    BY <2>1, JoinOne
<1>3. Join(SubSeq(tokens, 1, 2)) = tokens[1] \o tokens[2]
  <2>1. /\ Len(SubSeq(tokens, 1, 2)) = 2
        /\ SubSeq(tokens, 1, 2)[1] = tokens[1] /\ SubSeq(tokens, 1, 2)[2] = tokens[2]
    OBVIOUS
  <2> QED
    BY <2>1, JoinTwo
<1>4. Join(SubSeq(tokens, 2, 2)) = tokens[2]
  <2>1. Len(SubSeq(tokens, 2, 2)) = 1 /\ SubSeq(tokens, 2, 2)[1] = tokens[2]
    OBVIOUS
  <2> QED
    BY <2>1, JoinOne
<1>5. Join(tokens) = seen
  BY JoinTwo
<1>6. Len(tokens[1]) # 11 /\ Len(tokens[2]) # 11 /\ Len(seen) = 11
  BY <1>1, LengthsOfTwo
<1>7. ASSUME NEW i \in 1..Len(tokens), NEW j \in i..Len(tokens),
             Len(Join(SubSeq(tokens, i, j))) = 11
      PROVE  Join(SubSeq(tokens, i, j)) = seen
  <2>1. (i = 1 /\ j = 1) \/ (i = 1 /\ j = 2) \/ (i = 2 /\ j = 2)
    OBVIOUS
  <2>2. \/ Join(SubSeq(tokens, i, j)) = tokens[1]
        \/ Join(SubSeq(tokens, i, j)) = tokens[1] \o tokens[2]
        \/ Join(SubSeq(tokens, i, j)) = tokens[2]
    BY <1>2, <1>3, <1>4, <2>1
  <2> QED
    BY <1>6, <1>7, <2>2
<1>8. ASSUME NEW i \in 1..Len(tokens), NEW j \in 1..(Len(tokens[i]) - 10)
      PROVE  SubSeq(tokens[i], j, j + 10) = seen
  <2>1. Len(tokens[i]) \in Nat /\ Len(tokens[i]) < 11
    BY <1>1, <1>6
  <2> QED
    BY <2>1
<1>9. seen \in Windows(tokens)
  <2>1. 1 \in 1..Len(tokens) /\ 2 \in 1..Len(tokens) \intersect 1..(1 + 2)
    OBVIOUS
  <2>2. seen = Join(SubSeq(tokens, 1, 2)) /\ Len(seen) = 11
    BY <1>2, <1>3, <1>4, <1>6
  <2> HIDE DEF seen
  <2> QED
    BY <2>1, <2>2 DEF Windows
<1>10. ASSUME NEW w \in Windows(tokens) PROVE w = seen
  <2> HIDE DEF seen
  <2>1. CASE \E i \in 1..Len(tokens) : \E j \in i..Len(tokens) \intersect i..(i + 2) :
                Len(w) = 11 /\ w = Join(SubSeq(tokens, i, j))
    BY <1>7, <2>1
  <2>2. CASE \E i \in 1..Len(tokens) : \E j \in 1..(Len(tokens[i]) - 10) :
                w = SubSeq(tokens[i], j, j + 10)
    BY <1>8, <2>2
  <2> QED
    BY <1>10, <2>1, <2>2 DEF Windows
<1> HIDE DEF seen
<1>11. Windows(tokens) = {seen} /\ Join(tokens) = seen
  BY <1>5, <1>9, <1>10
<1> QED
  BY <1>11 DEF seen

\* A plate in three pieces, as it is painted: only all together are a window.
LEMMA WindowsOfThree ==
  ASSUME NEW tokens \in Seq(Seq(Characters)), Len(tokens) = 3,
         Len(tokens[1]) # 0, Len(tokens[2]) # 0, Len(tokens[3]) # 0,
         Len(tokens[1]) + Len(tokens[2]) + Len(tokens[3]) = 11
  PROVE  LET seen == (tokens[1] \o tokens[2]) \o tokens[3]
         IN  Windows(tokens) = {seen} /\ Join(tokens) = seen
<1> DEFINE seen == (tokens[1] \o tokens[2]) \o tokens[3]
<1>1. /\ tokens[1] \in Seq(Characters) /\ tokens[2] \in Seq(Characters)
      /\ tokens[3] \in Seq(Characters)
  <2>1. \A i \in 1..3 : tokens[i] \in Seq(Characters)
    BY ElementOfSeq
  <2> QED
    BY <2>1
<1>2. Join(SubSeq(tokens, 1, 1)) = tokens[1]
  <2>1. Len(SubSeq(tokens, 1, 1)) = 1 /\ SubSeq(tokens, 1, 1)[1] = tokens[1]
    OBVIOUS
  <2> QED
    BY <2>1, JoinOne
<1>3. Join(SubSeq(tokens, 1, 2)) = tokens[1] \o tokens[2]
  <2>1. /\ Len(SubSeq(tokens, 1, 2)) = 2
        /\ SubSeq(tokens, 1, 2)[1] = tokens[1] /\ SubSeq(tokens, 1, 2)[2] = tokens[2]
    OBVIOUS
  <2> QED
    BY <2>1, JoinTwo
<1>4. Join(SubSeq(tokens, 1, 3)) = (tokens[1] \o tokens[2]) \o tokens[3]
  <2>1. /\ Len(SubSeq(tokens, 1, 3)) = 3
        /\ SubSeq(tokens, 1, 3)[1] = tokens[1] /\ SubSeq(tokens, 1, 3)[2] = tokens[2]
        /\ SubSeq(tokens, 1, 3)[3] = tokens[3]
    OBVIOUS
  <2> QED
    BY <2>1, JoinThree
<1>5. Join(SubSeq(tokens, 2, 2)) = tokens[2]
  <2>1. Len(SubSeq(tokens, 2, 2)) = 1 /\ SubSeq(tokens, 2, 2)[1] = tokens[2]
    OBVIOUS
  <2> QED
    BY <2>1, JoinOne
<1>6. Join(SubSeq(tokens, 2, 3)) = tokens[2] \o tokens[3]
  <2>1. /\ Len(SubSeq(tokens, 2, 3)) = 2
        /\ SubSeq(tokens, 2, 3)[1] = tokens[2] /\ SubSeq(tokens, 2, 3)[2] = tokens[3]
    OBVIOUS
  <2> QED
    BY <2>1, JoinTwo
<1>7. Join(SubSeq(tokens, 3, 3)) = tokens[3]
  <2>1. Len(SubSeq(tokens, 3, 3)) = 1 /\ SubSeq(tokens, 3, 3)[1] = tokens[3]
    OBVIOUS
  <2> QED
    BY <2>1, JoinOne
<1>8. Join(tokens) = seen
  BY JoinThree
<1>9. /\ Len(tokens[1]) # 11 /\ Len(tokens[2]) # 11 /\ Len(tokens[3]) # 11
      /\ Len(tokens[1] \o tokens[2]) # 11 /\ Len(tokens[2] \o tokens[3]) # 11
      /\ Len(seen) = 11
  BY <1>1, LengthsOfThree
<1>10. ASSUME NEW i \in 1..Len(tokens), NEW j \in i..Len(tokens),
             Len(Join(SubSeq(tokens, i, j))) = 11
      PROVE  Join(SubSeq(tokens, i, j)) = seen
  <2>1. \/ (i = 1 /\ j = 1) \/ (i = 1 /\ j = 2) \/ (i = 1 /\ j = 3)
        \/ (i = 2 /\ j = 2) \/ (i = 2 /\ j = 3) \/ (i = 3 /\ j = 3)
    OBVIOUS
  <2>2. \/ Join(SubSeq(tokens, i, j)) = tokens[1]
        \/ Join(SubSeq(tokens, i, j)) = tokens[1] \o tokens[2]
        \/ Join(SubSeq(tokens, i, j)) = (tokens[1] \o tokens[2]) \o tokens[3]
        \/ Join(SubSeq(tokens, i, j)) = tokens[2]
        \/ Join(SubSeq(tokens, i, j)) = tokens[2] \o tokens[3]
        \/ Join(SubSeq(tokens, i, j)) = tokens[3]
    BY <1>2, <1>3, <1>4, <1>5, <1>6, <1>7, <2>1
  <2> QED
    BY <1>9, <1>10, <2>2
<1>11. ASSUME NEW i \in 1..Len(tokens), NEW j \in 1..(Len(tokens[i]) - 10)
      PROVE  SubSeq(tokens[i], j, j + 10) = seen
  <2>1. Len(tokens[i]) \in Nat /\ Len(tokens[i]) < 11
    BY <1>1, <1>9
  <2> QED
    BY <2>1
<1>12. seen \in Windows(tokens)
  <2>1. 1 \in 1..Len(tokens) /\ 3 \in 1..Len(tokens) \intersect 1..(1 + 2)
    OBVIOUS
  <2>2. seen = Join(SubSeq(tokens, 1, 3)) /\ Len(seen) = 11
    BY <1>2, <1>3, <1>4, <1>5, <1>6, <1>7, <1>9
  <2> HIDE DEF seen
  <2> QED
    BY <2>1, <2>2 DEF Windows
<1>13. ASSUME NEW w \in Windows(tokens) PROVE w = seen
  <2> HIDE DEF seen
  <2>1. CASE \E i \in 1..Len(tokens) : \E j \in i..Len(tokens) \intersect i..(i + 2) :
                Len(w) = 11 /\ w = Join(SubSeq(tokens, i, j))
    BY <1>10, <2>1
  <2>2. CASE \E i \in 1..Len(tokens) : \E j \in 1..(Len(tokens[i]) - 10) :
                w = SubSeq(tokens[i], j, j + 10)
    BY <1>11, <2>2
  <2> QED
    BY <1>13, <2>1, <2>2 DEF Windows
<1> HIDE DEF seen
<1>14. Windows(tokens) = {seen} /\ Join(tokens) = seen
  BY <1>8, <1>12, <1>13
<1> QED
  BY <1>14 DEF seen

\* A function on 1..n is a sequence of n elements.
LEMMA FunctionIsSeq ==
  ASSUME NEW S, NEW n \in Nat, NEW f \in [1..n -> S]
  PROVE  f \in Seq(S) /\ Len(f) = n
OBVIOUS

\* A plate in one to three pieces, and nothing else in frame, is the only window.
LEMMA PlateWindow ==
  ASSUME NEW seen \in [1..11 -> Characters], NEW cuts \in PlateCuts
  PROVE  LET tokens == [k \in 1..(Len(cuts) - 1) |->
                           SubSeq(seen, cuts[k] + 1, cuts[k + 1])] \o <<>>
         IN  Windows(tokens) = {seen} /\ Join(tokens) = seen
<1> DEFINE pieces == [k \in 1..(Len(cuts) - 1) |-> SubSeq(seen, cuts[k] + 1, cuts[k + 1])]
<1>1. seen \in Seq(Characters) /\ Len(seen) = 11
  BY FunctionIsSeq
<1>2. /\ cuts \in Seq(0..11) /\ Len(cuts) \in 2..4 /\ cuts[1] = 0 /\ cuts[Len(cuts)] = 11
      /\ \A k \in 1..(Len(cuts) - 1) : cuts[k] < cuts[k + 1]
  BY DEF PlateCuts
<1>3. \A k \in 1..Len(cuts) : cuts[k] \in 0..11
  BY <1>2, ElementOfSeq
<1>4. ASSUME NEW a \in 0..11, NEW b \in 0..11, a < b
      PROVE  SubSeq(seen, a + 1, b) \in Seq(Characters) /\ Len(SubSeq(seen, a + 1, b)) = b - a
  <2>1. \A i \in (a + 1)..b : seen[i] \in Characters
    BY <1>4
  <2>2. a + 1 \in Int /\ b \in Int /\ a + 1 <= b /\ b - (a + 1) + 1 = b - a
    BY <1>4
  <2> QED
    BY <2>1, <2>2, SubSeqProperties
<1>5. ASSUME NEW a \in 0..10, NEW b \in 1..11, a < b
      PROVE  SubSeq(seen, 1, a) \o SubSeq(seen, a + 1, b) = SubSeq(seen, 1, b)
  BY <1>1, <1>5, ConcatAdjacentSubSeq
<1>6. SubSeq(seen, 1, 11) = seen
  BY <1>1, SubSeqFull
<1>7. /\ pieces \in Seq(Seq(Characters)) /\ Len(pieces) = Len(cuts) - 1
      /\ \A k \in 1..(Len(cuts) - 1) : pieces[k] = SubSeq(seen, cuts[k] + 1, cuts[k + 1])
  <2>1. \A k \in 1..(Len(cuts) - 1) : SubSeq(seen, cuts[k] + 1, cuts[k + 1]) \in Seq(Characters)
    <3> SUFFICES ASSUME NEW k \in 1..(Len(cuts) - 1)
                 PROVE  SubSeq(seen, cuts[k] + 1, cuts[k + 1]) \in Seq(Characters)
      OBVIOUS
    <3>1. cuts[k] \in 0..11 /\ cuts[k + 1] \in 0..11 /\ cuts[k] < cuts[k + 1]
      BY <1>2, <1>3
    <3> QED
      BY <1>4, <3>1
  <2>2. Len(cuts) - 1 \in Nat
    BY <1>2
  <2>3. pieces \in [1..(Len(cuts) - 1) -> Seq(Characters)]
    BY <2>1
  <2>4. \A k \in 1..(Len(cuts) - 1) : pieces[k] = SubSeq(seen, cuts[k] + 1, cuts[k + 1])
    OBVIOUS
  <2> HIDE DEF pieces
  <2> QED
    BY <2>2, <2>3, <2>4, FunctionIsSeq
<1>8. pieces \o <<>> = pieces
  <2> HIDE DEF pieces
  <2> QED
    BY <1>7, ConcatEmptySeq
<1> SUFFICES Windows(pieces) = {seen} /\ Join(pieces) = seen
  BY <1>8
<1> HIDE DEF pieces
<1>9. CASE Len(cuts) = 2
  <2>1. Len(pieces) = 1 /\ pieces[1] = SubSeq(seen, cuts[1] + 1, cuts[2])
    BY <1>7, <1>9
  <2>2. cuts[1] = 0 /\ cuts[2] = 11 /\ 0 + 1 = 1
    BY <1>2, <1>9
  <2>3. pieces[1] = seen
    BY <1>6, <2>1, <2>2
  <2> QED
    BY <1>1, <1>7, <2>1, <2>3, WindowsOfOne
<1>10. CASE Len(cuts) = 3
  <2> DEFINE i == cuts[2]
  <2>1. /\ Len(pieces) = 2 /\ pieces[1] = SubSeq(seen, cuts[1] + 1, i)
        /\ pieces[2] = SubSeq(seen, i + 1, cuts[3])
    BY <1>7, <1>10
  <2>2. cuts[1] = 0 /\ cuts[3] = 11 /\ i \in 0..11
    BY <1>2, <1>3, <1>10
  <2>3. cuts[1] < i /\ i < cuts[3]
    BY <1>2, <1>10
  <2> HIDE DEF i
  <2>4. pieces[1] = SubSeq(seen, 1, i) /\ pieces[2] = SubSeq(seen, i + 1, 11)
    BY <2>1, <2>2
  <2>5. i \in 1..10 /\ i - 0 # 0 /\ 11 - i # 0 /\ (i - 0) + (11 - i) = 11 /\ 0 + 1 = 1
    BY <2>2, <2>3
  <2>6. Len(pieces[1]) = i - 0 /\ Len(pieces[2]) = 11 - i
    <3>1. Len(SubSeq(seen, 0 + 1, i)) = i - 0 /\ Len(SubSeq(seen, i + 1, 11)) = 11 - i
      BY <1>4, <2>2, <2>3
    <3> QED
      BY <2>4, <2>5, <3>1
  <2>7. pieces[1] \o pieces[2] = seen
    <3>1. SubSeq(seen, 1, i) \o SubSeq(seen, i + 1, 11) = SubSeq(seen, 1, 11)
      BY <1>5, <2>5
    <3> QED
      BY <1>6, <2>4, <3>1
  <2>8. Len(pieces[1]) # 0 /\ Len(pieces[2]) # 0 /\ Len(pieces[1]) + Len(pieces[2]) = 11
    BY <2>5, <2>6
  <2> QED
    BY <1>7, <2>1, <2>7, <2>8, WindowsOfTwo
<1>11. CASE Len(cuts) = 4
  <2> DEFINE i == cuts[2]
             j == cuts[3]
  <2>1. /\ Len(pieces) = 3 /\ pieces[1] = SubSeq(seen, cuts[1] + 1, i)
        /\ pieces[2] = SubSeq(seen, i + 1, j)
        /\ pieces[3] = SubSeq(seen, j + 1, cuts[4])
    BY <1>7, <1>11
  <2>2. cuts[1] = 0 /\ cuts[4] = 11 /\ i \in 0..11 /\ j \in 0..11
    BY <1>2, <1>3, <1>11
  <2>3. cuts[1] < i /\ i < j /\ j < cuts[4]
    BY <1>2, <1>11
  <2> HIDE DEF i, j
  <2>4. pieces[1] = SubSeq(seen, 1, i) /\ pieces[3] = SubSeq(seen, j + 1, 11)
    BY <2>1, <2>2
  <2>5. /\ i \in 1..9 /\ j \in 2..10 /\ i < j /\ i - 0 # 0 /\ j - i # 0 /\ 11 - j # 0
        /\ ((i - 0) + (j - i)) + (11 - j) = 11 /\ 0 + 1 = 1
    BY <2>2, <2>3
  <2>6. Len(pieces[1]) = i - 0 /\ Len(pieces[2]) = j - i /\ Len(pieces[3]) = 11 - j
    <3>1. /\ Len(SubSeq(seen, 0 + 1, i)) = i - 0 /\ Len(SubSeq(seen, i + 1, j)) = j - i
          /\ Len(SubSeq(seen, j + 1, 11)) = 11 - j
      BY <1>4, <2>2, <2>3
    <3> QED
      BY <2>1, <2>4, <2>5, <3>1
  <2>7. (pieces[1] \o pieces[2]) \o pieces[3] = seen
    <3>1. pieces[1] \o pieces[2] = SubSeq(seen, 1, j)
      <4>1. SubSeq(seen, 1, i) \o SubSeq(seen, i + 1, j) = SubSeq(seen, 1, j)
        BY <1>5, <2>5
      <4> QED
        BY <2>1, <2>4, <4>1
    <3>2. SubSeq(seen, 1, j) \o SubSeq(seen, j + 1, 11) = SubSeq(seen, 1, 11)
      BY <1>5, <2>5
    <3> QED
      BY <1>6, <2>4, <3>1, <3>2
  <2>8. /\ Len(pieces[1]) # 0 /\ Len(pieces[2]) # 0 /\ Len(pieces[3]) # 0
        /\ Len(pieces[1]) + Len(pieces[2]) + Len(pieces[3]) = 11
    BY <2>5, <2>6
  <2> QED
    BY <1>7, <2>1, <2>7, <2>8, WindowsOfThree
<1> QED
  BY <1>2, <1>9, <1>10, <1>11

\* Two remainders with the same check digit are equal, or the digit is 0.
LEMMA EqualCheckDigits ==
  ASSUME NEW a \in 0..10, NEW b \in 0..10, a % 10 = b % 10
  PROVE  a = b \/ b % 10 = 0
OBVIOUS

\* The weighted sum of ten values.
Weigh(a, b, c, d, e, f, g, h, i, j) ==
    a + 2 * b + 4 * c + 8 * d + 16 * e + 32 * f + 64 * g + 128 * h + 256 * i + 512 * j

\* The check sum of a container number's first ten values.
WeighAll(v) == Weigh(v[1], v[2], v[3], v[4], v[5], v[6], v[7], v[8], v[9], v[10])

\* One value replaced moves the sum by its weight, which 11 does not divide.
LEMMA MisreadWeighs ==
  ASSUME NEW v \in [1..11 -> 0..38], NEW u \in [1..11 -> 0..38], NEW at \in 1..10,
         \A i \in 1..11 : i # at => u[i] = v[i],
         NEW total, total = WeighAll(v), NEW again, again = WeighAll(u)
  PROVE  /\ total \in Nat /\ again \in Nat
         /\ again % 11 = total % 11 => (u[at] + 22 - v[at]) % 11 = 0
<1>1. PICK a \in 0..38 : a = v[1]
  OBVIOUS
<1>2. PICK b \in 0..38 : b = v[2]
  OBVIOUS
<1>3. PICK c \in 0..38 : c = v[3]
  OBVIOUS
<1>4. PICK d \in 0..38 : d = v[4]
  OBVIOUS
<1>5. PICK e \in 0..38 : e = v[5]
  OBVIOUS
<1>6. PICK f \in 0..38 : f = v[6]
  OBVIOUS
<1>7. PICK g \in 0..38 : g = v[7]
  OBVIOUS
<1>8. PICK h \in 0..38 : h = v[8]
  OBVIOUS
<1>9. PICK i \in 0..38 : i = v[9]
  OBVIOUS
<1>10. PICK j \in 0..38 : j = v[10]
  OBVIOUS
<1>11. PICK x \in 0..38 : x = u[at]
  OBVIOUS
<1>12. total = Weigh(a, b, c, d, e, f, g, h, i, j)
  BY <1>1, <1>2, <1>3, <1>4, <1>5, <1>6, <1>7, <1>8, <1>9, <1>10 DEF WeighAll
<1>13. total \in Nat
  BY <1>12 DEF Weigh
<1>14. CASE at = 1
  <2>1. again = Weigh(x, b, c, d, e, f, g, h, i, j)
    <3>1. u[1] = x /\ u[2] = b /\ u[3] = c /\ u[4] = d /\ u[5] = e
      BY <1>1, <1>2, <1>3, <1>4, <1>5, <1>6, <1>7, <1>8, <1>9, <1>10, <1>11, <1>14
    <3>2. u[6] = f /\ u[7] = g /\ u[8] = h /\ u[9] = i /\ u[10] = j
      BY <1>1, <1>2, <1>3, <1>4, <1>5, <1>6, <1>7, <1>8, <1>9, <1>10, <1>11, <1>14
    <3> QED
      BY <3>1, <3>2 DEF WeighAll
  <2>2. again \in Nat /\ again + 1 * a = total + 1 * x
    BY <1>12, <2>1 DEF Weigh
  <2>3. again % 11 = total % 11 => (x + 22 - a) % 11 = 0
    BY <1>13, <2>2
  <2> QED
    BY <1>1, <1>11, <1>13, <1>14, <2>2, <2>3
<1>15. CASE at = 2
  <2>1. again = Weigh(a, x, c, d, e, f, g, h, i, j)
    <3>1. u[1] = a /\ u[2] = x /\ u[3] = c /\ u[4] = d /\ u[5] = e
      BY <1>1, <1>2, <1>3, <1>4, <1>5, <1>6, <1>7, <1>8, <1>9, <1>10, <1>11, <1>15
    <3>2. u[6] = f /\ u[7] = g /\ u[8] = h /\ u[9] = i /\ u[10] = j
      BY <1>1, <1>2, <1>3, <1>4, <1>5, <1>6, <1>7, <1>8, <1>9, <1>10, <1>11, <1>15
    <3> QED
      BY <3>1, <3>2 DEF WeighAll
  <2>2. again \in Nat /\ again + 2 * b = total + 2 * x
    BY <1>12, <2>1 DEF Weigh
  <2>3. again % 11 = total % 11 => (x + 22 - b) % 11 = 0
    BY <1>13, <2>2
  <2> QED
    BY <1>2, <1>11, <1>13, <1>15, <2>2, <2>3
<1>16. CASE at = 3
  <2>1. again = Weigh(a, b, x, d, e, f, g, h, i, j)
    <3>1. u[1] = a /\ u[2] = b /\ u[3] = x /\ u[4] = d /\ u[5] = e
      BY <1>1, <1>2, <1>3, <1>4, <1>5, <1>6, <1>7, <1>8, <1>9, <1>10, <1>11, <1>16
    <3>2. u[6] = f /\ u[7] = g /\ u[8] = h /\ u[9] = i /\ u[10] = j
      BY <1>1, <1>2, <1>3, <1>4, <1>5, <1>6, <1>7, <1>8, <1>9, <1>10, <1>11, <1>16
    <3> QED
      BY <3>1, <3>2 DEF WeighAll
  <2>2. again \in Nat /\ again + 4 * c = total + 4 * x
    BY <1>12, <2>1 DEF Weigh
  <2>3. again % 11 = total % 11 => (x + 22 - c) % 11 = 0
    BY <1>13, <2>2
  <2> QED
    BY <1>3, <1>11, <1>13, <1>16, <2>2, <2>3
<1>17. CASE at = 4
  <2>1. again = Weigh(a, b, c, x, e, f, g, h, i, j)
    <3>1. u[1] = a /\ u[2] = b /\ u[3] = c /\ u[4] = x /\ u[5] = e
      BY <1>1, <1>2, <1>3, <1>4, <1>5, <1>6, <1>7, <1>8, <1>9, <1>10, <1>11, <1>17
    <3>2. u[6] = f /\ u[7] = g /\ u[8] = h /\ u[9] = i /\ u[10] = j
      BY <1>1, <1>2, <1>3, <1>4, <1>5, <1>6, <1>7, <1>8, <1>9, <1>10, <1>11, <1>17
    <3> QED
      BY <3>1, <3>2 DEF WeighAll
  <2>2. again \in Nat /\ again + 8 * d = total + 8 * x
    BY <1>12, <2>1 DEF Weigh
  <2>3. again % 11 = total % 11 => (x + 22 - d) % 11 = 0
    BY <1>13, <2>2
  <2> QED
    BY <1>4, <1>11, <1>13, <1>17, <2>2, <2>3
<1>18. CASE at = 5
  <2>1. again = Weigh(a, b, c, d, x, f, g, h, i, j)
    <3>1. u[1] = a /\ u[2] = b /\ u[3] = c /\ u[4] = d /\ u[5] = x
      BY <1>1, <1>2, <1>3, <1>4, <1>5, <1>6, <1>7, <1>8, <1>9, <1>10, <1>11, <1>18
    <3>2. u[6] = f /\ u[7] = g /\ u[8] = h /\ u[9] = i /\ u[10] = j
      BY <1>1, <1>2, <1>3, <1>4, <1>5, <1>6, <1>7, <1>8, <1>9, <1>10, <1>11, <1>18
    <3> QED
      BY <3>1, <3>2 DEF WeighAll
  <2>2. again \in Nat /\ again + 16 * e = total + 16 * x
    BY <1>12, <2>1 DEF Weigh
  <2>3. again % 11 = total % 11 => (x + 22 - e) % 11 = 0
    BY <1>13, <2>2
  <2> QED
    BY <1>5, <1>11, <1>13, <1>18, <2>2, <2>3
<1>19. CASE at = 6
  <2>1. again = Weigh(a, b, c, d, e, x, g, h, i, j)
    <3>1. u[1] = a /\ u[2] = b /\ u[3] = c /\ u[4] = d /\ u[5] = e
      BY <1>1, <1>2, <1>3, <1>4, <1>5, <1>6, <1>7, <1>8, <1>9, <1>10, <1>11, <1>19
    <3>2. u[6] = x /\ u[7] = g /\ u[8] = h /\ u[9] = i /\ u[10] = j
      BY <1>1, <1>2, <1>3, <1>4, <1>5, <1>6, <1>7, <1>8, <1>9, <1>10, <1>11, <1>19
    <3> QED
      BY <3>1, <3>2 DEF WeighAll
  <2>2. again \in Nat /\ again + 32 * f = total + 32 * x
    BY <1>12, <2>1 DEF Weigh
  <2>3. again % 11 = total % 11 => (x + 22 - f) % 11 = 0
    BY <1>13, <2>2
  <2> QED
    BY <1>6, <1>11, <1>13, <1>19, <2>2, <2>3
<1>20. CASE at = 7
  <2>1. again = Weigh(a, b, c, d, e, f, x, h, i, j)
    <3>1. u[1] = a /\ u[2] = b /\ u[3] = c /\ u[4] = d /\ u[5] = e
      BY <1>1, <1>2, <1>3, <1>4, <1>5, <1>6, <1>7, <1>8, <1>9, <1>10, <1>11, <1>20
    <3>2. u[6] = f /\ u[7] = x /\ u[8] = h /\ u[9] = i /\ u[10] = j
      BY <1>1, <1>2, <1>3, <1>4, <1>5, <1>6, <1>7, <1>8, <1>9, <1>10, <1>11, <1>20
    <3> QED
      BY <3>1, <3>2 DEF WeighAll
  <2>2. again \in Nat /\ again + 64 * g = total + 64 * x
    BY <1>12, <2>1 DEF Weigh
  <2>3. again % 11 = total % 11 => (x + 22 - g) % 11 = 0
    BY <1>13, <2>2
  <2> QED
    BY <1>7, <1>11, <1>13, <1>20, <2>2, <2>3
<1>21. CASE at = 8
  <2>1. again = Weigh(a, b, c, d, e, f, g, x, i, j)
    <3>1. u[1] = a /\ u[2] = b /\ u[3] = c /\ u[4] = d /\ u[5] = e
      BY <1>1, <1>2, <1>3, <1>4, <1>5, <1>6, <1>7, <1>8, <1>9, <1>10, <1>11, <1>21
    <3>2. u[6] = f /\ u[7] = g /\ u[8] = x /\ u[9] = i /\ u[10] = j
      BY <1>1, <1>2, <1>3, <1>4, <1>5, <1>6, <1>7, <1>8, <1>9, <1>10, <1>11, <1>21
    <3> QED
      BY <3>1, <3>2 DEF WeighAll
  <2>2. again \in Nat /\ again + 128 * h = total + 128 * x
    BY <1>12, <2>1 DEF Weigh
  <2>3. again % 11 = total % 11 => (x + 22 - h) % 11 = 0
    BY <1>13, <2>2
  <2> QED
    BY <1>8, <1>11, <1>13, <1>21, <2>2, <2>3
<1>22. CASE at = 9
  <2>1. again = Weigh(a, b, c, d, e, f, g, h, x, j)
    <3>1. u[1] = a /\ u[2] = b /\ u[3] = c /\ u[4] = d /\ u[5] = e
      BY <1>1, <1>2, <1>3, <1>4, <1>5, <1>6, <1>7, <1>8, <1>9, <1>10, <1>11, <1>22
    <3>2. u[6] = f /\ u[7] = g /\ u[8] = h /\ u[9] = x /\ u[10] = j
      BY <1>1, <1>2, <1>3, <1>4, <1>5, <1>6, <1>7, <1>8, <1>9, <1>10, <1>11, <1>22
    <3> QED
      BY <3>1, <3>2 DEF WeighAll
  <2>2. again \in Nat /\ again + 256 * i = total + 256 * x
    BY <1>12, <2>1 DEF Weigh
  <2>3. again % 11 = total % 11 => (x + 22 - i) % 11 = 0
    BY <1>13, <2>2
  <2> QED
    BY <1>9, <1>11, <1>13, <1>22, <2>2, <2>3
<1>23. CASE at = 10
  <2>1. again = Weigh(a, b, c, d, e, f, g, h, i, x)
    <3>1. u[1] = a /\ u[2] = b /\ u[3] = c /\ u[4] = d /\ u[5] = e
      BY <1>1, <1>2, <1>3, <1>4, <1>5, <1>6, <1>7, <1>8, <1>9, <1>10, <1>11, <1>23
    <3>2. u[6] = f /\ u[7] = g /\ u[8] = h /\ u[9] = i /\ u[10] = x
      BY <1>1, <1>2, <1>3, <1>4, <1>5, <1>6, <1>7, <1>8, <1>9, <1>10, <1>11, <1>23
    <3> QED
      BY <3>1, <3>2 DEF WeighAll
  <2>2. again \in Nat /\ again + 512 * j = total + 512 * x
    BY <1>12, <2>1 DEF Weigh
  <2>3. again % 11 = total % 11 => (x + 22 - j) % 11 = 0
    BY <1>13, <2>2
  <2> QED
    BY <1>10, <1>11, <1>13, <1>23, <2>2, <2>3
<1> QED
  BY <1>14, <1>15, <1>16, <1>17, <1>18, <1>19, <1>20, <1>21, <1>22, <1>23

\* A valid number, one place of which was misread and which is valid again.
LEMMA CongruentDigits ==
  ASSUME NEW x \in 0..9, NEW y \in 0..9, (x + 22 - y) % 11 = 0
  PROVE  x = y
OBVIOUS

\* A misread plate that is valid all the same ends in an ambiguous 0, or has a
\* letter of its owner code read as one congruent to it modulo 11.
LEMMA MisreadIsCongruent ==
  ASSUME NEW plate \in ContainerNumbers, NEW seen \in [1..11 -> Characters], NEW at \in 1..11,
         seen[at] # plate[at], \A i \in 1..11 : i # at => seen[i] = plate[i],
         IsValidContainerNo(seen)
  PROVE  \/ IsCheckDigitAmbiguous(seen)
         \/ /\ at <= 4 /\ seen[at] \in Letters \ {plate[at]}
            /\ (Values[seen[at]] + 22 - Values[plate[at]]) % 11 = 0
<1>1. plate \in [1..11 -> Characters] /\ IsValidContainerNo(plate)
  BY DEF ContainerNumbers
<1>3. /\ HasShape(plate) /\ ContainerCheckDigit(plate) = Values[plate[11]]
      /\ HasShape(seen) /\ ContainerCheckDigit(seen) = Values[seen[11]]
  BY <1>1 DEF IsValidContainerNo
<1>4. /\ \A i \in 1..4 : plate[i] \in Letters /\ seen[i] \in Letters
      /\ \A i \in 5..11 : plate[i] \in Digits /\ seen[i] \in Digits
      /\ Len(seen) = 11
  BY <1>3 DEF HasShape
<1>5. \A c \in Characters : Values[c] \in 0..38
  BY LettersAndDigits DEF Characters
<1>6. PICK v \in [1..11 -> 0..38] : \A i \in 1..11 : v[i] = Values[plate[i]]
  <2>1. [i \in 1..11 |-> Values[plate[i]]] \in [1..11 -> 0..38]
    BY <1>1, <1>5
  <2> QED
    BY <2>1
<1>7. PICK u \in [1..11 -> 0..38] : \A i \in 1..11 : u[i] = Values[seen[i]]
  <2>1. [i \in 1..11 |-> Values[seen[i]]] \in [1..11 -> 0..38]
    BY <1>5
  <2> QED
    BY <2>1
<1>8. PICK total : /\ total = WeighAll(v)
                   /\ ContainerCheckDigit(plate) = (total % 11) % 10
  BY <1>6 DEF ContainerCheckDigit, Weigh, WeighAll
<1>9. PICK again : /\ again = WeighAll(u)
                   /\ ContainerCheckDigit(seen) = (again % 11) % 10
  BY <1>7 DEF ContainerCheckDigit, Weigh, WeighAll
<1>10. \A i \in 1..11 : i # at => u[i] = v[i]
  BY <1>6, <1>7
<1>11. (total % 11) % 10 = v[11] /\ (again % 11) % 10 = u[11]
  <2>1. v[11] = Values[plate[11]]
    BY <1>6
  <2>2. u[11] = Values[seen[11]]
    BY <1>7
  <2> QED
    BY <1>3, <1>8, <1>9, <2>1, <2>2
<1>12. CASE at \in 1..10
  <2>1. /\ total \in Nat /\ again \in Nat
        /\ again % 11 = total % 11 => (u[at] + 22 - v[at]) % 11 = 0
    <3>1. /\ WeighAll(v) \in Nat /\ WeighAll(u) \in Nat
          /\ WeighAll(u) % 11 = WeighAll(v) % 11 => (u[at] + 22 - v[at]) % 11 = 0
      BY <1>10, <1>12, MisreadWeighs
    <3>2. total = WeighAll(v) /\ again = WeighAll(u)
      BY <1>8, <1>9
    <3> QED
      BY <3>1, <3>2
  <2>3. u[11] = v[11] /\ seen[11] \in Digits /\ u[11] = Values[seen[11]]
    BY <1>4, <1>7, <1>10, <1>12
  <2>4. total % 11 \in 0..10 /\ again % 11 \in 0..10
    BY <2>1
  <2>5. again % 11 = total % 11 \/ (total % 11) % 10 = 0
    BY <1>11, <2>3, <2>4, EqualCheckDigits
  <2>6. CASE (total % 11) % 10 = 0
    <3>1. seen[11] = "0"
      BY <1>11, <2>3, <2>6, LettersAndDigits
    <3> QED
      BY <1>4, <3>1 DEF IsCheckDigitAmbiguous
  <2>7. CASE again % 11 = total % 11
    <3>1. /\ u[at] \in 0..38 /\ v[at] \in 0..38
          /\ u[at] = Values[seen[at]] /\ v[at] = Values[plate[at]]
      BY <1>6, <1>7
    <3>2. (Values[seen[at]] + 22 - Values[plate[at]]) % 11 = 0
      <4>1. (u[at] + 22 - v[at]) % 11 = 0
        BY <2>1, <2>7
      <4> QED
        BY <3>1, <4>1
    <3>3. CASE at \in 1..4
      BY <1>4, <3>2, <3>3
    <3>4. CASE at \in 5..10
      <4>1. seen[at] \in Digits /\ plate[at] \in Digits
        BY <1>4, <3>4
      <4>2. /\ Values[seen[at]] \in 0..9 /\ Values[plate[at]] \in 0..9
            /\ Values[seen[at]] # Values[plate[at]]
        BY <4>1, LettersAndDigits
      <4> QED
        BY <3>2, <4>2, CongruentDigits
    <3> QED
      BY <1>12, <3>3, <3>4
  <2> QED
    BY <2>5, <2>6, <2>7
<1>13. CASE at = 11
  <2>1. u[1] = v[1] /\ u[2] = v[2] /\ u[3] = v[3] /\ u[4] = v[4] /\ u[5] = v[5]
    BY <1>10, <1>13
  <2>2. u[6] = v[6] /\ u[7] = v[7] /\ u[8] = v[8] /\ u[9] = v[9] /\ u[10] = v[10]
    BY <1>10, <1>13
  <2>3. total = again
    BY <1>8, <1>9, <2>1, <2>2 DEF WeighAll
  <2>4. u[11] = v[11]
    BY <1>11, <2>3
  <2>5. seen[at] \in Digits /\ plate[11] \in Digits /\ Values[seen[at]] = Values[plate[11]]
    BY <1>4, <1>6, <1>7, <1>13, <2>4
  <2> QED
    BY <1>13, <2>5, LettersAndDigits
<1> QED
  BY <1>12, <1>13

\* Whatever the repair of a misread number comes to is a valid number, and what
\* is valid already is left alone.
LEMMA CandidatesAre ==
  ASSUME NEW seen \in [1..11 -> Characters]
  PROVE  /\ IsValidContainerNo(seen) => Candidates(seen) = {seen}
         /\ \A c \in Candidates(seen) : c \in [1..11 -> Characters] /\ IsValidContainerNo(c)
<1> DEFINE base == CoerceContainerShape(seen)
<1>1. Len(seen) = 11
  OBVIOUS
<1>2. \A i \in 5..11, d \in Digits : /\ DOMAIN [base EXCEPT ![i] = d] = 1..11
                                     /\ [base EXCEPT ![i] = d] =
                                           [j \in 1..11 |-> [base EXCEPT ![i] = d][j]]
  BY DEF CoerceContainerShape
<1>3. DOMAIN base = 1..11 /\ base = [j \in 1..11 |-> base[j]]
  BY DEF CoerceContainerShape
<1>4. ASSUME NEW c, c = [j \in 1..11 |-> c[j]], IsValidContainerNo(c)
      PROVE  c \in [1..11 -> Characters]
  <2>1. \A j \in 1..11 : c[j] \in Characters
    BY <1>4 DEF IsValidContainerNo, HasShape, Characters
  <2> QED
    BY <1>4, <2>1
<1> HIDE DEF base
<1>5. \A c \in Repairs(base) : c = [j \in 1..11 |-> c[j]] /\ IsValidContainerNo(c)
  <2> SUFFICES ASSUME NEW c \in Repairs(base)
               PROVE  c = [j \in 1..11 |-> c[j]] /\ IsValidContainerNo(c)
    OBVIOUS
  <2>1. PICK i \in 5..11, d \in Digits : c = [base EXCEPT ![i] = d]
    BY DEF Repairs
  <2>2. IsValidContainerNo(c)
    BY DEF Repairs
  <2> QED
    BY <1>2, <2>1, <2>2
<1>6. /\ IsValidContainerNo(seen) => Candidates(seen) = {seen}
      /\ \A c \in Candidates(seen) :
            \/ c = seen /\ IsValidContainerNo(c)
            \/ c = base /\ IsValidContainerNo(c)
            \/ c \in Repairs(base)
  BY <1>1 DEF Candidates, base
<1>7. ASSUME NEW c \in Candidates(seen)
      PROVE  c \in [1..11 -> Characters] /\ IsValidContainerNo(c)
  <2>1. CASE c = seen /\ IsValidContainerNo(c)
    BY <2>1
  <2>2. CASE c = base /\ IsValidContainerNo(c)
    BY <1>3, <1>4, <2>2
  <2>3. CASE c \in Repairs(base)
    BY <1>4, <1>5, <2>3
  <2> QED
    BY <1>6, <1>7, <2>1, <2>2, <2>3
<1> QED
  BY <1>6, <1>7

\* A text of eleven characters holds one other text of that length: itself.
LEMMA HoldsOnlyItself ==
  ASSUME NEW t \in [1..11 -> Characters], NEW c \in [1..11 -> Characters], Holds(t, c)
  PROVE  c = t
<1>1. t \in Seq(Characters) /\ Len(t) = 11 /\ Len(c) = 11
  BY FunctionIsSeq
<1>2. PICK i \in 0..(11 - 11) : SubSeq(t, i + 1, i + 11) = c
  BY <1>1 DEF Holds
<1>3. i + 1 = 1 /\ i + 11 = 11
  OBVIOUS
<1>4. SubSeq(t, 1, 11) = t
  BY <1>1, SubSeqFull
<1> QED
  BY <1>2, <1>3, <1>4

\* The answer to a plate of which at most one character was misread.
LEMMA ReadingOfAPlate ==
  ASSUME NEW plate \in ContainerNumbers, NEW at \in 1..11, NEW as \in Characters,
         NEW tokens, Windows(tokens) = {[plate EXCEPT ![at] = as]},
         Join(tokens) = [plate EXCEPT ![at] = as]
  PROVE  LET answer == Interpret(tokens) IN
           \/ answer.value = plate
           \/ answer.value = <<>> /\ plate[at] # as
           \/ answer.confirm /\ plate[at] # as
           \/ /\ at <= 4 /\ as \in Letters \ {plate[at]}
              /\ (Values[as] + 22 - Values[plate[at]]) % 11 = 0
<1>1. PICK seen \in [1..11 -> Characters] :
        /\ seen = [plate EXCEPT ![at] = as] /\ seen[at] = as
        /\ \A i \in 1..11 : i # at => seen[i] = plate[i]
        /\ Windows(tokens) = {seen} /\ Join(tokens) = seen
  BY DEF ContainerNumbers
<1> DEFINE found == ExtractContainerNumbers(tokens)
           value == CHOOSE c \in found : TRUE
<1>2. found = {c \in Candidates(seen) : HasStandardCategory(c)}
  BY <1>1 DEF ExtractContainerNumbers
<1>3. /\ IsValidContainerNo(seen) => Candidates(seen) = {seen}
      /\ \A c \in Candidates(seen) : c \in [1..11 -> Characters] /\ IsValidContainerNo(c)
  BY CandidatesAre
<1>4. Cardinality({}) = 0 /\ Cardinality({plate}) = 1
  BY FS_EmptySet, FS_Singleton
<1>5. Interpret(tokens) =
        IF Cardinality(found) # 1 THEN [value |-> <<>>, confirm |-> TRUE]
        ELSE [value |-> value, confirm |-> ~Holds(seen, value) \/ IsCheckDigitAmbiguous(value)]
  BY <1>1 DEF Interpret
<1> HIDE DEF found, value
<1>6. CASE as = plate[at]
  <2>1. seen = plate
    BY <1>1, <1>6 DEF ContainerNumbers
  <2>2. found = {plate}
    BY <1>2, <1>3, <2>1 DEF ContainerNumbers
  <2>3. value = plate
    BY <2>2 DEF value
  <2> QED
    BY <1>4, <1>5, <2>2, <2>3
<1>7. CASE as # plate[at] /\ Cardinality(found) # 1
  <2>1. Interpret(tokens).value = <<>>
    BY <1>5, <1>7
  <2> QED
    BY <1>7, <2>1
<1>8. CASE as # plate[at] /\ Cardinality(found) = 1
  <2>1. value \in found
    BY <1>4, <1>8 DEF value
  <2>2. value \in [1..11 -> Characters] /\ IsValidContainerNo(value)
    BY <1>2, <1>3, <2>1
  <2>3. /\ Interpret(tokens).value = value
        /\ Interpret(tokens).confirm = (~Holds(seen, value) \/ IsCheckDigitAmbiguous(value))
    BY <1>5, <1>8
  <2>4. CASE ~Holds(seen, value) \/ IsCheckDigitAmbiguous(value)
    BY <1>8, <2>3, <2>4
  <2>5. CASE Holds(seen, value) /\ ~IsCheckDigitAmbiguous(value)
    <3>1. value = seen
      BY <2>2, <2>5, HoldsOnlyItself
    <3>2. at <= 4 /\ seen[at] \in Letters \ {plate[at]}
          /\ (Values[seen[at]] + 22 - Values[plate[at]]) % 11 = 0
      <4>1. seen[at] # plate[at] /\ \A i \in 1..11 : i # at => seen[i] = plate[i]
        BY <1>1, <1>8
      <4>2. IsValidContainerNo(seen) /\ ~IsCheckDigitAmbiguous(seen)
        BY <2>2, <2>5, <3>1
      <4> QED
        BY <4>1, <4>2, MisreadIsCongruent
    <3> QED
      BY <1>1, <3>2
  <2> QED
    BY <2>4, <2>5
<1> QED
  BY <1>6, <1>7, <1>8

\* Any container number, any character of it misread as any other, in one to
\* three pieces and nothing else in frame.
ReadAnyPlate ==
    \E plate \in ContainerNumbers, at \in 1..11, as \in Characters, cuts \in PlateCuts :
        AskPlate(plate, at, as, cuts, <<>>)

\* Any two texts, any cap.
ReadAnyDistance == \E a, b \in Seq(Characters), max \in Nat : AskDistance(a, b, max)

\* The identifier rules asked one question, with no bound on what is asked.
IdentifierSpec ==
    text = <<>> /\ read = <<>> /\ [][ReadAnyPlate \/ ReadAnyDistance]_<<text, read>>

(***************************************************************************)
(* A misread plate is caught.  For every valid container number, whichever *)
(* character of it the camera misreads as whatever, in one to three pieces *)
(* and with no other text in frame: interpret proposes the number on the   *)
(* plate, or nothing, or something it flags for confirmation; only a       *)
(* letter of the owner code read as one of a congruent value passes for    *)
(* the plate unflagged, which the check digit of ISO 6346 cannot tell.     *)
(***************************************************************************)
THEOREM MisreadPlateIsCaught == IdentifierSpec => []ProposalIsThePlate
<1>1. text = <<>> => ProposalIsThePlate
  BY DEF ProposalIsThePlate
<1>2. ProposalIsThePlate /\ [ReadAnyPlate \/ ReadAnyDistance]_<<text, read>>
         => ProposalIsThePlate'
  <2> SUFFICES ASSUME ProposalIsThePlate, [ReadAnyPlate \/ ReadAnyDistance]_<<text, read>>
               PROVE  ProposalIsThePlate'
    OBVIOUS
  <2>1. ASSUME NEW plate \in ContainerNumbers, NEW at \in 1..11, NEW as \in Characters,
               NEW cuts \in PlateCuts, AskPlate(plate, at, as, cuts, <<>>)
        PROVE  ProposalIsThePlate'
    <3> DEFINE seen == [plate EXCEPT ![at] = as]
               tokens == [k \in 1..(Len(cuts) - 1) |->
                            SubSeq(seen, cuts[k] + 1, cuts[k + 1])] \o <<>>
    <3>1. seen \in [1..11 -> Characters]
      BY DEF ContainerNumbers
    <3>2. /\ text' = [plate |-> plate, at |-> at, as |-> as]
          /\ read' = Interpret(tokens)
      BY <2>1 DEF AskPlate
    <3>3. Windows(tokens) = {seen} /\ Join(tokens) = seen
      <4> HIDE DEF seen
      <4> QED
        BY <3>1, PlateWindow
    <3>4. /\ text'.plate = plate /\ text'.at = at /\ text'.as = as
      BY <3>2
    <3> HIDE DEF tokens
    <3>5. \/ read'.value = plate
          \/ read'.value = <<>> /\ plate[at] # as
          \/ read'.confirm /\ plate[at] # as
          \/ /\ at <= 4 /\ as \in Letters \ {plate[at]}
             /\ (Values[as] + 22 - Values[plate[at]]) % 11 = 0
      BY <3>2, <3>3, ReadingOfAPlate
    <3> QED
      BY <3>4, <3>5 DEF ProposalIsThePlate
  <2>2. ASSUME NEW a, NEW b, NEW max, AskDistance(a, b, max)
        PROVE  ProposalIsThePlate'
    <3>1. text' = [a |-> a, b |-> b, max |-> max]
      BY <2>2 DEF AskDistance
    <3>2. "plate" \notin DOMAIN text'
      BY <3>1
    <3> QED
      BY <3>2 DEF ProposalIsThePlate
  <2>3. CASE UNCHANGED <<text, read>>
    BY <2>3 DEF ProposalIsThePlate
  <2> QED
    BY <2>1, <2>2, <2>3 DEF ReadAnyPlate, ReadAnyDistance
<1> QED
  BY <1>1, <1>2, PTL DEF IdentifierSpec

\* Up to three tokens in a row join to a text.
LEMMA JoinIsText ==
  ASSUME NEW tokens \in Seq(Seq(Characters)), NEW i \in 1..Len(tokens),
         NEW j \in i..Len(tokens), j <= i + 2
  PROVE  Join(SubSeq(tokens, i, j)) \in Seq(Characters)
<1> DEFINE part == SubSeq(tokens, i, j)
<1>1. /\ part \in Seq(Seq(Characters)) /\ Len(part) = j - i + 1
  <2>1. \A k \in i..j : tokens[k] \in Seq(Characters)
    BY ElementOfSeq
  <2> QED
    BY <2>1, SubSeqProperties
<1> HIDE DEF part
<1>2. \A k \in 1..Len(part) : part[k] \in Seq(Characters)
  BY <1>1, ElementOfSeq
<1>3. Len(part) = 1 \/ Len(part) = 2 \/ Len(part) = 3
  BY <1>1
<1>4. CASE Len(part) = 1
  <2>1. part[1] \in Seq(Characters)
    BY <1>2, <1>4
  <2>2. Join(part) = part[1]
    BY <1>4, JoinOne
  <2> QED
    BY <2>1, <2>2 DEF part
<1>5. CASE Len(part) = 2
  <2>1. part[1] \in Seq(Characters) /\ part[2] \in Seq(Characters)
    BY <1>2, <1>5
  <2>2. Join(part) = part[1] \o part[2]
    BY <1>5, JoinTwo
  <2> QED
    BY <2>1, <2>2, ConcatProperties DEF part
<1>6. CASE Len(part) = 3
  <2>1. part[1] \in Seq(Characters) /\ part[2] \in Seq(Characters) /\ part[3] \in Seq(Characters)
    BY <1>2, <1>6
  <2>2. Join(part) = (part[1] \o part[2]) \o part[3]
    BY <1>6, JoinThree
  <2>3. part[1] \o part[2] \in Seq(Characters)
    BY <2>1, ConcatProperties
  <2> QED
    BY <2>1, <2>2, <2>3, ConcatProperties DEF part
<1> QED
  BY <1>3, <1>4, <1>5, <1>6

\* Every window is a text of eleven characters.
LEMMA WindowsAreTexts ==
  ASSUME NEW tokens \in Seq(Seq(Characters)), NEW w \in Windows(tokens)
  PROVE  w \in [1..11 -> Characters]
<1>1. w \in Seq(Characters) /\ Len(w) = 11
  <2>1. CASE \E i \in 1..Len(tokens) : \E j \in i..Len(tokens) \intersect i..(i + 2) :
                Len(w) = 11 /\ w = Join(SubSeq(tokens, i, j))
    <3>0. PICK i \in 1..Len(tokens) : \E j \in i..Len(tokens) \intersect i..(i + 2) :
                Len(w) = 11 /\ w = Join(SubSeq(tokens, i, j))
      BY <2>1
    <3>1. PICK j \in i..Len(tokens) \intersect i..(i + 2) :
             Len(w) = 11 /\ w = Join(SubSeq(tokens, i, j))
      BY <3>0
    <3>2. j \in i..Len(tokens) /\ j <= i + 2
      BY <3>1
    <3>3. Join(SubSeq(tokens, i, j)) \in Seq(Characters)
      BY <3>2, JoinIsText
    <3> QED
      BY <3>1, <3>3
  <2>2. CASE \E i \in 1..Len(tokens) : \E j \in 1..(Len(tokens[i]) - 10) :
                w = SubSeq(tokens[i], j, j + 10)
    <3>0. PICK i \in 1..Len(tokens) : \E j \in 1..(Len(tokens[i]) - 10) :
                w = SubSeq(tokens[i], j, j + 10)
      BY <2>2
    <3>1. PICK j \in 1..(Len(tokens[i]) - 10) : w = SubSeq(tokens[i], j, j + 10)
      BY <3>0
    <3> DEFINE t == tokens[i]
    <3>2. t \in Seq(Characters)
      BY ElementOfSeq
    <3>3. PICK l \in Nat : l = Len(t)
      BY <3>2, LenProperties
    <3>4. j \in Int /\ j >= 1 /\ j + 10 <= l /\ w = SubSeq(t, j, j + 10)
      BY <3>1, <3>3
    <3> HIDE DEF t
    <3>5. \A k \in j..(j + 10) : t[k] \in Characters
      BY <3>2, <3>3, <3>4, ElementOfSeq
    <3>6. j + 10 \in Int /\ j <= j + 10 /\ (j + 10) - j + 1 = 11
      BY <3>4
    <3> QED
      BY <3>4, <3>5, <3>6, SubSeqProperties
  <2> QED
    BY <2>1, <2>2 DEF Windows
<1>2. \A k \in 1..11 : w[k] \in Characters
  BY <1>1, ElementOfSeq
<1> QED
  BY <1>1, <1>2

(***************************************************************************)
(* Whatever text stands in the frame, what interpret proposes for a        *)
(* container is a number a container can be painted with, check digit and  *)
(* category included, and proposing nothing leaves it to the officer: no   *)
(* repair of a misread text ever makes up a number that is not valid.      *)
(***************************************************************************)
THEOREM ProposalIsAContainerNumber ==
  ASSUME NEW tokens \in Seq(Seq(Characters))
  PROVE  \/ Interpret(tokens) = [value |-> <<>>, confirm |-> TRUE]
         \/ Interpret(tokens).value \in ContainerNumbers
<1> DEFINE found == ExtractContainerNumbers(tokens)
           value == CHOOSE c \in found : TRUE
<1>1. found \subseteq ContainerNumbers
  <2> SUFFICES ASSUME NEW c \in found PROVE c \in ContainerNumbers
    OBVIOUS
  <2>1. PICK w \in Windows(tokens) : c \in Candidates(w) /\ HasStandardCategory(c)
    BY DEF ExtractContainerNumbers
  <2>2. w \in [1..11 -> Characters]
    BY WindowsAreTexts
  <2>3. c \in [1..11 -> Characters] /\ IsValidContainerNo(c)
    BY <2>1, <2>2, CandidatesAre
  <2> QED
    BY <2>1, <2>3 DEF ContainerNumbers
<1>2. Interpret(tokens) =
        IF Cardinality(found) # 1 THEN [value |-> <<>>, confirm |-> TRUE]
        ELSE [value |-> value,
              confirm |-> ~Holds(Join(tokens), value) \/ IsCheckDigitAmbiguous(value)]
  BY DEF Interpret
<1> HIDE DEF found, value
<1>3. CASE Cardinality(found) # 1
  BY <1>2, <1>3
<1>4. CASE Cardinality(found) = 1
  <2>1. found # {}
    <3>1. Cardinality({}) = 0
      BY FS_EmptySet
    <3>2. 0 # 1
      OBVIOUS
    <3> QED
      BY <1>4, <3>1, <3>2
  <2>2. value \in found
    BY <2>1 DEF value
  <2>3. Interpret(tokens).value = value
    BY <1>2, <1>4
  <2> QED
    BY <1>1, <2>2, <2>3
<1> QED
  BY <1>3, <1>4

-----------------------------------------------------------------------------
(***************************************************************************)
(* The edit distance.  Each row of the matrix follows the one above it;    *)
(* first what that says of two rows.                                       *)
(***************************************************************************)

\* A set of numbers that is not empty has a least element: < is well founded.
LEMMA LeastExists ==
  ASSUME NEW T \in SUBSET Nat, T # {}
  PROVE  \E m \in T : \A n \in T : m <= n
<1> DEFINE U == {1..n : n \in T}
<1>1. ASSUME NEW n \in T PROVE 1..n \in FiniteSubsetsOf(Nat)
  <2>1. IsFiniteSet(1..n)
    BY FS_Interval
  <2> QED
    BY <2>1 DEF FiniteSubsetsOf
<1>2. U \subseteq FiniteSubsetsOf(Nat) /\ U # {}
  BY <1>1
<1>3. PICK u \in U : \A v \in U : <<v, u>> \notin StrictSubsetOrdering(Nat)
  <2> HIDE DEF U
  <2> QED
    BY <1>2, FS_StrictSubsetOrderingWellFounded, WFMin
<1>4. PICK m \in T : u = 1..m
  OBVIOUS
<1>5. ASSUME NEW n \in T PROVE m <= n
  <2>0. <<1..n, 1..m>> \notin StrictSubsetOrdering(Nat)
    BY <1>3, <1>4
  <2>1. ~(1..n \subseteq 1..m /\ 1..n # 1..m)
    BY <2>0 DEF StrictSubsetOrdering
  <2>2. SUFFICES ASSUME n < m PROVE FALSE
    OBVIOUS
  <2>3. m \in 1..m /\ m \notin 1..n
    BY <2>2
  <2> QED
    BY <2>1, <2>2, <2>3
<1> QED
  BY <1>5

\* Induction, of a set of numbers.
LEMMA Reaches ==
  ASSUME NEW n \in Nat, NEW P, 0 \in P, \A i \in 0..n : i \in P /\ i < n => i + 1 \in P
  PROVE  0..n \subseteq P
<1> SUFFICES ASSUME (0..n) \ P # {} PROVE FALSE
  OBVIOUS
<1>1. PICK m \in (0..n) \ P : \A k \in (0..n) \ P : m <= k
  <2>1. (0..n) \ P \in SUBSET Nat
    OBVIOUS
  <2> QED
    BY <2>1, LeastExists
<1>2. m # 0
  OBVIOUS
<1>3. m - 1 \in 0..n /\ m - 1 \in P
  BY <1>1, <1>2
<1> QED
  BY <1>1, <1>3

\* What each step makes of the one before it, from z on, is a function.
Iterated(f, z, n, step) == f[0] = z /\ \A i \in 1..n : f[i] = step[<<i, f[i - 1]>>]

\* From z, step by step, to a function on 0..n: the definitions by recursion
\* below exist.
LEMMA Iterates ==
  ASSUME NEW S, NEW z \in S, NEW n \in Nat,
         NEW step \in [(1..n) \X S -> S]
  PROVE  \E f \in [0..n -> S] : Iterated(f, z, n, step)
<1> DEFINE Is(f, k) == f[0] = z /\ \A i \in 1..k : f[i] = step[<<i, f[i - 1]>>]
           P == {k \in 0..n : \E f \in [0..k -> S] : Is(f, k)}
<1>1. 0 \in P
  <2> DEFINE g == [i \in 0..0 |-> z]
  <2>1. g \in [0..0 -> S] /\ Is(g, 0)
    OBVIOUS
  <2> HIDE DEF g, Is
  <2> QED
    BY <2>1
<1>2. ASSUME NEW k \in 0..n, k \in P, k < n PROVE k + 1 \in P
  <2>1. PICK f \in [0..k -> S] : Is(f, k)
    BY <1>2
  <2> DEFINE g == [i \in 0..k + 1 |-> IF i <= k THEN f[i] ELSE step[<<k + 1, f[k]>>]]
  <2>2. step[<<k + 1, f[k]>>] \in S
    BY <1>2
  <2>3. g \in [0..k + 1 -> S]
    BY <2>2
  <2>4. \A i \in 1..k + 1 : g[i] = step[<<i, g[i - 1]>>]
    <3>1. ASSUME NEW i \in 1..k PROVE g[i] = step[<<i, g[i - 1]>>]
      <4>1. g[i] = f[i] /\ g[i - 1] = f[i - 1]
        OBVIOUS
      <4> HIDE DEF g
      <4> QED
        BY <2>1, <4>1
    <3>2. g[k + 1] = step[<<k + 1, g[k]>>]
      OBVIOUS
    <3> HIDE DEF g
    <3> SUFFICES ASSUME NEW i \in 1..k + 1 PROVE g[i] = step[<<i, g[i - 1]>>]
      OBVIOUS
    <3>3. CASE i \in 1..k
      BY <3>1, <3>3
    <3>4. CASE i = k + 1
      <4>1. i - 1 = k
        BY <3>4
      <4> QED
        BY <3>2, <3>4, <4>1
    <3> QED
      BY <3>3, <3>4
  <2>5. g[0] = z
    BY <2>1
  <2>6. Is(g, k + 1)
    BY <2>4, <2>5
  <2> HIDE DEF g, Is
  <2> QED
    BY <1>2, <2>3, <2>6
<1> HIDE DEF P
<1>3. 0..n \subseteq P
  BY <1>1, <1>2, Reaches
<1>4. PICK f \in [0..n -> S] : Is(f, n)
  BY <1>3 DEF P
<1> QED
  BY <1>4 DEF Iterated

-----------------------------------------------------------------------------
\* The least of three numbers is one of them and above none.
LEMMA MinOfThree ==
  ASSUME NEW x \in Nat, NEW y \in Nat, NEW z \in Nat, NEW m, m = Min({x, y, z})
  PROVE  /\ m \in Nat /\ m <= x /\ m <= y /\ m <= z
         /\ m = x \/ m = y \/ m = z
<1>1. \E k \in {x, y, z} : \A l \in {x, y, z} : k <= l
  <2>1. CASE x <= y /\ x <= z
    BY <2>1
  <2>2. CASE y <= x /\ y <= z
    BY <2>2
  <2>3. CASE z <= y /\ z <= x
    BY <2>3
  <2> QED
    BY <2>1, <2>2, <2>3
<1>2. m \in {x, y, z} /\ \A l \in {x, y, z} : m <= l
  BY <1>1 DEF Min
<1> QED
  BY <1>2

\* A row of the distance matrix against a text of n characters.
Row(n) == [1..(n + 1) -> Nat]

\* A sequence of one element is its element.
LEMMA SingleSeq ==
  ASSUME NEW S, NEW s \in Seq(S), Len(s) = 1
  PROVE  s = <<s[1]>>
OBVIOUS

\* The entry after x in the row for c, below prev.
Entry(prev, c, b, j, x) ==
    Min({prev[j + 1] + 1, x + 1, prev[j] + (IF c = b[j] THEN 0 ELSE 1)})

\* The entry is the least of its three neighbours' offers.
LEMMA EntryIs ==
  ASSUME NEW n \in Nat, NEW prev \in Row(n), NEW c, NEW b, NEW j \in 1..n, NEW x \in Nat
  PROVE  LET e == Entry(prev, c, b, j, x)
             d == IF c = b[j] THEN 0 ELSE 1
         IN  /\ prev[j] \in Nat /\ prev[j + 1] \in Nat /\ d \in Nat /\ e \in Nat
             /\ e <= prev[j + 1] + 1 /\ e <= x + 1 /\ e <= prev[j] + d
             /\ e = prev[j + 1] + 1 \/ e = x + 1 \/ e = prev[j] + d
<1> DEFINE e == Entry(prev, c, b, j, x)
           d == IF c = b[j] THEN 0 ELSE 1
<1>1. prev[j] \in Nat /\ prev[j + 1] \in Nat /\ d \in Nat
  BY DEF Row
<1>2. e = Min({prev[j + 1] + 1, x + 1, prev[j] + d})
  BY DEF Entry
<1> HIDE DEF e, d
<1>3. prev[j + 1] + 1 \in Nat /\ x + 1 \in Nat /\ prev[j] + d \in Nat
  BY <1>1
<1>4. /\ e \in Nat /\ e <= prev[j + 1] + 1 /\ e <= x + 1 /\ e <= prev[j] + d
      /\ e = prev[j + 1] + 1 \/ e = x + 1 \/ e = prev[j] + d
  BY <1>2, <1>3, MinOfThree
<1> QED
  BY <1>1, <1>4 DEF e, d

\* The row for c below prev, as far as the entry after last.
Follows(row, prev, c, b, last) ==
    /\ row[1] = prev[1] + 1
    /\ \A j \in 1..last : row[j + 1] = Entry(prev, c, b, j, row[j])

\* The same row as NextRow builds it, one entry at a time.
Growing(f, prev, c, b) ==
    f = [j \in 0..Len(b) |->
            IF j = 0 THEN <<prev[1] + 1>>
            ELSE Append(f[j - 1], Entry(prev, c, b, j, f[j - 1][j]))]

\* NextRow is the last value of the row as it grows.
LEMMA NextRowGrows ==
  ASSUME NEW prev, NEW c, NEW b, NEW g, Growing(g, prev, c, b)
  PROVE  \E f : Growing(f, prev, c, b) /\ NextRow(prev, c, b) = f[Len(b)]
<1> DEFINE upTo[j \in 0..Len(b)] ==
            IF j = 0 THEN <<prev[1] + 1>>
            ELSE LET row == upTo[j - 1]
                 IN  Append(row, Min({prev[j + 1] + 1, row[j] + 1,
                                        prev[j] + (IF c = b[j] THEN 0 ELSE 1)}))
<1>1. Growing(upTo, prev, c, b)
  BY DEF Growing, Entry
<1>2. NextRow(prev, c, b) = upTo[Len(b)]
  BY DEF NextRow
<1> HIDE DEF upTo
<1> QED
  BY <1>1, <1>2

\* Below every row, for every character, there is a next one.
LEMMA RowExists ==
  ASSUME NEW n \in Nat, NEW b, NEW c, NEW prev \in Row(n)
  PROVE  \E row \in Row(n) : Follows(row, prev, c, b, n)
<1> DEFINE step == [x \in (1..n) \X Nat |-> Entry(prev, c, b, x[1], x[2])]
<1>3. step \in [(1..n) \X Nat -> Nat]
  BY EntryIs
<1>4. \A j \in 1..n, k \in Nat : step[<<j, k>>] = Entry(prev, c, b, j, k)
  OBVIOUS
<1>5. prev[1] + 1 \in Nat
  BY DEF Row
<1> HIDE DEF step
<1>6. PICK f \in [0..n -> Nat] : /\ f[0] = prev[1] + 1
                                /\ \A j \in 1..n : f[j] = step[<<j, f[j - 1]>>]
  <2>1. PICK f \in [0..n -> Nat] : Iterated(f, prev[1] + 1, n, step)
    BY <1>3, <1>5, Iterates
  <2> QED
    BY <2>1 DEF Iterated
<1> DEFINE row == [j \in 1..(n + 1) |-> f[j - 1]]
<1>7. row \in Row(n) /\ row[1] = prev[1] + 1
  BY <1>6 DEF Row
<1>8. ASSUME NEW j \in 1..n
      PROVE  row[j + 1] = Entry(prev, c, b, j, row[j])
  <2>1. row[j + 1] = f[j] /\ row[j] = f[j - 1] /\ f[j - 1] \in Nat
    OBVIOUS
  <2> HIDE DEF row
  <2> QED
    BY <1>4, <1>6, <2>1
<1>9. Follows(row, prev, c, b, n)
  <2> HIDE DEF row
  <2> QED
    BY <1>7, <1>8 DEF Follows
<1> HIDE DEF row
<1> QED
  BY <1>7, <1>9

\* NextRow, entry by entry.
LEMMA NextRowIs ==
  ASSUME NEW b, NEW n \in Nat, Len(b) = n, NEW c, NEW prev \in Row(n)
  PROVE  NextRow(prev, c, b) \in Row(n) /\ Follows(NextRow(prev, c, b), prev, c, b, n)
<1>1. PICK r \in Row(n) : Follows(r, prev, c, b, n)
  BY RowExists
<1> DEFINE g == [j \in 0..n |-> SubSeq(r, 1, j + 1)]
<1>2. Growing(g, prev, c, b)
  <2>1. r \in Seq(Nat) /\ Len(r) = n + 1
    BY FunctionIsSeq DEF Row
  <2>2. r[1] = prev[1] + 1 /\ \A j \in 1..n : r[j + 1] = Entry(prev, c, b, j, r[j])
    BY <1>1 DEF Follows
  <2>3. SubSeq(r, 1, 0 + 1) = <<prev[1] + 1>>
    <3>1. SubSeq(r, 1, 1) \in Seq(Nat) /\ Len(SubSeq(r, 1, 1)) = 1 /\ SubSeq(r, 1, 1)[1] = r[1]
      BY <2>1
    <3>2. PICK one \in Seq(Nat) : one = SubSeq(r, 1, 1)
      BY <3>1
    <3>3. one = <<one[1]>>
      BY <3>1, <3>2, SingleSeq
    <3>4. one = <<prev[1] + 1>>
      BY <2>2, <3>1, <3>2, <3>3
    <3>5. 0 + 1 = 1
      OBVIOUS
    <3> QED
      BY <3>2, <3>4, <3>5
  <2>4. ASSUME NEW j \in 1..n
        PROVE  SubSeq(r, 1, j + 1) = Append(g[j - 1], Entry(prev, c, b, j, g[j - 1][j]))
    <3>1. g[j - 1] = SubSeq(r, 1, j)
      OBVIOUS
    <3>2. SubSeq(r, 1, j)[j] = r[j]
      BY <2>1
    <3>3. r[j + 1] = Entry(prev, c, b, j, r[j])
      BY <2>2
    <3>4. SubSeq(r, 1, j + 1) = Append(SubSeq(r, 1, j), r[j + 1])
      BY <2>1
    <3> HIDE DEF g
    <3> QED
      BY <3>1, <3>2, <3>3, <3>4
  <2>5. ASSUME NEW j \in 0..n
        PROVE  g[j] = IF j = 0 THEN <<prev[1] + 1>>
                      ELSE Append(g[j - 1], Entry(prev, c, b, j, g[j - 1][j]))
    <3>1. g[j] = SubSeq(r, 1, j + 1)
      OBVIOUS
    <3>2. CASE j = 0
      <4>1. g[j] = <<prev[1] + 1>>
        BY <2>3, <3>1, <3>2
      <4> HIDE DEF g
      <4> QED
        BY <3>2, <4>1
    <3>3. CASE j # 0
      <4>1. j \in 1..n
        BY <3>3
      <4>2. SubSeq(r, 1, j + 1) = Append(g[j - 1], Entry(prev, c, b, j, g[j - 1][j]))
        BY <2>4, <4>1
      <4> HIDE DEF g
      <4> QED
        BY <3>1, <3>3, <4>2
    <3> HIDE DEF g
    <3> QED
      BY <3>2, <3>3
  <2>6. g = [j \in 0..n |-> g[j]]
    OBVIOUS
  <2> HIDE DEF g
  <2> QED
    BY <2>5, <2>6 DEF Growing
<1> HIDE DEF g
<1>3. PICK f : Growing(f, prev, c, b) /\ NextRow(prev, c, b) = f[n]
  BY <1>2, NextRowGrows
<1>4. f = [j \in 0..n |->
             IF j = 0 THEN <<prev[1] + 1>>
             ELSE Append(f[j - 1], Entry(prev, c, b, j, f[j - 1][j]))]
  BY <1>3 DEF Growing
<1>5. /\ f[0] = <<prev[1] + 1>>
      /\ \A j \in 0..n : j < n => f[j + 1] = Append(f[j], Entry(prev, c, b, j + 1, f[j][j + 1]))
  <2>1. f[0] = <<prev[1] + 1>>
    BY <1>4
  <2>2. ASSUME NEW j \in 0..n, j < n
        PROVE  f[j + 1] = Append(f[j], Entry(prev, c, b, j + 1, f[j][j + 1]))
    <3>1. j + 1 \in 0..n /\ j + 1 # 0 /\ (j + 1) - 1 = j
      BY <2>2
    <3> QED
      BY <1>4, <3>1
  <2> QED
    BY <2>1, <2>2
<1> DEFINE Fits(row, j) == /\ row \in Seq(Nat) /\ Len(row) = j + 1
                           /\ row[1] = prev[1] + 1
                           /\ \A k \in 1..j : row[k + 1] = Entry(prev, c, b, k, row[k])
           P == {j \in 0..n : Fits(f[j], j)}
<1>6. 0 \in P
  <2>1. prev[1] + 1 \in Nat
    BY DEF Row
  <2>2. Fits(<<prev[1] + 1>>, 0)
    BY <2>1
  <2> HIDE DEF Fits
  <2>3. Fits(f[0], 0)
    BY <1>5, <2>2
  <2> QED
    BY <2>3
<1>7. ASSUME NEW j \in 0..n, j \in P, j < n PROVE j + 1 \in P
  <2> SUFFICES ASSUME NEW row, row = f[j], NEW e, e = Entry(prev, c, b, j + 1, row[j + 1])
               PROVE  Fits(Append(row, e), j + 1)
    <3>1. j + 1 \in 0..n /\ f[j + 1] = Append(f[j], Entry(prev, c, b, j + 1, f[j][j + 1]))
      BY <1>5, <1>7
    <3> HIDE DEF Fits
    <3> QED
      BY <3>1
  <2>1. /\ row \in Seq(Nat) /\ Len(row) = j + 1 /\ row[1] = prev[1] + 1
        /\ \A k \in 1..j : row[k + 1] = Entry(prev, c, b, k, row[k])
    BY <1>7
  <2>2. e \in Nat
    <3>1. j + 1 \in 1..n /\ row[j + 1] \in Nat
      BY <1>7, <2>1
    <3> QED
      BY <3>1, EntryIs
  <2> DEFINE next == Append(row, e)
  <2>3. /\ next \in Seq(Nat) /\ Len(next) = (j + 1) + 1
        /\ \A k \in 1..(j + 1) : next[k] = row[k]
        /\ next[(j + 1) + 1] = e
    BY <2>1, <2>2
  <2> HIDE DEF next
  <2>4. next[1] = prev[1] + 1
    BY <2>1, <2>3
  <2>5. ASSUME NEW k \in 1..(j + 1)
        PROVE  next[k + 1] = Entry(prev, c, b, k, next[k])
    <3>1. CASE k \in 1..j
      <4>1. next[k + 1] = row[k + 1] /\ next[k] = row[k]
        BY <2>3, <3>1
      <4> QED
        BY <2>1, <3>1, <4>1
    <3>2. CASE k = j + 1
      BY <2>3, <3>2
    <3> QED
      BY <3>1, <3>2
  <2> QED
    BY <2>3, <2>4, <2>5 DEF next
<1> HIDE DEF P
<1>8. 0..n \subseteq P
  BY <1>6, <1>7, Reaches
<1>9. Fits(f[n], n)
  <2>1. n \in P
    BY <1>8
  <2> HIDE DEF Fits
  <2> QED
    BY <2>1 DEF P
<1>10. f[n] \in Row(n) /\ Follows(f[n], prev, c, b, n)
  BY <1>9, LenProperties DEF Row, Follows
<1> QED
  BY <1>3, <1>10

\* What it costs to meet the character x with c.
Cost(c, x) == IF c = x THEN 0 ELSE 1

\* An entry of a row against the three it is the least of.
LEMMA EntryOf ==
  ASSUME NEW n \in Nat, NEW b, NEW c, NEW r \in Row(n), NEW s \in Row(n),
         Follows(s, r, c, b, n), NEW j \in 1..n
  PROVE  /\ r[j] \in Nat /\ r[j + 1] \in Nat /\ s[j] \in Nat /\ s[j + 1] \in Nat
         /\ Cost(c, b[j]) \in {0, 1} /\ (Cost(c, b[j]) = 0 => c = b[j])
         /\ (c = b[j] => Cost(c, b[j]) = 0)
         /\ s[j + 1] <= r[j + 1] + 1 /\ s[j + 1] <= s[j] + 1 /\ s[j + 1] <= r[j] + Cost(c, b[j])
         /\ s[j + 1] = r[j + 1] + 1 \/ s[j + 1] = s[j] + 1 \/ s[j + 1] = r[j] + Cost(c, b[j])
<1>1. r[j] \in Nat /\ r[j + 1] \in Nat /\ s[j] \in Nat /\ s[j + 1] \in Nat
  BY DEF Row
<1>2. s[j + 1] = Entry(r, c, b, j, s[j])
  BY DEF Follows
<1>3. PICK d : d = IF c = b[j] THEN 0 ELSE 1
  OBVIOUS
<1>4. /\ s[j + 1] <= r[j + 1] + 1 /\ s[j + 1] <= s[j] + 1 /\ s[j + 1] <= r[j] + d
      /\ s[j + 1] = r[j + 1] + 1 \/ s[j + 1] = s[j] + 1 \/ s[j + 1] = r[j] + d
  BY <1>1, <1>2, <1>3, EntryIs
<1>5. d = Cost(c, b[j]) /\ d \in {0, 1} /\ (d = 0 <=> c = b[j])
  BY <1>3 DEF Cost
<1> QED
  BY <1>1, <1>4, <1>5

\* No entry of r is more than one above the entry of s.
WithinOne(r, s, n) == \A j \in 1..(n + 1) : r[j] <= s[j] + 1

\* From entry to entry, along a row.
LEMMA AlongRow ==
  ASSUME NEW n \in Nat, NEW r \in Row(n), NEW s \in Row(n),
         r[1] <= s[1] + 1,
         \A j \in 1..n : r[j] <= s[j] + 1 => r[j + 1] <= s[j + 1] + 1
  PROVE  WithinOne(r, s, n)
<1> DEFINE P == {j \in 0..n : r[j + 1] <= s[j + 1] + 1}
<1>1. 0 \in P
  BY DEF Row
<1>2. ASSUME NEW j \in 0..n, j \in P, j < n PROVE j + 1 \in P
  <2>1. j + 1 \in 1..n /\ r[j + 1] <= s[j + 1] + 1
    BY <1>2
  <2>2. r[(j + 1) + 1] <= s[(j + 1) + 1] + 1
    BY <2>1
  <2> QED
    BY <2>1, <2>2
<1> HIDE DEF P
<1>3. 0..n \subseteq P
  BY <1>1, <1>2, Reaches
<1>4. ASSUME NEW j \in 1..(n + 1) PROVE r[j] <= s[j] + 1
  <2>1. j - 1 \in P /\ (j - 1) + 1 = j
    BY <1>3
  <2> QED
    BY <2>1 DEF P
<1> QED
  BY <1>4 DEF WithinOne

\* The same character below two rows keeps them as close.
LEMMA SameBelow ==
  ASSUME NEW n \in Nat, NEW b, NEW c,
         NEW r \in Row(n), NEW s \in Row(n), NEW r1 \in Row(n), NEW s1 \in Row(n),
         Follows(r1, r, c, b, n), Follows(s1, s, c, b, n), WithinOne(r, s, n)
  PROVE  WithinOne(r1, s1, n)
<1>1. r1[1] <= s1[1] + 1
  BY DEF Follows, Row, WithinOne
<1>2. ASSUME NEW j \in 1..n, r1[j] <= s1[j] + 1 PROVE r1[j + 1] <= s1[j + 1] + 1
  <2>2. /\ r[j] \in Nat /\ r[j + 1] \in Nat /\ r1[j] \in Nat /\ r1[j + 1] \in Nat
        /\ r1[j + 1] <= r[j + 1] + 1 /\ r1[j + 1] <= r1[j] + 1 /\ r1[j + 1] <= r[j] + Cost(c, b[j])
    BY EntryOf
  <2>3. /\ s[j] \in Nat /\ s[j + 1] \in Nat /\ s1[j] \in Nat /\ s1[j + 1] \in Nat
        /\ Cost(c, b[j]) \in {0, 1}
        /\ s1[j + 1] = s[j + 1] + 1 \/ s1[j + 1] = s1[j] + 1 \/ s1[j + 1] = s[j] + Cost(c, b[j])
    BY EntryOf
  <2>4. r[j] <= s[j] + 1 /\ r[j + 1] <= s[j + 1] + 1
    BY DEF WithinOne
  <2> QED
    BY <1>2, <2>2, <2>3, <2>4
<1> QED
  BY <1>1, <1>2, AlongRow

\* One character more to match costs at most one.
LEMMA OneMore ==
  ASSUME NEW n \in Nat, NEW b, NEW c, NEW r \in Row(n), NEW r1 \in Row(n),
         Follows(r1, r, c, b, n)
  PROVE  WithinOne(r1, r, n)
<1>1. r1[1] <= r[1] + 1
  BY DEF Follows, Row
<1>2. ASSUME NEW j \in 1..n PROVE r1[j + 1] <= r[j + 1] + 1
  BY EntryOf
<1> QED
  BY <1>1, <1>2, AlongRow

\* Along a row no entry is more than one above the one before it.
Gentle(r, n) == \A j \in 1..n : r[j + 1] <= r[j] + 1

\* A row below another grows by at most one from entry to entry.
LEMMA BelowIsGentle ==
  ASSUME NEW n \in Nat, NEW b, NEW c, NEW r \in Row(n), NEW r1 \in Row(n),
         Follows(r1, r, c, b, n)
  PROVE  Gentle(r1, n)
<1>1. ASSUME NEW j \in 1..n PROVE r1[j + 1] <= r1[j] + 1
  BY EntryOf
<1> QED
  BY <1>1 DEF Gentle

\* One character more to match saves at most one.
LEMMA OneLess ==
  ASSUME NEW n \in Nat, NEW b, NEW c, NEW r \in Row(n), NEW r1 \in Row(n),
         Follows(r1, r, c, b, n), Gentle(r, n)
  PROVE  WithinOne(r, r1, n)
<1>1. r[1] <= r1[1] + 1
  BY DEF Follows, Row
<1>2. ASSUME NEW j \in 1..n, r[j] <= r1[j] + 1 PROVE r[j + 1] <= r1[j + 1] + 1
  <2>2. /\ r[j] \in Nat /\ r[j + 1] \in Nat /\ r1[j] \in Nat /\ r1[j + 1] \in Nat
        /\ Cost(c, b[j]) \in {0, 1}
        /\ r1[j + 1] = r[j + 1] + 1 \/ r1[j + 1] = r1[j] + 1 \/ r1[j + 1] = r[j] + Cost(c, b[j])
    BY EntryOf
  <2>3. r[j + 1] <= r[j] + 1
    BY DEF Gentle
  <2> QED
    BY <1>2, <2>2, <2>3
<1> QED
  BY <1>1, <1>2, AlongRow

\* Another character in a place costs at most one.
LEMMA OtherBelow ==
  ASSUME NEW n \in Nat, NEW b, NEW c, NEW c1,
         NEW r \in Row(n), NEW s \in Row(n), NEW s1 \in Row(n),
         Follows(s, r, c, b, n), Follows(s1, r, c1, b, n)
  PROVE  WithinOne(s, s1, n)
<1>1. s[1] <= s1[1] + 1
  BY DEF Follows, Row
<1>2. ASSUME NEW j \in 1..n, s[j] <= s1[j] + 1 PROVE s[j + 1] <= s1[j + 1] + 1
  <2>3. /\ r[j] \in Nat /\ r[j + 1] \in Nat /\ s[j] \in Nat /\ s[j + 1] \in Nat
        /\ Cost(c, b[j]) \in {0, 1}
        /\ s[j + 1] <= r[j + 1] + 1 /\ s[j + 1] <= s[j] + 1 /\ s[j + 1] <= r[j] + Cost(c, b[j])
    BY EntryOf
  <2>4. /\ s1[j] \in Nat /\ s1[j + 1] \in Nat /\ Cost(c1, b[j]) \in {0, 1}
        /\ s1[j + 1] = r[j + 1] + 1 \/ s1[j + 1] = s1[j] + 1 \/ s1[j + 1] = r[j] + Cost(c1, b[j])
    BY EntryOf
  <2> QED
    BY <1>2, <2>3, <2>4
<1> QED
  BY <1>1, <1>2, AlongRow

\* A row given up on is followed by rows to give up on.
LEMMA GivesUpForGood ==
  ASSUME NEW n \in Nat, NEW b, NEW c, NEW max \in Nat, NEW r \in Row(n), NEW r1 \in Row(n),
         Follows(r1, r, c, b, n), GivesUp(r, max)
  PROVE  GivesUp(r1, max)
<1>0. \A j \in 1..(n + 1) : r[j] > max
  BY DEF GivesUp, Row
<1> DEFINE P == {j \in 0..n : r1[j + 1] > max}
<1>1. 0 \in P
  BY <1>0 DEF Follows, Row
<1>2. ASSUME NEW j \in 0..n, j \in P, j < n PROVE j + 1 \in P
  <2>1. PICK k \in 1..n : k = j + 1
    BY <1>2
  <2>3. /\ r[k] \in Nat /\ r[k + 1] \in Nat /\ r1[k] \in Nat /\ r1[k + 1] \in Nat
        /\ Cost(c, b[k]) \in {0, 1}
        /\ r1[k + 1] = r[k + 1] + 1 \/ r1[k + 1] = r1[k] + 1 \/ r1[k + 1] = r[k] + Cost(c, b[k])
    BY EntryOf
  <2>4. r1[k] > max
    BY <1>2, <2>1
  <2>5. r[k] > max /\ r[k + 1] > max
    BY <1>0
  <2>6. r1[k + 1] > max
    BY <2>3, <2>4, <2>5
  <2> QED
    BY <2>1, <2>6
<1> HIDE DEF P
<1>3. 0..n \subseteq P
  BY <1>1, <1>2, Reaches
<1>4. ASSUME NEW j \in 1..(n + 1) PROVE r1[j] > max
  <2>1. j - 1 \in P /\ (j - 1) + 1 = j
    BY <1>3
  <2> QED
    BY <2>1 DEF P
<1> QED
  BY <1>4 DEF GivesUp, Row

-----------------------------------------------------------------------------
(***************************************************************************)
(* The matrix of a text against b, and how one edit of the text moves its  *)
(* last row.                                                               *)
(***************************************************************************)

\* The row before any character: nothing but insertions.
FirstRow(n) == [j \in 1..(n + 1) |-> j - 1]

\* The rows for the text t of length l, none given up.
Matrix(f, t, l, b, n) ==
    /\ f \in [0..l -> Row(n)] /\ f[0] = FirstRow(n)
    /\ \A i \in 1..l : f[i] = NextRow(f[i - 1], t[i], b)

\* Every text has a matrix against b.
LEMMA MatrixExists ==
  ASSUME NEW b, NEW n \in Nat, Len(b) = n, NEW t, NEW l \in Nat
  PROVE  \E f : Matrix(f, t, l, b, n)
<1> DEFINE step == [x \in (1..l) \X Row(n) |-> NextRow(x[2], t[x[1]], b)]
<1>1. step \in [(1..l) \X Row(n) -> Row(n)]
  BY NextRowIs
<1>2. \A i \in 1..l, r \in Row(n) : step[<<i, r>>] = NextRow(r, t[i], b)
  OBVIOUS
<1>3. FirstRow(n) \in Row(n)
  BY DEF FirstRow, Row
<1> HIDE DEF step
<1>4. PICK f \in [0..l -> Row(n)] : Iterated(f, FirstRow(n), l, step)
  BY <1>1, <1>3, Iterates
<1>5. ASSUME NEW i \in 1..l PROVE f[i] = NextRow(f[i - 1], t[i], b)
  <2>1. f[i] = step[<<i, f[i - 1]>>] /\ f[i - 1] \in Row(n)
    BY <1>4 DEF Iterated
  <2> QED
    BY <1>2, <2>1
<1>6. Matrix(f, t, l, b, n)
  BY <1>4, <1>5 DEF Iterated, Matrix
<1> QED
  BY <1>6

\* Each row of a matrix but the first follows the one above it.
LEMMA MatrixRows ==
  ASSUME NEW b, NEW n \in Nat, Len(b) = n, NEW t, NEW l \in Nat,
         NEW f, Matrix(f, t, l, b, n), NEW i \in 1..l
  PROVE  f[i - 1] \in Row(n) /\ f[i] \in Row(n) /\ Follows(f[i], f[i - 1], t[i], b, n)
<1>1. f[i - 1] \in Row(n) /\ f[i] \in Row(n) /\ f[i] = NextRow(f[i - 1], t[i], b)
  BY DEF Matrix
<1> QED
  BY <1>1, NextRowIs

\* Along every row of a matrix the distance grows by at most one.
LEMMA MatrixIsGentle ==
  ASSUME NEW b, NEW n \in Nat, Len(b) = n, NEW t, NEW l \in Nat,
         NEW f, Matrix(f, t, l, b, n), NEW i \in 0..l
  PROVE  f[i] \in Row(n) /\ Gentle(f[i], n)
<1>1. CASE i = 0
  <2>1. f[0] = FirstRow(n) /\ f[0] \in Row(n)
    BY DEF Matrix
  <2>2. Gentle(FirstRow(n), n)
    BY DEF Gentle, FirstRow
  <2> QED
    BY <1>1, <2>1, <2>2
<1>2. CASE i # 0
  <2>1. i \in 1..l
    BY <1>2
  <2>2. f[i - 1] \in Row(n) /\ f[i] \in Row(n) /\ Follows(f[i], f[i - 1], t[i], b, n)
    BY <2>1, MatrixRows
  <2> QED
    BY <2>2, BelowIsGentle
<1> QED
  BY <1>1, <1>2

\* After p in t and after q in u the same k characters follow.
Alike(t, p, u, q, k) == \A i \in 1..k : t[p + i] = u[q + i]

\* Texts that begin alike have the same rows so far.
LEMMA SameHead ==
  ASSUME NEW b, NEW n \in Nat, Len(b) = n,
         NEW t, NEW l \in Nat, NEW f, Matrix(f, t, l, b, n),
         NEW u, NEW m \in Nat, NEW g, Matrix(g, u, m, b, n),
         NEW k \in Nat, k <= l, k <= m, Alike(t, 0, u, 0, k)
  PROVE  f[k] = g[k]
<1> DEFINE P == {i \in 0..k : f[i] = g[i]}
<1>1. 0 \in P
  BY DEF Matrix
<1>2. ASSUME NEW i \in 0..k, i \in P, i < k PROVE i + 1 \in P
  <2>1. PICK j \in 1..k : j = i + 1
    BY <1>2
  <2>2. j \in 1..l /\ j \in 1..m /\ j - 1 = i
    BY <2>1
  <2>3. f[j] = NextRow(f[j - 1], t[j], b) /\ g[j] = NextRow(g[j - 1], u[j], b)
    BY <2>2 DEF Matrix
  <2>4. f[j - 1] = g[j - 1] /\ t[j] = u[j]
    BY <1>2, <2>2 DEF Alike
  <2>5. f[j] = g[j]
    BY <2>3, <2>4
  <2> QED
    BY <2>1, <2>5
<1> HIDE DEF P
<1>3. 0..k \subseteq P
  BY <1>1, <1>2, Reaches
<1> QED
  BY <1>3 DEF P

\* Texts that end alike are as close at the end as where the ends begin.
LEMMA SameTail ==
  ASSUME NEW b, NEW n \in Nat, Len(b) = n,
         NEW t, NEW l \in Nat, NEW f, Matrix(f, t, l, b, n),
         NEW u, NEW m \in Nat, NEW g, Matrix(g, u, m, b, n),
         NEW p \in Nat, NEW q \in Nat, NEW k \in Nat, p + k = l, q + k = m,
         Alike(t, p, u, q, k), WithinOne(f[p], g[q], n)
  PROVE  WithinOne(f[l], g[m], n)
<1> DEFINE P == {i \in 0..k : WithinOne(f[p + i], g[q + i], n)}
<1>1. 0 \in P
  <2>1. p + 0 = p /\ q + 0 = q
    OBVIOUS
  <2> QED
    BY <2>1
<1>2. ASSUME NEW i \in 0..k, i \in P, i < k PROVE i + 1 \in P
  <2>1. PICK j \in 1..k : j = i + 1
    BY <1>2
  <2>2. PICK x \in 1..l : x = p + j
    OBVIOUS
  <2>3. PICK y \in 1..m : y = q + j
    OBVIOUS
  <2>4. p + i = x - 1 /\ q + i = y - 1
    BY <2>1, <2>2, <2>3
  <2>5. WithinOne(f[x - 1], g[y - 1], n)
    BY <1>2, <2>4
  <2>6. t[x] = u[y]
    BY <2>2, <2>3 DEF Alike
  <2>7. f[x - 1] \in Row(n) /\ f[x] \in Row(n) /\ Follows(f[x], f[x - 1], t[x], b, n)
    BY MatrixRows
  <2>8. g[y - 1] \in Row(n) /\ g[y] \in Row(n) /\ Follows(g[y], g[y - 1], t[x], b, n)
    BY <2>6, MatrixRows
  <2>9. WithinOne(f[x], g[y], n)
    BY <2>5, <2>7, <2>8, SameBelow
  <2> QED
    BY <2>1, <2>2, <2>3, <2>9
<1> HIDE DEF P
<1>3. 0..k \subseteq P
  BY <1>1, <1>2, Reaches
<1>4. k \in P
  BY <1>3
<1> QED
  BY <1>4 DEF P

-----------------------------------------------------------------------------
\* A text u made of t by leaving out, replacing or adding one character at i.
Deleted(t, u, l, i) == /\ \A k \in 1..(i - 1) : u[k] = t[k]
                       /\ \A k \in i..(l - 1) : u[k] = t[k + 1]
Replaced(t, u, l, i) == \A k \in 1..l : k # i => u[k] = t[k]
Inserted(t, u, l, i) == /\ \A k \in 1..i : u[k] = t[k]
                        /\ \A k \in (i + 1)..l : u[k + 1] = t[k]

\* A character deleted from t moves the last row by at most one.
LEMMA DeletedIsClose ==
  ASSUME NEW b, NEW n \in Nat, Len(b) = n,
         NEW t, NEW l \in Nat, NEW f, Matrix(f, t, l, b, n), NEW i \in 1..l,
         NEW u, NEW m \in Nat, m = l - 1, NEW g, Matrix(g, u, m, b, n), Deleted(t, u, l, i)
  PROVE  WithinOne(f[l], g[m], n)
<1>0. PICK h \in Nat : h = i - 1
  OBVIOUS
<1>1. PICK k \in Nat : k = l - i
  OBVIOUS
<1>2. f[h] = g[h]
  <2>1. Alike(t, 0, u, 0, h)
    BY <1>0 DEF Deleted, Alike
  <2>2. h <= l /\ h <= m
    BY <1>0
  <2> QED
    BY <2>1, <2>2, SameHead
<1>3. f[h] \in Row(n) /\ f[i] \in Row(n) /\ Follows(f[i], f[h], t[i], b, n)
  BY <1>0, MatrixRows
<1>4. WithinOne(f[i], g[h], n)
  BY <1>2, <1>3, OneMore
<1>5. Alike(t, i, u, h, k)
  <2>1. ASSUME NEW j \in 1..k PROVE t[i + j] = u[h + j]
    <3>1. h + j \in i..(l - 1) /\ (h + j) + 1 = i + j
      BY <1>0, <1>1
    <3> QED
      BY <3>1 DEF Deleted
  <2> QED
    BY <2>1 DEF Alike
<1>6. i \in Nat /\ i + k = l /\ h + k = m
  BY <1>0, <1>1
<1> QED
  BY <1>4, <1>5, <1>6, SameTail

\* A character of t replaced moves the last row by at most one.
LEMMA ReplacedIsClose ==
  ASSUME NEW b, NEW n \in Nat, Len(b) = n,
         NEW t, NEW l \in Nat, NEW f, Matrix(f, t, l, b, n), NEW i \in 1..l,
         NEW u, NEW g, Matrix(g, u, l, b, n), Replaced(t, u, l, i)
  PROVE  WithinOne(f[l], g[l], n)
<1>0. PICK h \in Nat : h = i - 1
  OBVIOUS
<1>1. PICK k \in Nat : k = l - i
  OBVIOUS
<1>2. f[h] = g[h]
  <2>1. Alike(t, 0, u, 0, h)
    BY <1>0 DEF Replaced, Alike
  <2>2. h <= l
    BY <1>0
  <2> QED
    BY <2>1, <2>2, SameHead
<1>3. f[h] \in Row(n) /\ f[i] \in Row(n) /\ Follows(f[i], f[h], t[i], b, n)
  BY <1>0, MatrixRows
<1>4. g[i] \in Row(n) /\ Follows(g[i], f[h], u[i], b, n)
  <2>1. g[i] \in Row(n) /\ Follows(g[i], g[h], u[i], b, n)
    BY <1>0, MatrixRows
  <2> QED
    BY <1>2, <2>1
<1>5. WithinOne(f[i], g[i], n)
  BY <1>3, <1>4, OtherBelow
<1>6. Alike(t, i, u, i, k)
  BY <1>1 DEF Replaced, Alike
<1>7. i \in Nat /\ i + k = l
  BY <1>1
<1> QED
  BY <1>5, <1>6, <1>7, SameTail

\* A character inserted into t moves the last row by at most one.
LEMMA InsertedIsClose ==
  ASSUME NEW b, NEW n \in Nat, Len(b) = n,
         NEW t, NEW l \in Nat, NEW f, Matrix(f, t, l, b, n), NEW i \in 0..l,
         NEW u, NEW m \in Nat, m = l + 1, NEW g, Matrix(g, u, m, b, n), Inserted(t, u, l, i)
  PROVE  WithinOne(f[l], g[m], n)
<1>0. PICK h \in Nat : h = i + 1
  OBVIOUS
<1>1. PICK k \in Nat : k = l - i
  OBVIOUS
<1>2. f[i] = g[i]
  <2>1. Alike(t, 0, u, 0, i)
    BY DEF Inserted, Alike
  <2>2. i \in Nat /\ i <= l /\ i <= m
    OBVIOUS
  <2> QED
    BY <2>1, <2>2, SameHead
<1>3. f[i] \in Row(n) /\ Gentle(f[i], n)
  BY MatrixIsGentle
<1>4. g[h] \in Row(n) /\ Follows(g[h], f[i], u[h], b, n)
  <2>1. h \in 1..m /\ h - 1 = i
    BY <1>0
  <2>2. g[h] \in Row(n) /\ Follows(g[h], g[h - 1], u[h], b, n)
    BY <2>1, MatrixRows
  <2> QED
    BY <1>2, <2>1, <2>2
<1>5. WithinOne(f[i], g[h], n)
  BY <1>3, <1>4, OneLess
<1>6. Alike(t, i, u, h, k)
  <2>1. ASSUME NEW j \in 1..k PROVE t[i + j] = u[h + j]
    <3>1. i + j \in (i + 1)..l /\ (i + j) + 1 = h + j
      BY <1>0, <1>1
    <3> QED
      BY <3>1 DEF Inserted
  <2> QED
    BY <2>1 DEF Alike
<1>7. i \in Nat /\ i + k = l /\ h + k = m
  BY <1>0, <1>1
<1> QED
  BY <1>5, <1>6, <1>7, SameTail

-----------------------------------------------------------------------------
(***************************************************************************)
(* Edits of texts, as the property defines them, are those deletions,      *)
(* replacements and insertions; so no fewer edits than the matrix says     *)
(* reach b.                                                                *)
(***************************************************************************)

\* The texts of l characters.
Texts(l) == {t \in Seq(Characters) : Len(t) = l}

\* What a text of l characters is.
LEMMA TextIs ==
  ASSUME NEW l \in Nat, NEW t \in Texts(l)
  PROVE  t \in Seq(Characters) /\ Len(t) = l /\ \A i \in 1..l : t[i] \in Characters
<1>1. t \in Seq(Characters) /\ Len(t) = l
  BY DEF Texts
<1>2. \A i \in 1..Len(t) : t[i] \in Characters
  BY <1>1, ElementOfSeq
<1> QED
  BY <1>1, <1>2

\* Two texts of one length with the same characters are the same text.
LEMMA TextsEqual ==
  ASSUME NEW l \in Nat, NEW t \in Texts(l), NEW u \in Texts(l), \A i \in 1..l : t[i] = u[i]
  PROVE  t = u
<1>1. t \in Seq(Characters) /\ u \in Seq(Characters) /\ Len(t) = l /\ Len(u) = l
  BY DEF Texts
<1> QED
  BY <1>1, SeqEqual

\* The k characters of t that follow the first o.
IsPart(p, t, o, k) == p \in Texts(k) /\ \A j \in 1..k : p[j] = t[o + j]

\* SubSeq takes the k characters of t after the first o.
LEMMA PartIs ==
  ASSUME NEW l \in Nat, NEW t \in Texts(l),
         NEW o \in Nat, NEW k \in Nat, o + k <= l,
         NEW x \in Nat, x = o + 1, NEW y \in Nat, y = o + k
  PROVE  IsPart(SubSeq(t, x, y), t, o, k)
<1>1. \A j \in x..y : t[j] \in Characters
  BY TextIs
<1>2. x \in Int /\ y \in Int
  OBVIOUS
<1>3. PICK p : p = SubSeq(t, x, y)
  OBVIOUS
<1>4. /\ p \in Seq(Characters) /\ Len(p) = IF x <= y THEN y - x + 1 ELSE 0
      /\ \A j \in 1..y - x + 1 : p[j] = t[x + j - 1]
  BY <1>1, <1>2, <1>3, SubSeqProperties
<1>5. Len(p) = k
  BY <1>4
<1>6. ASSUME NEW j \in 1..k PROVE p[j] = t[o + j]
  <2>1. j \in 1..y - x + 1 /\ x + j - 1 = o + j
    OBVIOUS
  <2> QED
    BY <1>4, <2>1
<1> QED
  BY <1>3, <1>4, <1>5, <1>6 DEF IsPart, Texts

\* w is p, of k characters, and after it q, of m.
IsJoin(w, p, k, q, m) ==
    (\A j \in 1..k : w[j] = p[j]) /\ \A j \in 1..m : w[k + j] = q[j]

\* Concatenation puts one text after the other.
LEMMA JoinedAre ==
  ASSUME NEW k \in Nat, NEW p \in Texts(k), NEW m \in Nat, NEW q \in Texts(m),
         NEW l \in Nat, l = k + m
  PROVE  p \o q \in Texts(l) /\ IsJoin(p \o q, p, k, q, m)
<1>1. p \in Seq(Characters) /\ q \in Seq(Characters) /\ Len(p) = k /\ Len(q) = m
  BY DEF Texts
<1>2. PICK w : w = p \o q
  OBVIOUS
<1>3. /\ w \in Seq(Characters) /\ Len(w) = Len(p) + Len(q)
      /\ \A j \in 1..Len(p) + Len(q) : w[j] = IF j <= Len(p) THEN p[j] ELSE q[j - Len(p)]
  BY <1>1, <1>2, ConcatProperties
<1>4. \A j \in 1..k : w[j] = p[j]
  BY <1>1, <1>3
<1>5. ASSUME NEW j \in 1..m PROVE w[k + j] = q[j]
  <2>1. k + j \in 1..Len(p) + Len(q) /\ ~(k + j <= Len(p)) /\ (k + j) - Len(p) = j
    BY <1>1
  <2> QED
    BY <1>3, <2>1
<1>6. w \in Texts(l)
  BY <1>1, <1>3 DEF Texts
<1> QED
  BY <1>2, <1>4, <1>5, <1>6 DEF IsJoin

-----------------------------------------------------------------------------
\* The three edits of a text of l characters, as Edits writes them.
Shortened(t, l, i) == SubSeq(t, 1, i - 1) \o SubSeq(t, i + 1, l)
Changed(t, i, c) == [t EXCEPT ![i] = c]
Lengthened(t, l, i, c) == SubSeq(t, 1, i) \o <<c>> \o SubSeq(t, i + 1, l)

\* The text without its place i is the text with that character deleted.
LEMMA ShortenedIs ==
  ASSUME NEW l \in Nat, NEW t \in Texts(l), NEW i \in 1..l, NEW m \in Nat, m = l - 1
  PROVE  Shortened(t, l, i) \in Texts(m) /\ Deleted(t, Shortened(t, l, i), l, i)
<1>1. PICK h \in Nat : h = i - 1
  OBVIOUS
<1>2. PICK r \in Nat : r = l - i
  OBVIOUS
<1>3. PICK x \in Nat : x = i + 1
  OBVIOUS
<1>4. PICK p : p = SubSeq(t, 1, h)
  OBVIOUS
<1>5. PICK q : q = SubSeq(t, x, l)
  OBVIOUS
<1>6. p \in Texts(h) /\ \A j \in 1..h : p[j] = t[j]
  <2>1. 0 \in Nat /\ 1 \in Nat /\ 0 + h <= l /\ 1 = 0 + 1 /\ h = 0 + h
    BY <1>1
  <2>2. IsPart(p, t, 0, h)
    BY <1>4, <2>1, PartIs
  <2> QED
    BY <2>2 DEF IsPart
<1>7. q \in Texts(r) /\ \A j \in 1..r : q[j] = t[i + j]
  <2>1. i \in Nat /\ i + r <= l /\ l = i + r
    BY <1>2
  <2>2. IsPart(q, t, i, r)
    BY <1>3, <1>5, <2>1, PartIs
  <2> QED
    BY <2>2 DEF IsPart
<1>8. PICK u : u = p \o q
  OBVIOUS
<1>9. /\ u \in Texts(m)
      /\ \A j \in 1..h : u[j] = p[j]
      /\ \A j \in 1..r : u[h + j] = q[j]
  <2>1. m = h + r
    BY <1>1, <1>2
  <2>2. u \in Texts(m) /\ IsJoin(u, p, h, q, r)
    BY <1>6, <1>7, <1>8, <2>1, JoinedAre
  <2> QED
    BY <2>2 DEF IsJoin
<1>10. ASSUME NEW k \in 1..(i - 1) PROVE u[k] = t[k]
  <2>1. k \in 1..h
    BY <1>1
  <2> QED
    BY <1>6, <1>9, <2>1
<1>11. ASSUME NEW k \in i..(l - 1) PROVE u[k] = t[k + 1]
  <2>1. PICK j \in 1..r : j = k - h
    BY <1>1, <1>2
  <2>2. u[h + j] = t[i + j]
    BY <1>7, <1>9
  <2>3. h + j = k /\ i + j = k + 1
    BY <1>1, <2>1
  <2> QED
    BY <2>2, <2>3
<1>12. u = Shortened(t, l, i)
  BY <1>1, <1>3, <1>4, <1>5, <1>8 DEF Shortened
<1>13. Deleted(t, u, l, i)
  BY <1>10, <1>11 DEF Deleted
<1> QED
  BY <1>9, <1>12, <1>13

\* The text with c at its place i is the text with that character replaced.
LEMMA ChangedIs ==
  ASSUME NEW l \in Nat, NEW t \in Texts(l), NEW i \in 1..l, NEW c \in Characters
  PROVE  /\ Changed(t, i, c) \in Texts(l) /\ Changed(t, i, c)[i] = c
         /\ Replaced(t, Changed(t, i, c), l, i)
<1>1. PICK u : u = [t EXCEPT ![i] = c]
  OBVIOUS
<1>2. t \in Seq(Characters) /\ Len(t) = l
  BY TextIs
<1>3. u \in Seq(Characters) /\ Len(u) = l
  BY <1>1, <1>2
<1>4. u[i] = c /\ \A k \in 1..l : k # i => u[k] = t[k]
  BY <1>1, <1>2
<1>5. u = Changed(t, i, c)
  BY <1>1 DEF Changed
<1>6. u \in Texts(l) /\ Replaced(t, u, l, i)
  BY <1>3, <1>4 DEF Texts, Replaced
<1> QED
  BY <1>4, <1>5, <1>6

\* The text with c after its place i is the text with a character inserted.
LEMMA LengthenedIs ==
  ASSUME NEW l \in Nat, NEW t \in Texts(l), NEW i \in 0..l, NEW c \in Characters,
         NEW m \in Nat, m = l + 1
  PROVE  /\ Lengthened(t, l, i, c) \in Texts(m) /\ Lengthened(t, l, i, c)[i + 1] = c
         /\ Inserted(t, Lengthened(t, l, i, c), l, i)
<1>1. PICK r \in Nat : r = l - i
  OBVIOUS
<1>2. PICK x \in Nat : x = i + 1
  OBVIOUS
<1>3. PICK p : p = SubSeq(t, 1, i)
  OBVIOUS
<1>4. PICK q : q = SubSeq(t, x, l)
  OBVIOUS
<1>5. PICK o : o = <<c>>
  OBVIOUS
<1>6. p \in Texts(i) /\ \A j \in 1..i : p[j] = t[j]
  <2>1. i \in Nat /\ 0 \in Nat /\ 1 \in Nat /\ 0 + i <= l /\ 1 = 0 + 1 /\ i = 0 + i
    OBVIOUS
  <2>2. IsPart(p, t, 0, i)
    BY <1>3, <2>1, PartIs
  <2> QED
    BY <2>2 DEF IsPart
<1>7. q \in Texts(r) /\ \A j \in 1..r : q[j] = t[i + j]
  <2>1. i \in Nat /\ i + r <= l /\ l = i + r
    BY <1>1
  <2>2. IsPart(q, t, i, r)
    BY <1>2, <1>4, <2>1, PartIs
  <2> QED
    BY <2>2 DEF IsPart
<1>8. o \in Texts(1) /\ o[1] = c
  BY <1>5 DEF Texts
<1>9. PICK w : w = p \o o
  OBVIOUS
<1>10. w \in Texts(x) /\ (\A j \in 1..i : w[j] = p[j]) /\ w[x] = c
  <2>1. i \in Nat /\ 1 \in Nat /\ x = i + 1
    BY <1>2
  <2>2. w \in Texts(x) /\ IsJoin(w, p, i, o, 1)
    BY <1>6, <1>8, <1>9, <2>1, JoinedAre
  <2>3. w[i + 1] = o[1]
    BY <2>2 DEF IsJoin
  <2> QED
    BY <1>8, <2>1, <2>2, <2>3 DEF IsJoin
<1>11. PICK u : u = w \o q
  OBVIOUS
<1>12. /\ u \in Texts(m)
       /\ \A j \in 1..x : u[j] = w[j]
       /\ \A j \in 1..r : u[x + j] = q[j]
  <2>1. m = x + r
    BY <1>1, <1>2
  <2>2. u \in Texts(m) /\ IsJoin(u, w, x, q, r)
    BY <1>7, <1>10, <1>11, <2>1, JoinedAre
  <2> QED
    BY <2>2 DEF IsJoin
<1>13. ASSUME NEW k \in 1..i PROVE u[k] = t[k]
  <2>1. k \in 1..x
    BY <1>2
  <2> QED
    BY <1>6, <1>10, <1>12, <2>1
<1>14. ASSUME NEW k \in (i + 1)..l PROVE u[k + 1] = t[k]
  <2>1. PICK j \in 1..r : j = k - i
    BY <1>1
  <2>2. u[x + j] = t[i + j]
    BY <1>7, <1>12
  <2>3. x + j = k + 1 /\ i + j = k
    BY <1>2, <2>1
  <2> QED
    BY <2>2, <2>3
<1>15. u[i + 1] = c
  <2>1. x \in 1..x /\ x = i + 1
    BY <1>2
  <2> QED
    BY <1>10, <1>12, <2>1
<1>16. u = Lengthened(t, l, i, c)
  BY <1>2, <1>3, <1>4, <1>5, <1>9, <1>11 DEF Lengthened
<1>17. Inserted(t, u, l, i)
  BY <1>13, <1>14 DEF Inserted
<1> QED
  BY <1>12, <1>15, <1>16, <1>17

\* Edits, in the words of this proof.
LEMMA EditsAre ==
  ASSUME NEW l \in Nat, NEW t \in Texts(l), NEW C
  PROVE  Edits(t, C) = {Shortened(t, l, i) : i \in 1..l} \union
                       {Changed(t, i, c) : i \in 1..l, c \in C} \union
                       {Lengthened(t, l, i, c) : i \in 0..l, c \in C}
<1>1. Len(t) = l
  BY TextIs
<1> QED
  BY <1>1 DEF Edits, Shortened, Changed, Lengthened

-----------------------------------------------------------------------------
\* What an edit does, place by place.
LEMMA EditKinds ==
  ASSUME NEW l \in Nat, NEW t \in Texts(l), NEW C \in SUBSET Characters, NEW u \in Edits(t, C)
  PROVE  \/ \E i \in 1..l : u \in Texts(l - 1) /\ Deleted(t, u, l, i)
         \/ \E i \in 1..l : u \in Texts(l) /\ Replaced(t, u, l, i)
         \/ \E i \in 0..l : u \in Texts(l + 1) /\ Inserted(t, u, l, i)
<1>1. ASSUME NEW i \in 1..l, u = Shortened(t, l, i)
      PROVE  u \in Texts(l - 1) /\ Deleted(t, u, l, i)
  <2>1. PICK m \in Nat : m = l - 1
    OBVIOUS
  <2> QED
    BY <1>1, <2>1, ShortenedIs
<1>2. ASSUME NEW i \in 1..l, NEW c \in C, u = Changed(t, i, c)
      PROVE  u \in Texts(l) /\ Replaced(t, u, l, i)
  <2>1. c \in Characters
    OBVIOUS
  <2> QED
    BY <1>2, <2>1, ChangedIs
<1>3. ASSUME NEW i \in 0..l, NEW c \in C, u = Lengthened(t, l, i, c)
      PROVE  u \in Texts(l + 1) /\ Inserted(t, u, l, i)
  <2>1. PICK m \in Nat : m = l + 1
    OBVIOUS
  <2>2. c \in Characters
    OBVIOUS
  <2> QED
    BY <1>3, <2>1, <2>2, LengthenedIs
<1>4. \/ \E i \in 1..l : u = Shortened(t, l, i)
      \/ \E i \in 1..l, c \in C : u = Changed(t, i, c)
      \/ \E i \in 0..l, c \in C : u = Lengthened(t, l, i, c)
  BY EditsAre
<1> QED
  BY <1>1, <1>2, <1>3, <1>4

\* And every such change is an edit.
LEMMA DeletedIsEdit ==
  ASSUME NEW l \in Nat, NEW t \in Texts(l), NEW C, NEW i \in 1..l,
         NEW m \in Nat, m = l - 1, NEW u \in Texts(m), Deleted(t, u, l, i)
  PROVE  u \in Edits(t, C)
<1>1. PICK w : w = Shortened(t, l, i)
  OBVIOUS
<1>2. w \in Texts(m) /\ Deleted(t, w, l, i)
  BY <1>1, ShortenedIs
<1>3. ASSUME NEW k \in 1..m PROVE u[k] = w[k]
  <2>1. k \in 1..(i - 1) \/ k \in i..(l - 1)
    OBVIOUS
  <2> QED
    BY <1>2, <2>1 DEF Deleted
<1>4. u = w
  BY <1>2, <1>3, TextsEqual
<1> QED
  BY <1>1, <1>4, EditsAre

\* Every replacement by a character of C is an edit.
LEMMA ReplacedIsEdit ==
  ASSUME NEW l \in Nat, NEW t \in Texts(l), NEW C \in SUBSET Characters, NEW i \in 1..l,
         NEW u \in Texts(l), Replaced(t, u, l, i), u[i] \in C
  PROVE  u \in Edits(t, C)
<1>1. PICK c \in Characters : c = u[i]
  OBVIOUS
<1>2. PICK w : w = Changed(t, i, c)
  OBVIOUS
<1>3. w \in Texts(l) /\ w[i] = c /\ Replaced(t, w, l, i)
  BY <1>2, ChangedIs
<1>4. ASSUME NEW k \in 1..l PROVE u[k] = w[k]
  BY <1>1, <1>3 DEF Replaced
<1>5. u = w
  BY <1>3, <1>4, TextsEqual
<1> QED
  BY <1>1, <1>2, <1>5, EditsAre

\* Every insertion of a character of C is an edit.
LEMMA InsertedIsEdit ==
  ASSUME NEW l \in Nat, NEW t \in Texts(l), NEW C \in SUBSET Characters, NEW i \in 0..l,
         NEW m \in Nat, m = l + 1, NEW u \in Texts(m), Inserted(t, u, l, i), u[m - l + i] \in C
  PROVE  u \in Edits(t, C)
<1>0. PICK x \in 1..m : x = i + 1
  OBVIOUS
<1>1. PICK c \in Characters : c = u[x] /\ c \in C
  <2>1. m - l + i = x
    BY <1>0
  <2> QED
    BY <2>1
<1>2. PICK w : w = Lengthened(t, l, i, c)
  OBVIOUS
<1>3. w \in Texts(m) /\ w[i + 1] = c /\ Inserted(t, w, l, i)
  BY <1>2, LengthenedIs
<1>4. ASSUME NEW k \in 1..m PROVE u[k] = w[k]
  <2>1. CASE k \in 1..i
    BY <1>3, <2>1 DEF Inserted
  <2>2. CASE k = x
    BY <1>0, <1>1, <1>3, <2>2
  <2>3. CASE k \in (x + 1)..m
    <3>1. PICK j \in (i + 1)..l : j = k - 1
      BY <1>0, <2>3
    <3>2. u[j + 1] = t[j] /\ w[j + 1] = t[j]
      BY <1>3 DEF Inserted
    <3>3. j + 1 = k
      BY <3>1
    <3> QED
      BY <3>2, <3>3
  <2> QED
    BY <1>0, <2>1, <2>2, <2>3
<1>5. u = w
  BY <1>3, <1>4, TextsEqual
<1> QED
  BY <1>1, <1>2, <1>5, EditsAre

\* One edit changes the distance by at most one, and the length too.
LEMMA EditIsClose ==
  ASSUME NEW b, NEW n \in Nat, Len(b) = n, NEW C \in SUBSET Characters,
         NEW l \in Nat, NEW t \in Texts(l), NEW f, Matrix(f, t, l, b, n),
         NEW m \in Nat, NEW u \in Texts(m), NEW g, Matrix(g, u, m, b, n),
         u \in Edits(t, C)
  PROVE  f[l][n + 1] <= g[m][n + 1] + 1 /\ m <= l + 1 /\ l <= m + 1
<1>0. \A k \in Nat : u \in Texts(k) => k = m
  BY TextIs
<1>1. \/ m = l - 1 /\ \E i \in 1..l : Deleted(t, u, l, i)
      \/ m = l /\ \E i \in 1..l : Replaced(t, u, l, i)
      \/ m = l + 1 /\ \E i \in 0..l : Inserted(t, u, l, i)
  <2>1. l + 1 \in Nat /\ (\A i \in 1..l : l - 1 \in Nat)
    OBVIOUS
  <2> QED
    BY <1>0, <2>1, EditKinds
<1>2. WithinOne(f[l], g[m], n)
  <2>1. ASSUME m = l - 1, NEW i \in 1..l, Deleted(t, u, l, i) PROVE WithinOne(f[l], g[m], n)
    BY <2>1, DeletedIsClose
  <2>2. ASSUME m = l, NEW i \in 1..l, Replaced(t, u, l, i) PROVE WithinOne(f[l], g[m], n)
    BY <2>2, ReplacedIsClose
  <2>3. ASSUME m = l + 1, NEW i \in 0..l, Inserted(t, u, l, i) PROVE WithinOne(f[l], g[m], n)
    BY <2>3, InsertedIsClose
  <2> QED
    BY <1>1, <2>1, <2>2, <2>3
<1> QED
  BY <1>1, <1>2 DEF WithinOne

\* The texts within k edits of a, for each k.
IsWithin(w, a, C, max) ==
    w = [k \in 0..max |->
            IF k = 0 THEN {a} ELSE w[k - 1] \union UNION {Edits(t, C) : t \in w[k - 1]}]

\* One edit more.
Wider(T, C) == T \union UNION {Edits(t, C) : t \in T}

\* An edit of a text is a text.
LEMMA EditsAreTexts ==
  ASSUME NEW C \in SUBSET Characters, NEW t \in Seq(Characters), NEW u \in Edits(t, C)
  PROVE  u \in Seq(Characters)
<1>1. PICK l \in Nat : l = Len(t)
  BY LenProperties
<1>2. t \in Texts(l)
  BY <1>1 DEF Texts
<1>3. \E m \in Nat : u \in Texts(m)
  <2>1. l + 1 \in Nat /\ \A i \in 1..l : l - 1 \in Nat
    OBVIOUS
  <2> QED
    BY <1>2, <2>1, EditKinds
<1> QED
  BY <1>3 DEF Texts

\* The texts within 0, 1, ... max edits of a exist as a function.
LEMMA WithinExists ==
  ASSUME NEW C \in SUBSET Characters, NEW a \in Seq(Characters), NEW max \in Nat
  PROVE  \E w : IsWithin(w, a, C, max)
<1> DEFINE S == SUBSET Seq(Characters)
           step == [x \in (1..max) \X S |-> Wider(x[2], C)]
<1>1. ASSUME NEW T \in S PROVE Wider(T, C) \in S
  BY EditsAreTexts DEF Wider
<1>2. step \in [(1..max) \X S -> S]
  BY <1>1
<1>3. {a} \in S
  OBVIOUS
<1>4. \A k \in 1..max, T \in S : step[<<k, T>>] = Wider(T, C)
  OBVIOUS
<1> HIDE DEF step, S
<1>5. PICK w \in [0..max -> S] : Iterated(w, {a}, max, step)
  BY <1>2, <1>3, Iterates
<1>6. ASSUME NEW k \in 1..max PROVE w[k] = Wider(w[k - 1], C)
  <2>1. w[k] = step[<<k, w[k - 1]>>] /\ w[k - 1] \in S
    BY <1>5 DEF Iterated
  <2> QED
    BY <1>4, <2>1
<1>7. ASSUME NEW k \in 0..max
      PROVE  w[k] = IF k = 0 THEN {a} ELSE w[k - 1] \union UNION {Edits(t, C) : t \in w[k - 1]}
  <2>1. CASE k = 0
    BY <1>5, <2>1 DEF Iterated
  <2>2. CASE k # 0
    <3>1. k \in 1..max
      BY <2>2
    <3>2. w[k] = Wider(w[k - 1], C)
      BY <1>6, <3>1
    <3> QED
      BY <2>2, <3>2 DEF Wider
  <2> QED
    BY <2>1, <2>2
<1>8. w = [k \in 0..max |-> w[k]]
  BY <1>5
<1>9. IsWithin(w, a, C, max)
  BY <1>7, <1>8 DEF IsWithin
<1> QED
  BY <1>9

\* What a step of w adds.
Widens(w, a, C, max) ==
    w[0] = {a} /\ \A i, k \in 0..max : k = i + 1 => w[k] = Wider(w[i], C)

\* What is within k edits: a alone for 0, and one edit more at each step.
LEMMA WithinIs ==
  ASSUME NEW C, NEW a, NEW max \in Nat, NEW w, IsWithin(w, a, C, max)
  PROVE  Widens(w, a, C, max)
<1>1. w[0] = {a}
  BY DEF IsWithin
<1>2. ASSUME NEW i \in 0..max, NEW k \in 0..max, k = i + 1 PROVE w[k] = Wider(w[i], C)
  <2>1. k # 0 /\ k - 1 = i
    BY <1>2
  <2>2. w[k] = w[i] \union UNION {Edits(t, C) : t \in w[i]}
    BY <2>1 DEF IsWithin
  <2> QED
    BY <2>2 DEF Wider
<1> QED
  BY <1>1, <1>2 DEF Widens

\* All that is within k edits of a text is text.
LEMMA WithinAreTexts ==
  ASSUME NEW C \in SUBSET Characters, NEW a \in Seq(Characters), NEW max \in Nat,
         NEW w, IsWithin(w, a, C, max), NEW k \in 0..max
  PROVE  w[k] \subseteq Seq(Characters)
<1>0. Widens(w, a, C, max)
  BY WithinIs
<1> DEFINE P == {i \in 0..max : w[i] \subseteq Seq(Characters)}
<1>1. 0 \in P
  BY <1>0 DEF Widens
<1>2. ASSUME NEW i \in 0..max, i \in P, i < max PROVE i + 1 \in P
  <2>1. PICK j \in 0..max : j = i + 1
    BY <1>2
  <2>2. w[j] = Wider(w[i], C)
    BY <1>0, <2>1 DEF Widens
  <2>3. w[j] \subseteq Seq(Characters)
    BY <1>2, <2>2, EditsAreTexts DEF Wider
  <2> QED
    BY <2>1, <2>3
<1> HIDE DEF P
<1>3. 0..max \subseteq P
  BY <1>1, <1>2, Reaches
<1> QED
  BY <1>3 DEF P

\* The last entry of a matrix is a number.
LEMMA DistanceIsNat ==
  ASSUME NEW b, NEW n \in Nat, NEW l \in Nat, NEW t, NEW f, Matrix(f, t, l, b, n)
  PROVE  f[l][n + 1] \in Nat
<1>1. f[l] \in Row(n)
  BY DEF Matrix
<1> QED
  BY <1>1 DEF Row

\* The distance to b falls by at most one an edit, and the length changes by
\* at most one.
LEMMA WithinIsClose ==
  ASSUME NEW b, NEW n \in Nat, Len(b) = n, NEW C \in SUBSET Characters,
         NEW l \in Nat, NEW a \in Texts(l), NEW f, Matrix(f, a, l, b, n),
         NEW max \in Nat, NEW w, IsWithin(w, a, C, max), NEW k \in 0..max,
         NEW m \in Nat, NEW t \in Texts(m), t \in w[k], NEW g, Matrix(g, t, m, b, n)
  PROVE  f[l][n + 1] <= g[m][n + 1] + k /\ m <= l + k /\ l <= m + k
<1>w. Widens(w, a, C, max)
  BY WithinIs
<1> DEFINE Close(i) ==
             \A s, h : \A o \in Nat :
                s \in Texts(o) /\ s \in w[i] /\ Matrix(h, s, o, b, n) =>
                    f[l][n + 1] <= h[o][n + 1] + i /\ o <= l + i /\ l <= o + i
           P == {i \in 0..max : Close(i)}
<1>0. ASSUME NEW s, NEW h, NEW o \in Nat, Matrix(h, s, o, b, n)
      PROVE  h[o][n + 1] \in Nat
  BY <1>0, DistanceIsNat
<1>00. f[l][n + 1] \in Nat
  BY DistanceIsNat
<1>1. 0 \in P
  <2> SUFFICES ASSUME NEW s, NEW h, NEW o \in Nat,
                      s \in Texts(o), s \in w[0], Matrix(h, s, o, b, n)
               PROVE  f[l][n + 1] <= h[o][n + 1] + 0 /\ o <= l + 0 /\ l <= o + 0
    OBVIOUS
  <2>1. s = a
    BY <1>w DEF Widens
  <2>2. o = l
    BY <2>1, TextIs
  <2>3. f[l] = h[l]
    <3>1. Alike(a, 0, s, 0, l)
      BY <2>1 DEF Alike
    <3>2. l <= l /\ l <= o
      BY <2>2
    <3> QED
      BY <3>1, <3>2, SameHead
  <2> QED
    BY <1>00, <2>2, <2>3
<1>2. ASSUME NEW i \in 0..max, i \in P, i < max PROVE i + 1 \in P
  <2> SUFFICES ASSUME NEW s, NEW h, NEW o \in Nat,
                      s \in Texts(o), s \in w[i + 1], Matrix(h, s, o, b, n)
               PROVE  /\ f[l][n + 1] <= h[o][n + 1] + (i + 1)
                      /\ o <= l + (i + 1) /\ l <= o + (i + 1)
    BY <1>2
  <2>1. Close(i)
    BY <1>2
  <2>2. PICK j \in 0..max : j = i + 1
    BY <1>2
  <2>3. s \in Wider(w[i], C)
    BY <1>w, <2>2 DEF Widens
  <2>4. h[o][n + 1] \in Nat
    BY <1>0
  <2>5. CASE s \in w[i]
    <3>1. f[l][n + 1] <= h[o][n + 1] + i /\ o <= l + i /\ l <= o + i
      BY <2>1, <2>5
    <3> QED
      BY <1>00, <2>4, <3>1
  <2>6. ASSUME NEW u \in w[i], s \in Edits(u, C)
        PROVE  /\ f[l][n + 1] <= h[o][n + 1] + (i + 1)
               /\ o <= l + (i + 1) /\ l <= o + (i + 1)
    <3>1. u \in Seq(Characters)
      <4>1. a \in Seq(Characters)
        BY TextIs
      <4> QED
        BY <2>6, <4>1, WithinAreTexts
    <3>2. PICK q \in Nat : q = Len(u)
      BY <3>1, LenProperties
    <3>3. u \in Texts(q)
      BY <3>1, <3>2 DEF Texts
    <3>4. PICK e : Matrix(e, u, q, b, n)
      BY MatrixExists
    <3>5. f[l][n + 1] <= e[q][n + 1] + i /\ q <= l + i /\ l <= q + i
      BY <2>1, <2>6, <3>3, <3>4
    <3>6. e[q][n + 1] <= h[o][n + 1] + 1 /\ o <= q + 1 /\ q <= o + 1
      BY <2>6, <3>3, <3>4, EditIsClose
    <3>7. e[q][n + 1] \in Nat
      BY <1>0, <3>4
    <3>8. PICK x \in Nat : x = f[l][n + 1]
      BY <1>00
    <3>9. PICK y \in Nat : y = h[o][n + 1]
      BY <2>4
    <3>10. PICK z \in Nat : z = e[q][n + 1]
      BY <3>7
    <3>11. x <= z + i /\ z <= y + 1
      BY <3>5, <3>6, <3>8, <3>9, <3>10
    <3>12. x <= y + (i + 1) /\ o <= l + (i + 1) /\ l <= o + (i + 1)
      BY <3>5, <3>6, <3>11
    <3> QED
      BY <3>8, <3>9, <3>12
  <2> QED
    BY <2>3, <2>5, <2>6 DEF Wider
<1> HIDE DEF P
<1>3. 0..max \subseteq P
  BY <1>1, <1>2, Reaches
<1>4. Close(k)
  <2>1. k \in P
    BY <1>3
  <2> HIDE DEF Close
  <2> QED
    BY <2>1 DEF P
<1> QED
  BY <1>4

\* A text is no distance from itself.
LEMMA OwnDistance ==
  ASSUME NEW n \in Nat, NEW b, Len(b) = n, NEW g, Matrix(g, b, n, b, n)
  PROVE  g[n][n + 1] = 0
<1> DEFINE P == {i \in 0..n : g[i][i + 1] = 0}
<1>1. 0 \in P
  <2>1. g[0] = FirstRow(n)
    BY DEF Matrix
  <2>2. g[0][1] = 0
    BY <2>1 DEF FirstRow
  <2> QED
    BY <2>2
<1>2. ASSUME NEW i \in 0..n, i \in P, i < n PROVE i + 1 \in P
  <2>1. PICK j \in 1..n : j = i + 1 /\ j - 1 = i
    BY <1>2
  <2>2. g[i] \in Row(n) /\ g[j] \in Row(n) /\ Follows(g[j], g[i], b[j], b, n)
    BY <2>1, MatrixRows
  <2>3. /\ g[i][j] \in Nat /\ g[j][j + 1] \in Nat /\ Cost(b[j], b[j]) = 0
        /\ g[j][j + 1] <= g[i][j] + Cost(b[j], b[j])
    BY <2>2, EntryOf
  <2>4. g[i][j] = 0
    BY <1>2, <2>1
  <2>5. g[j][j + 1] = 0
    BY <2>3, <2>4
  <2> QED
    BY <2>1, <2>5
<1> HIDE DEF P
<1>3. 0..n \subseteq P
  BY <1>1, <1>2, Reaches
<1> QED
  BY <1>3 DEF P

\* So b is within k edits only where the last entry of the rows is at most k.
LEMMA EditsReachNoSooner ==
  ASSUME NEW n \in Nat, NEW b \in Texts(n), NEW C \in SUBSET Characters,
         NEW l \in Nat, NEW a \in Texts(l), NEW f, Matrix(f, a, l, b, n),
         NEW max \in Nat, NEW w, IsWithin(w, a, C, max), NEW k \in 0..max, b \in w[k]
  PROVE  f[l][n + 1] <= k /\ n <= l + k /\ l <= n + k
<1>1. Len(b) = n
  BY TextIs
<1>2. PICK g : Matrix(g, b, n, b, n)
  BY <1>1, MatrixExists
<1>3. g[n][n + 1] = 0
  BY <1>1, <1>2, OwnDistance
<1>4. f[l][n + 1] <= g[n][n + 1] + k /\ n <= l + k /\ l <= n + k
  BY <1>1, <1>2, WithinIsClose
<1> QED
  BY <1>3, <1>4

-----------------------------------------------------------------------------
(***************************************************************************)
(* That many edits do: the texts that begin like b and end like a.         *)
(***************************************************************************)

\* The first j characters of b, then what of a follows its first i.
Mixed(a, l, b, i, j) == SubSeq(b, 1, j) \o SubSeq(a, i + 1, l)

\* What the mixed text holds at each place.
IsMixed(w, a, l, b, i, j) ==
    /\ \A k \in 1..j : w[k] = b[k]
    /\ \A k \in (i + 1)..l : w[j + (k - i)] = a[k]

\* The mixed text has the first j characters of b and then those of a after i.
LEMMA MixedIs ==
  ASSUME NEW l \in Nat, NEW a \in Texts(l), NEW n \in Nat, NEW b \in Texts(n),
         NEW i \in 0..l, NEW j \in 0..n, NEW m \in Nat, m + i = l + j
  PROVE  Mixed(a, l, b, i, j) \in Texts(m) /\ IsMixed(Mixed(a, l, b, i, j), a, l, b, i, j)
<1>1. PICK r \in Nat : r = l - i
  OBVIOUS
<1>2. PICK x \in Nat : x = i + 1
  OBVIOUS
<1>3. PICK p : p = SubSeq(b, 1, j)
  OBVIOUS
<1>4. PICK q : q = SubSeq(a, x, l)
  OBVIOUS
<1>5. p \in Texts(j) /\ \A k \in 1..j : p[k] = b[k]
  <2>1. j \in Nat /\ 0 \in Nat /\ 1 \in Nat /\ 0 + j <= n /\ 1 = 0 + 1 /\ j = 0 + j
    OBVIOUS
  <2>2. IsPart(p, b, 0, j)
    BY <1>3, <2>1, PartIs
  <2> QED
    BY <2>2 DEF IsPart
<1>6. q \in Texts(r) /\ \A k \in 1..r : q[k] = a[i + k]
  <2>1. i \in Nat /\ i + r <= l /\ l = i + r
    BY <1>1
  <2>2. IsPart(q, a, i, r)
    BY <1>2, <1>4, <2>1, PartIs
  <2> QED
    BY <2>2 DEF IsPart
<1>7. PICK w : w = p \o q
  OBVIOUS
<1>8. w \in Texts(m) /\ (\A k \in 1..j : w[k] = p[k]) /\ \A k \in 1..r : w[j + k] = q[k]
  <2>1. m = j + r /\ j \in Nat
    BY <1>1
  <2>2. w \in Texts(m) /\ IsJoin(w, p, j, q, r)
    BY <1>5, <1>6, <1>7, <2>1, JoinedAre
  <2> QED
    BY <2>2 DEF IsJoin
<1>9. ASSUME NEW k \in (i + 1)..l PROVE w[j + (k - i)] = a[k]
  <2>1. PICK o \in 1..r : o = k - i
    BY <1>1
  <2>2. w[j + o] = a[i + o]
    BY <1>6, <1>8
  <2>3. i + o = k
    BY <2>1
  <2> QED
    BY <2>1, <2>2, <2>3
<1>10. w = Mixed(a, l, b, i, j)
  BY <1>2, <1>3, <1>4, <1>7 DEF Mixed
<1>11. IsMixed(w, a, l, b, i, j)
  BY <1>5, <1>8, <1>9 DEF IsMixed
<1> QED
  BY <1>8, <1>10, <1>11

\* The first mixed text is a, the last one b.
LEMMA MixedEnds ==
  ASSUME NEW l \in Nat, NEW a \in Texts(l), NEW n \in Nat, NEW b \in Texts(n)
  PROVE  Mixed(a, l, b, 0, 0) = a /\ Mixed(a, l, b, l, n) = b
<1>1. Mixed(a, l, b, 0, 0) = a
  <2>1. PICK w : w = Mixed(a, l, b, 0, 0)
    OBVIOUS
  <2>2. 0 \in 0..l /\ 0 \in 0..n /\ l + 0 = l + 0
    OBVIOUS
  <2>3. w \in Texts(l) /\ IsMixed(w, a, l, b, 0, 0)
    BY <2>1, <2>2, MixedIs
  <2>4. ASSUME NEW k \in 1..l PROVE w[k] = a[k]
    <3>1. w[0 + (k - 0)] = a[k] /\ 0 + (k - 0) = k
      BY <2>3 DEF IsMixed
    <3> QED
      BY <3>1
  <2> QED
    BY <2>1, <2>3, <2>4, TextsEqual
<1>2. Mixed(a, l, b, l, n) = b
  <2>1. PICK w : w = Mixed(a, l, b, l, n)
    OBVIOUS
  <2>2. l \in 0..l /\ n \in 0..n /\ n + l = l + n
    OBVIOUS
  <2>3. w \in Texts(n) /\ IsMixed(w, a, l, b, l, n)
    BY <2>1, <2>2, MixedIs
  <2>4. ASSUME NEW k \in 1..n PROVE w[k] = b[k]
    BY <2>3 DEF IsMixed
  <2> QED
    BY <2>1, <2>3, <2>4, TextsEqual
<1> QED
  BY <1>1, <1>2

\* Leaving out the next character of a, putting in the next of b, or both.
LEMMA MixedDelete ==
  ASSUME NEW l \in Nat, NEW a \in Texts(l), NEW n \in Nat, NEW b \in Texts(n), NEW C,
         NEW i \in 0..l, NEW i1 \in 0..l, i1 = i + 1, NEW j \in 0..n
  PROVE  Mixed(a, l, b, i1, j) \in Edits(Mixed(a, l, b, i, j), C)
<1>1. PICK m \in Nat : m = (l - i) + j
  OBVIOUS
<1>2. PICK m1 \in Nat : m1 = m - 1
  BY <1>1
<1>3. PICK t : t = Mixed(a, l, b, i, j)
  OBVIOUS
<1>4. PICK u : u = Mixed(a, l, b, i1, j)
  OBVIOUS
<1>5. t \in Texts(m) /\ IsMixed(t, a, l, b, i, j)
  <2>1. m + i = l + j
    BY <1>1
  <2> QED
    BY <1>3, <2>1, MixedIs
<1>6. u \in Texts(m1) /\ IsMixed(u, a, l, b, i1, j)
  <2>1. m1 + i1 = l + j
    BY <1>1, <1>2
  <2> QED
    BY <1>4, <2>1, MixedIs
<1>7. PICK h \in 1..m : h = j + 1
  BY <1>1
<1>8. Deleted(t, u, m, h)
  <2>1. ASSUME NEW k \in 1..(h - 1) PROVE u[k] = t[k]
    <3>1. k \in 1..j
      BY <1>7
    <3> QED
      BY <1>5, <1>6, <3>1 DEF IsMixed
  <2>2. ASSUME NEW k \in h..(m - 1) PROVE u[k] = t[k + 1]
    <3>1. PICK o \in (i1 + 1)..l : o = (k - j) + i1
      BY <1>1, <1>7
    <3>2. u[j + (o - i1)] = a[o]
      BY <1>6 DEF IsMixed
    <3>3. o \in (i + 1)..l
      OBVIOUS
    <3>4. t[j + (o - i)] = a[o]
      BY <1>5, <3>3 DEF IsMixed
    <3>5. j + (o - i1) = k /\ j + (o - i) = k + 1
      BY <3>1
    <3> QED
      BY <3>2, <3>4, <3>5
  <2> QED
    BY <2>1, <2>2 DEF Deleted
<1>9. u \in Edits(t, C)
  BY <1>2, <1>5, <1>6, <1>8, DeletedIsEdit
<1> QED
  BY <1>3, <1>4, <1>9

\* To take one more character of b is an insertion.
LEMMA MixedInsert ==
  ASSUME NEW l \in Nat, NEW a \in Texts(l), NEW n \in Nat, NEW b \in Texts(n),
         NEW C \in SUBSET Characters,
         NEW i \in 0..l, NEW j \in 0..n, NEW j1 \in 0..n, j1 = j + 1, b[j1] \in C
  PROVE  Mixed(a, l, b, i, j1) \in Edits(Mixed(a, l, b, i, j), C)
<1>1. PICK m \in Nat : m = (l - i) + j
  OBVIOUS
<1>2. PICK m1 \in Nat : m1 = m + 1
  BY <1>1
<1>3. PICK t : t = Mixed(a, l, b, i, j)
  OBVIOUS
<1>4. PICK u : u = Mixed(a, l, b, i, j1)
  OBVIOUS
<1>5. t \in Texts(m) /\ IsMixed(t, a, l, b, i, j)
  <2>1. m + i = l + j
    BY <1>1
  <2> QED
    BY <1>3, <2>1, MixedIs
<1>6. u \in Texts(m1) /\ IsMixed(u, a, l, b, i, j1)
  <2>1. m1 + i = l + j1
    BY <1>1, <1>2
  <2> QED
    BY <1>4, <2>1, MixedIs
<1>7. j \in 0..m
  BY <1>1
<1>8. Inserted(t, u, m, j)
  <2>1. ASSUME NEW k \in 1..j PROVE u[k] = t[k]
    <3>1. k \in 1..j1
      OBVIOUS
    <3> QED
      BY <1>5, <1>6, <3>1 DEF IsMixed
  <2>2. ASSUME NEW k \in (j + 1)..m PROVE u[k + 1] = t[k]
    <3>1. PICK o \in (i + 1)..l : o = (k - j) + i
      BY <1>1
    <3>2. u[j1 + (o - i)] = a[o]
      BY <1>6 DEF IsMixed
    <3>3. t[j + (o - i)] = a[o]
      BY <1>5 DEF IsMixed
    <3>4. j1 + (o - i) = k + 1 /\ j + (o - i) = k
      BY <3>1
    <3> QED
      BY <3>2, <3>3, <3>4
  <2> QED
    BY <2>1, <2>2 DEF Inserted
<1>9. u[m1 - m + j] \in C
  <2>1. m1 - m + j = j1
    BY <1>2
  <2>2. u[j1] = b[j1]
    BY <1>6 DEF IsMixed
  <2> QED
    BY <2>1, <2>2
<1>10. u \in Edits(t, C)
  BY <1>2, <1>5, <1>6, <1>7, <1>8, <1>9, InsertedIsEdit
<1> QED
  BY <1>3, <1>4, <1>10

\* To take one more of b for one of a is a replacement, or nothing when they
\* are the same character.
LEMMA MixedReplace ==
  ASSUME NEW l \in Nat, NEW a \in Texts(l), NEW n \in Nat, NEW b \in Texts(n),
         NEW C \in SUBSET Characters,
         NEW i \in 0..l, NEW i1 \in 0..l, i1 = i + 1,
         NEW j \in 0..n, NEW j1 \in 0..n, j1 = j + 1, b[j1] \in C
  PROVE  /\ Mixed(a, l, b, i1, j1) \in Edits(Mixed(a, l, b, i, j), C)
         /\ a[i1] = b[j1] => Mixed(a, l, b, i1, j1) = Mixed(a, l, b, i, j)
<1>1. PICK m \in Nat : m = (l - i) + j
  OBVIOUS
<1>3. PICK t : t = Mixed(a, l, b, i, j)
  OBVIOUS
<1>4. PICK u : u = Mixed(a, l, b, i1, j1)
  OBVIOUS
<1>5. t \in Texts(m) /\ IsMixed(t, a, l, b, i, j)
  <2>1. m + i = l + j
    BY <1>1
  <2> QED
    BY <1>3, <2>1, MixedIs
<1>6. u \in Texts(m) /\ IsMixed(u, a, l, b, i1, j1)
  <2>1. m + i1 = l + j1
    BY <1>1
  <2> QED
    BY <1>4, <2>1, MixedIs
<1>7. j1 \in 1..m
  BY <1>1
<1>8. Replaced(t, u, m, j1)
  <2>1. ASSUME NEW k \in 1..m, k # j1 PROVE u[k] = t[k]
    <3>1. CASE k <= j
      <4>1. k \in 1..j /\ k \in 1..j1
        BY <3>1
      <4> QED
        BY <1>5, <1>6, <4>1 DEF IsMixed
    <3>2. CASE k > j1
      <4>1. PICK o \in (i1 + 1)..l : o = (k - j1) + i1
        BY <1>1, <3>2
      <4>2. u[j1 + (o - i1)] = a[o]
        BY <1>6 DEF IsMixed
      <4>3. o \in (i + 1)..l
        OBVIOUS
      <4>4. t[j + (o - i)] = a[o]
        BY <1>5, <4>3 DEF IsMixed
      <4>5. j1 + (o - i1) = k /\ j + (o - i) = k
        BY <4>1
      <4> QED
        BY <4>2, <4>4, <4>5
    <3> QED
      BY <2>1, <3>1, <3>2
  <2> QED
    BY <2>1 DEF Replaced
<1>9. u[j1] = b[j1]
  BY <1>6 DEF IsMixed
<1>10. u \in Edits(t, C)
  BY <1>5, <1>6, <1>7, <1>8, <1>9, ReplacedIsEdit
<1>11. ASSUME a[i1] = b[j1] PROVE u = t
  <2>1. t[j + (i1 - i)] = a[i1]
    BY <1>5 DEF IsMixed
  <2>2. j + (i1 - i) = j1
    OBVIOUS
  <2>3. t[j1] = u[j1]
    BY <1>9, <1>11, <2>1, <2>2
  <2>4. ASSUME NEW k \in 1..m PROVE u[k] = t[k]
    BY <1>8, <2>3 DEF Replaced
  <2> QED
    BY <1>5, <1>6, <2>4, TextsEqual
<1> QED
  BY <1>3, <1>4, <1>10, <1>11

\* An edit of what is within d edits is within d + 1.
LEMMA WithinGrows ==
  ASSUME NEW C, NEW a, NEW max \in Nat, NEW w, IsWithin(w, a, C, max),
         NEW d \in 0..max, NEW d1 \in 0..max, d1 = d + 1,
         NEW t \in w[d], NEW u \in Edits(t, C)
  PROVE  u \in w[d1]
<1>1. Widens(w, a, C, max)
  BY WithinIs
<1>2. w[d1] = Wider(w[d], C)
  BY <1>1 DEF Widens
<1> QED
  BY <1>2 DEF Wider

\* The edits the entry at i, j counts do lead from a to the mixed text there.
Reached(f, w, a, l, b, max, i, j) ==
    \A d \in 0..max : f[i][j + 1] = d => Mixed(a, l, b, i, j) \in w[d]

\* The first row is reached: j insertions.
LEMMA ReachedInFirstRow ==
  ASSUME NEW l \in Nat, NEW a \in Texts(l), NEW n \in Nat, NEW b \in Texts(n),
         NEW C \in SUBSET Characters, \A j \in 1..n : b[j] \in C,
         NEW f, Matrix(f, a, l, b, n), NEW max \in Nat, NEW w, IsWithin(w, a, C, max)
  PROVE  \A j \in 0..n : Reached(f, w, a, l, b, max, 0, j)
<1>0. ASSUME NEW j \in 0..n PROVE f[0][j + 1] = j
  <2>1. f[0] = FirstRow(n)
    BY DEF Matrix
  <2> QED
    BY <2>1 DEF FirstRow
<1> DEFINE P == {j \in 0..n : Reached(f, w, a, l, b, max, 0, j)}
<1>1. 0 \in P
  <2>1. Mixed(a, l, b, 0, 0) = a
    BY MixedEnds
  <2>2. w[0] = {a}
    BY WithinIs DEF Widens
  <2>3. f[0][0 + 1] = 0
    BY <1>0
  <2>4. Reached(f, w, a, l, b, max, 0, 0)
    BY <2>1, <2>2, <2>3 DEF Reached
  <2> QED
    BY <2>4
<1>2. ASSUME NEW j \in 0..n, j \in P, j < n PROVE j + 1 \in P
  <2>1. PICK j1 \in 0..n : j1 = j + 1
    BY <1>2
  <2>2. Reached(f, w, a, l, b, max, 0, j)
    BY <1>2
  <2>3. f[0][j + 1] = j /\ f[0][j1 + 1] = j1
    BY <1>0
  <2>4. ASSUME NEW d1 \in 0..max, f[0][j1 + 1] = d1
        PROVE  Mixed(a, l, b, 0, j1) \in w[d1]
    <3>1. PICK d \in 0..max : d = j
      BY <2>1, <2>3, <2>4
    <3>2. Mixed(a, l, b, 0, j) \in w[d]
      BY <2>2, <2>3, <3>1 DEF Reached
    <3>3. d1 = d + 1
      BY <2>1, <2>3, <2>4, <3>1
    <3>4. Mixed(a, l, b, 0, j1) \in Edits(Mixed(a, l, b, 0, j), C)
      <4>1. b[j1] \in C /\ 0 \in 0..l
        BY <2>1
      <4> QED
        BY <2>1, <4>1, MixedInsert
    <3> QED
      BY <3>2, <3>3, <3>4, WithinGrows
  <2>5. Reached(f, w, a, l, b, max, 0, j1)
    BY <2>4 DEF Reached
  <2> QED
    BY <2>1, <2>5
<1> HIDE DEF P
<1>3. 0..n \subseteq P
  BY <1>1, <1>2, Reaches
<1> QED
  BY <1>3 DEF P

\* The first column is reached: one deletion below what is reached.
LEMMA ReachedInFirstColumn ==
  ASSUME NEW l \in Nat, NEW a \in Texts(l), NEW n \in Nat, NEW b \in Texts(n),
         NEW C \in SUBSET Characters,
         NEW f, Matrix(f, a, l, b, n), NEW max \in Nat, NEW w, IsWithin(w, a, C, max),
         NEW i \in 0..l, NEW i1 \in 0..l, i1 = i + 1, Reached(f, w, a, l, b, max, i, 0)
  PROVE  Reached(f, w, a, l, b, max, i1, 0)
<1>1. f[i] \in Row(n) /\ Follows(f[i1], f[i], a[i1], b, n)
  <2>1. i1 \in 1..l /\ i1 - 1 = i
    OBVIOUS
  <2>2. Len(b) = n
    BY TextIs
  <2>3. f[i1 - 1] \in Row(n) /\ Follows(f[i1], f[i1 - 1], a[i1], b, n)
    BY <2>1, <2>2, MatrixRows
  <2> QED
    BY <2>1, <2>3
<1>2. f[i1][1] = f[i][1] + 1 /\ f[i][1] \in Nat
  BY <1>1 DEF Follows, Row
<1>3. ASSUME NEW d1 \in 0..max, f[i1][0 + 1] = d1
      PROVE  Mixed(a, l, b, i1, 0) \in w[d1]
  <2>1. PICK d \in 0..max : d = f[i][1]
    BY <1>2, <1>3
  <2>2. Mixed(a, l, b, i, 0) \in w[d]
    <3>1. f[i][0 + 1] = d
      BY <2>1
    <3> QED
      BY <3>1 DEF Reached
  <2>3. d1 = d + 1
    BY <1>2, <1>3, <2>1
  <2>4. Mixed(a, l, b, i1, 0) \in Edits(Mixed(a, l, b, i, 0), C)
    <3>1. 0 \in 0..n
      OBVIOUS
    <3> QED
      BY <3>1, MixedDelete
  <2> QED
    BY <2>2, <2>3, <2>4, WithinGrows
<1> QED
  BY <1>3 DEF Reached

\* What EntryOf says of an entry.
LeastOfThree(s, r, c, b, j) ==
    /\ r[j] \in Nat /\ r[j + 1] \in Nat /\ s[j] \in Nat /\ s[j + 1] \in Nat
    /\ Cost(c, b[j]) \in {0, 1} /\ (Cost(c, b[j]) = 0 => c = b[j])
    /\ s[j + 1] = r[j + 1] + 1 \/ s[j + 1] = s[j] + 1 \/ s[j + 1] = r[j] + Cost(c, b[j])

\* An entry is reached when the three it is computed from are.
LEMMA ReachedInside ==
  ASSUME NEW l \in Nat, NEW a \in Texts(l), NEW n \in Nat, NEW b \in Texts(n),
         NEW C \in SUBSET Characters, \A j \in 1..n : b[j] \in C,
         NEW f, Matrix(f, a, l, b, n), NEW max \in Nat, NEW w, IsWithin(w, a, C, max),
         NEW i \in 0..l, NEW i1 \in 0..l, i1 = i + 1,
         NEW j \in 0..n, NEW j1 \in 0..n, j1 = j + 1,
         Reached(f, w, a, l, b, max, i, j), Reached(f, w, a, l, b, max, i, j1),
         Reached(f, w, a, l, b, max, i1, j)
  PROVE  Reached(f, w, a, l, b, max, i1, j1)
<1>1. f[i] \in Row(n) /\ f[i1] \in Row(n) /\ Follows(f[i1], f[i], a[i1], b, n)
  <2>1. i1 \in 1..l /\ i1 - 1 = i
    OBVIOUS
  <2>2. Len(b) = n
    BY TextIs
  <2>3. f[i1 - 1] \in Row(n) /\ f[i1] \in Row(n) /\ Follows(f[i1], f[i1 - 1], a[i1], b, n)
    BY <2>1, <2>2, MatrixRows
  <2> QED
    BY <2>1, <2>3
<1>2. j1 \in 1..n /\ b[j1] \in C
  OBVIOUS
<1>r. PICK r \in Row(n) : r = f[i]
  BY <1>1
<1>s. PICK s \in Row(n) : s = f[i1]
  BY <1>1
<1>c. PICK c : c = a[i1]
  OBVIOUS
<1>3. /\ r[j1] \in Nat /\ r[j1 + 1] \in Nat /\ s[j1] \in Nat /\ s[j1 + 1] \in Nat
      /\ Cost(c, b[j1]) \in {0, 1} /\ (Cost(c, b[j1]) = 0 => c = b[j1])
      /\ s[j1 + 1] = r[j1 + 1] + 1 \/ s[j1 + 1] = s[j1] + 1 \/ s[j1 + 1] = r[j1] + Cost(c, b[j1])
  <2>1. Follows(s, r, c, b, n)
    BY <1>1, <1>r, <1>s, <1>c
  <2>2. ASSUME NEW k \in 1..n PROVE LeastOfThree(s, r, c, b, k)
    BY <2>1, EntryOf DEF LeastOfThree
  <2>3. LeastOfThree(s, r, c, b, j1)
    BY <1>2, <2>2
  <2> QED
    BY <2>3 DEF LeastOfThree
<1>4. ASSUME NEW d \in 0..max, f[i1][j1 + 1] = d
      PROVE  Mixed(a, l, b, i1, j1) \in w[d]
  <2>0. PICK u : u = Mixed(a, l, b, i1, j1)
    OBVIOUS
  <2>1. CASE d = r[j1 + 1] + 1
    <3>1. PICK e \in 0..max : e = r[j1 + 1] /\ d = e + 1
      BY <1>3, <2>1
    <3>2. PICK t : t = Mixed(a, l, b, i, j1)
      OBVIOUS
    <3>3. t \in w[e]
      BY <1>r, <3>1, <3>2 DEF Reached
    <3>4. u \in Edits(t, C)
      BY <2>0, <3>2, MixedDelete
    <3>5. d = e + 1
      BY <3>1
    <3>6. u \in w[d]
      BY <3>3, <3>4, <3>5, WithinGrows
    <3> QED
      BY <2>0, <3>6
  <2>2. CASE d = s[j1] + 1
    <3>1. PICK e \in 0..max : e = s[j1] /\ d = e + 1
      BY <1>3, <2>2
    <3>2. PICK t : t = Mixed(a, l, b, i1, j)
      OBVIOUS
    <3>3. t \in w[e]
      BY <1>s, <3>1, <3>2 DEF Reached
    <3>4. u \in Edits(t, C)
      BY <1>2, <2>0, <3>2, MixedInsert
    <3>5. d = e + 1
      BY <3>1
    <3>6. u \in w[d]
      BY <3>3, <3>4, <3>5, WithinGrows
    <3> QED
      BY <2>0, <3>6
  <2>3. CASE d = r[j1] + Cost(c, b[j1])
    <3>1. PICK e \in 0..max : e = r[j1] /\ (d = e + 1 \/ (d = e /\ c = b[j1]))
      BY <1>3, <2>3
    <3>2. PICK t : t = Mixed(a, l, b, i, j)
      OBVIOUS
    <3>3. t \in w[e]
      BY <1>r, <3>1, <3>2 DEF Reached
    <3>4. u \in Edits(t, C) /\ (a[i1] = b[j1] => u = t)
      BY <1>2, <2>0, <3>2, MixedReplace
    <3>5. CASE d = e + 1
      <4>1. u \in w[d]
        BY <3>3, <3>4, <3>5, WithinGrows
      <4> QED
        BY <2>0, <4>1
    <3>6. CASE d = e /\ c = b[j1]
      BY <1>c, <2>0, <3>3, <3>4, <3>6
    <3> QED
      BY <3>1, <3>5, <3>6
  <2>4. d = s[j1 + 1]
    BY <1>s, <1>4
  <2> QED
    BY <1>3, <2>1, <2>2, <2>3, <2>4
<1> QED
  BY <1>4 DEF Reached

\* So where the last entry is within max, that many edits lead from a to b.
LEMMA EditsReachInTime ==
  ASSUME NEW l \in Nat, NEW a \in Texts(l), NEW n \in Nat, NEW b \in Texts(n),
         NEW C \in SUBSET Characters, \A j \in 1..n : b[j] \in C,
         NEW f, Matrix(f, a, l, b, n), NEW max \in Nat, NEW w, IsWithin(w, a, C, max),
         NEW d \in 0..max, d = f[l][n + 1]
  PROVE  b \in w[d]
<1> DEFINE P == {i \in 0..l : \A j \in 0..n : Reached(f, w, a, l, b, max, i, j)}
<1>1. 0 \in P
  BY ReachedInFirstRow
<1>2. ASSUME NEW i \in 0..l, i \in P, i < l PROVE i + 1 \in P
  <2>1. PICK i1 \in 0..l : i1 = i + 1
    BY <1>2
  <2>2. \A j \in 0..n : Reached(f, w, a, l, b, max, i, j)
    BY <1>2
  <2> DEFINE Q == {j \in 0..n : Reached(f, w, a, l, b, max, i1, j)}
  <2>3. 0 \in Q
    BY <2>1, <2>2, ReachedInFirstColumn
  <2>4. ASSUME NEW j \in 0..n, j \in Q, j < n PROVE j + 1 \in Q
    <3>1. PICK j1 \in 0..n : j1 = j + 1
      BY <2>4
    <3>2. /\ Reached(f, w, a, l, b, max, i, j) /\ Reached(f, w, a, l, b, max, i, j1)
          /\ Reached(f, w, a, l, b, max, i1, j)
      BY <2>2, <2>4
    <3>3. Reached(f, w, a, l, b, max, i1, j1)
      BY <2>1, <3>1, <3>2, ReachedInside
    <3> QED
      BY <3>1, <3>3
  <2> HIDE DEF Q
  <2>5. 0..n \subseteq Q
    BY <2>3, <2>4, Reaches
  <2>6. \A j \in 0..n : Reached(f, w, a, l, b, max, i1, j)
    BY <2>5 DEF Q
  <2> QED
    BY <2>1, <2>6
<1> HIDE DEF P
<1>3. 0..l \subseteq P
  BY <1>1, <1>2, Reaches
<1>4. l \in P /\ n \in 0..n
  BY <1>3
<1>5. Reached(f, w, a, l, b, max, l, n)
  BY <1>4 DEF P
<1>6. Mixed(a, l, b, l, n) = b
  BY MixedEnds
<1> QED
  BY <1>5, <1>6 DEF Reached

-----------------------------------------------------------------------------
(***************************************************************************)
(* What levenshtein keeps of the matrix, and the theorem.                  *)
(***************************************************************************)

\* The rows as levenshtein keeps them: what is given up on stays.
NextKept(row, c, b, max) == IF GivesUp(row, max) THEN row ELSE NextRow(row, c, b)

\* Those rows, for a text of l characters against one of n.
IsKept(f, a, l, b, n, max) ==
    f = [i \in 0..l |-> IF i = 0 THEN FirstRow(n) ELSE NextKept(f[i - 1], a[i], b, max)]

\* The rows levenshtein keeps exist as a function.
LEMMA KeptExists ==
  ASSUME NEW l \in Nat, NEW a, NEW n \in Nat, NEW b, Len(b) = n, NEW max \in Nat
  PROVE  \E f : IsKept(f, a, l, b, n, max)
<1> DEFINE step == [x \in (1..l) \X Row(n) |-> NextKept(x[2], a[x[1]], b, max)]
<1>1. step \in [(1..l) \X Row(n) -> Row(n)]
  BY NextRowIs DEF NextKept
<1>2. \A i \in 1..l, r \in Row(n) : step[<<i, r>>] = NextKept(r, a[i], b, max)
  OBVIOUS
<1>3. FirstRow(n) \in Row(n)
  BY DEF FirstRow, Row
<1> HIDE DEF step
<1>4. PICK f \in [0..l -> Row(n)] : Iterated(f, FirstRow(n), l, step)
  BY <1>1, <1>3, Iterates
<1>5. ASSUME NEW i \in 0..l
      PROVE  f[i] = IF i = 0 THEN FirstRow(n) ELSE NextKept(f[i - 1], a[i], b, max)
  <2>1. CASE i = 0
    BY <1>4, <2>1 DEF Iterated
  <2>2. CASE i # 0
    <3>1. i \in 1..l
      BY <2>2
    <3>2. f[i] = step[<<i, f[i - 1]>>] /\ f[i - 1] \in Row(n)
      BY <1>4, <3>1 DEF Iterated
    <3> QED
      BY <1>2, <2>2, <3>1, <3>2
  <2> QED
    BY <2>1, <2>2
<1>6. f = [i \in 0..l |-> f[i]]
  BY <1>4
<1>7. IsKept(f, a, l, b, n, max)
  BY <1>5, <1>6 DEF IsKept
<1> QED
  BY <1>7

\* What is given up on is given up on in the full rows too; the rest is the same.
LEMMA KeptOrGivenUp ==
  ASSUME NEW l \in Nat, NEW a, NEW n \in Nat, NEW b, Len(b) = n, NEW max \in Nat,
         NEW f, IsKept(f, a, l, b, n, max), NEW g, Matrix(g, a, l, b, n)
  PROVE  f[l] = g[l] \/ (GivesUp(f[l], max) /\ GivesUp(g[l], max))
<1> DEFINE Same(i) == f[i] = g[i] \/ (GivesUp(f[i], max) /\ GivesUp(g[i], max))
           P == {i \in 0..l : Same(i)}
<1>1. 0 \in P
  BY DEF IsKept, Matrix
<1>2. ASSUME NEW i \in 0..l, i \in P, i < l PROVE i + 1 \in P
  <2>1. PICK k \in 1..l : k = i + 1
    BY <1>2
  <2>2. k \in 0..l /\ k # 0 /\ k - 1 = i
    BY <2>1
  <2>3. f[k] = NextKept(f[i], a[k], b, max)
    BY <2>2 DEF IsKept
  <2>4. /\ g[i] \in Row(n) /\ g[k] \in Row(n) /\ Follows(g[k], g[i], a[k], b, n)
        /\ g[k] = NextRow(g[i], a[k], b)
    BY <2>2, MatrixRows DEF Matrix
  <2>5. Same(i)
    BY <1>2
  <2>6. CASE GivesUp(g[i], max)
    <3>1. GivesUp(g[k], max)
      BY <2>4, <2>6, GivesUpForGood
    <3>2. GivesUp(f[i], max)
      BY <2>5, <2>6
    <3>3. GivesUp(f[k], max)
      BY <2>3, <3>2 DEF NextKept
    <3> QED
      BY <2>1, <3>1, <3>3
  <2>7. CASE ~GivesUp(g[i], max)
    <3>1. f[i] = g[i]
      BY <2>5, <2>7
    <3>2. f[k] = g[k]
      BY <2>3, <2>4, <2>7, <3>1 DEF NextKept
    <3> QED
      BY <2>1, <3>2
  <2> QED
    BY <2>6, <2>7
<1> HIDE DEF P
<1>3. 0..l \subseteq P
  BY <1>1, <1>2, Reaches
<1> QED
  BY <1>3 DEF P

\* levenshtein, of those rows.
Answer(f, a, l, b, n, max) ==
    IF a = b THEN 0
    ELSE IF l > n + max \/ n > l + max THEN max + 1
    ELSE IF GivesUp(f[l], max) THEN max + 1
    ELSE f[l][n + 1]

\* Levenshtein is the answer read off the rows it keeps.
LEMMA LevenshteinIs ==
  ASSUME NEW l \in Nat, NEW a \in Texts(l), NEW n \in Nat, NEW b \in Texts(n), NEW max \in Nat
  PROVE  \E f : /\ IsKept(f, a, l, b, n, max)
                /\ Levenshtein(a, b, max) = Answer(f, a, l, b, n, max)
<1>1. Len(a) = l /\ Len(b) = n
  BY TextIs
<1> DEFINE after[i \in 0..Len(a)] ==
            IF i = 0 THEN [j \in 1..(Len(b) + 1) |-> j - 1]
            ELSE LET row == after[i - 1]
                 IN  IF GivesUp(row, max) THEN row ELSE NextRow(row, a[i], b)
           kept == CHOOSE f : IsKept(f, a, l, b, n, max)
<1>2. after = kept
  BY <1>1 DEF IsKept, FirstRow, NextKept
<1>3. IsKept(kept, a, l, b, n, max)
  BY <1>1, KeptExists
<1>4. Levenshtein(a, b, max) =
        IF a = b THEN 0
        ELSE IF Len(a) > Len(b) + max \/ Len(b) > Len(a) + max THEN max + 1
        ELSE IF GivesUp(after[Len(a)], max) THEN max + 1
        ELSE after[Len(a)][Len(b) + 1]
  BY DEF Levenshtein
<1> HIDE DEF after, kept
<1>5. Levenshtein(a, b, max) = Answer(kept, a, l, b, n, max)
  BY <1>1, <1>2, <1>4 DEF Answer
<1> QED
  BY <1>3, <1>5

\* The least number of edits, or more than max.
LEMMA LevenshteinIsLeast ==
  ASSUME NEW l \in Nat, NEW a \in Texts(l), NEW n \in Nat, NEW b \in Texts(n),
         NEW max \in Nat, NEW w, IsWithin(w, a, ToSet(b), max),
         NEW x, x = Levenshtein(a, b, max)
  PROVE  \/ x \in 0..max /\ b \in w[x] /\ \A k \in 0..max : b \in w[k] => x <= k
         \/ x > max /\ \A k \in 0..max : b \notin w[k]
<1>1. Len(b) = n /\ \A j \in 1..n : b[j] \in Characters
  BY TextIs
<1>2. PICK C \in SUBSET Characters : C = ToSet(b) /\ \A j \in 1..n : b[j] \in C
  <2>1. b \in Seq(Characters) /\ DOMAIN b = 1..n
    BY <1>1, TextIs, LenProperties
  <2>2. ToSet(b) \in SUBSET Characters /\ \A j \in 1..n : b[j] \in ToSet(b)
    BY <1>1, <2>1 DEF ToSet
  <2> QED
    BY <2>2
<1>3. IsWithin(w, a, C, max)
  BY <1>2
<1>4. PICK f : IsKept(f, a, l, b, n, max) /\ x = Answer(f, a, l, b, n, max)
  BY LevenshteinIs
<1>5. PICK g : Matrix(g, a, l, b, n)
  BY <1>1, MatrixExists
<1>6. f[l] = g[l] \/ (GivesUp(f[l], max) /\ GivesUp(g[l], max))
  BY <1>1, <1>4, <1>5, KeptOrGivenUp
<1>7. PICK h \in Nat : h = g[l][n + 1]
  BY <1>5, DistanceIsNat
<1>8. ASSUME NEW k \in 0..max, b \in w[k] PROVE h <= k /\ n <= l + k /\ l <= n + k
  BY <1>2, <1>3, <1>5, <1>7, <1>8, EditsReachNoSooner
<1>9. h <= max => b \in w[h]
  <2> SUFFICES ASSUME h <= max PROVE b \in w[h]
    OBVIOUS
  <2>1. h \in 0..max
    OBVIOUS
  <2> QED
    BY <1>2, <1>3, <1>5, <1>7, <2>1, EditsReachInTime
<1>10. CASE a = b
  <2>1. x = 0
    BY <1>4, <1>10 DEF Answer
  <2>2. Widens(w, a, C, max)
    BY <1>3, WithinIs
  <2>3. w[0] = {a}
    BY <2>2 DEF Widens
  <2> QED
    BY <1>10, <2>1, <2>3
<1>11. CASE a # b /\ (l > n + max \/ n > l + max)
  <2>1. x = max + 1
    BY <1>4, <1>11 DEF Answer
  <2>2. \A k \in 0..max : b \notin w[k]
    BY <1>8, <1>11
  <2> QED
    BY <2>1, <2>2
<1>12. CASE a # b /\ ~(l > n + max \/ n > l + max) /\ GivesUp(f[l], max)
  <2>1. x = max + 1
    BY <1>4, <1>12 DEF Answer
  <2>2. GivesUp(g[l], max)
    BY <1>6, <1>12
  <2>3. h > max
    <3>1. g[l] \in Row(n)
      BY <1>5 DEF Matrix
    <3> QED
      BY <1>7, <2>2, <3>1 DEF GivesUp, Row
  <2>4. \A k \in 0..max : b \notin w[k]
    BY <1>8, <2>3
  <2> QED
    BY <2>1, <2>4
<1>13. CASE a # b /\ ~(l > n + max \/ n > l + max) /\ ~GivesUp(f[l], max)
  <2>1. x = f[l][n + 1]
    BY <1>4, <1>13 DEF Answer
  <2>2. x = h
    BY <1>6, <1>7, <1>13, <2>1
  <2>3. CASE h <= max
    <3>1. h \in 0..max
      BY <2>3
    <3> QED
      BY <1>8, <1>9, <2>2, <2>3, <3>1
  <2>4. CASE h > max
    <3>1. \A k \in 0..max : b \notin w[k]
      BY <1>8, <2>4
    <3> QED
      BY <2>2, <2>4, <3>1
  <2> QED
    BY <2>3, <2>4
<1> QED
  BY <1>10, <1>11, <1>12, <1>13

\* Of what lies within each number of edits, r is what DistanceIsExact asks for.
IsExact(w, b, max, r) ==
    LET near == {k \in 0..max : b \in w[k]}
    IN  IF near = {} THEN r > max ELSE r = Min(near)

\* The texts within 0, 1, ... max edits of a, over the characters of b.
WithinOf(a, b, max) == CHOOSE w : IsWithin(w, a, ToSet(b), max)

\* The answer is exact for every two texts and every cap.
LEMMA DistanceIsAnswered ==
  ASSUME NEW a \in Seq(Characters), NEW b \in Seq(Characters), NEW max \in Nat
  PROVE  IsExact(WithinOf(a, b, max), b, max, Levenshtein(a, b, max))
<1>0. PICK w : w = WithinOf(a, b, max)
  OBVIOUS
<1>00. PICK r : r = Levenshtein(a, b, max)
  OBVIOUS
<1> SUFFICES IsExact(w, b, max, r)
  BY <1>0, <1>00
<1>000. IsWithin(w, a, ToSet(b), max)
  <2>1. ToSet(b) \in SUBSET Characters
    BY ElementOfSeq, LenProperties DEF ToSet
  <2> QED
    BY <1>0, <2>1, WithinExists DEF WithinOf
<1>1. PICK l \in Nat : l = Len(a)
  BY LenProperties
<1>2. PICK n \in Nat : n = Len(b)
  BY LenProperties
<1>3. a \in Texts(l) /\ b \in Texts(n)
  BY <1>1, <1>2 DEF Texts
<1>4. \/ r \in 0..max /\ b \in w[r] /\ \A k \in 0..max : b \in w[k] => r <= k
      \/ r > max /\ \A k \in 0..max : b \notin w[k]
  BY <1>00, <1>000, <1>3, LevenshteinIsLeast
<1> DEFINE near == {k \in 0..max : b \in w[k]}
<1>5. CASE r \in 0..max /\ b \in w[r] /\ \A k \in 0..max : b \in w[k] => r <= k
  <2>1. near \subseteq Nat /\ r \in near /\ \A k \in near : r <= k
    BY <1>5
  <2> HIDE DEF near
  <2>2. near # {}
    BY <2>1
  <2>3. Min(near) \in near /\ \A k \in near : Min(near) <= k
    BY <2>1 DEF Min
  <2>4. PICK m : m = Min(near)
    OBVIOUS
  <2>5. m \in Nat /\ r \in Nat /\ m <= r /\ r <= m
    BY <2>1, <2>3, <2>4
  <2>6. r = m
    BY <2>5
  <2> QED
    BY <2>2, <2>4, <2>6 DEF near, IsExact
<1>6. CASE r > max /\ \A k \in 0..max : b \notin w[k]
  BY <1>6 DEF IsExact
<1> QED
  BY <1>4, <1>5, <1>6

\* Asked of any two texts and any cap, levenshtein gives the least number of
\* edits between them where that is within the cap, and otherwise a number
\* above it, however early it gave up.
THEOREM DistanceIsTrue == IdentifierSpec => []DistanceIsExact
<1>1. text = <<>> => DistanceIsExact
  BY DEF DistanceIsExact
<1>2. DistanceIsExact /\ [ReadAnyPlate \/ ReadAnyDistance]_<<text, read>> => DistanceIsExact'
  <2> SUFFICES ASSUME DistanceIsExact, [ReadAnyPlate \/ ReadAnyDistance]_<<text, read>>
               PROVE  DistanceIsExact'
    OBVIOUS
  <2>1. ASSUME NEW a \in Seq(Characters), NEW b \in Seq(Characters), NEW max \in Nat,
               AskDistance(a, b, max)
        PROVE  DistanceIsExact'
    <3>1. text' = [a |-> a, b |-> b, max |-> max] /\ read' = Levenshtein(a, b, max)
      BY <2>1 DEF AskDistance
    <3>2. text'.a = a /\ text'.b = b /\ text'.max = max
      BY <3>1
    <3>3. IsExact(WithinOf(a, b, max), b, max, read')
      BY <3>1, DistanceIsAnswered
    <3>4. IsExact(WithinOf(text.a, text.b, text.max), text.b, text.max, read)'
      BY <3>2, <3>3
    <3> QED
      BY <3>4 DEF DistanceIsExact, IsExact, WithinOf, IsWithin
  <2>2. ASSUME NEW plate, NEW at, NEW as, NEW cuts, AskPlate(plate, at, as, cuts, <<>>)
        PROVE  DistanceIsExact'
    <3>1. text' = [plate |-> plate, at |-> at, as |-> as]
      BY <2>2 DEF AskPlate
    <3>2. "max" \notin DOMAIN text'
      BY <3>1
    <3> QED
      BY <3>2 DEF DistanceIsExact
  <2>3. CASE UNCHANGED <<text, read>>
    BY <2>3 DEF DistanceIsExact
  <2> QED
    BY <2>1, <2>2, <2>3 DEF ReadAnyPlate, ReadAnyDistance
<1> QED
  BY <1>1, <1>2, PTL DEF IdentifierSpec
==============================================================================
