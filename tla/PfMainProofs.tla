---------------------------- MODULE PfMainProofs ----------------------------
(***************************************************************************)
(* What tunshare does to the main rule set of pf, for any rules of others, *)
(* any settings, any number of restores and cleanups beside each other and *)
(* any edits between their steps: what it loads stands, the rules of       *)
(* others are kept, and what it says it did can be read back.              *)
(*                                                                         *)
(* First the places of lines, then what merging and stripping make of any  *)
(* text, then what the health check and status read from it, then the      *)
(* invariants of the steps.                                                *)
(***************************************************************************)
EXTENDS PfMain, SieveProofs

Hooks == Range(MainHooks)

\* What others have at a place of a text.
Theirs(place) == At(place) \ Ours

-----------------------------------------------------------------------------
(* Lines and their places.                                                 *)

(* Every line has one of the five places, by its first word.               *)
LEMMA PlaceOfLine ==
    ASSUME NEW line \in Line
    PROVE  /\ Place(line) \in 1..5
           /\ Place(line) = 1 <=> line.first \in {"set", "table"}
           /\ Place(line) = 2 <=> line.first \in {"scrub", "scrub-anchor"}
           /\ Place(line) = 3 <=> line.first = "dummynet-anchor"
           /\ Place(line) = 4 <=> line.first \in Translations
           /\ Place(line) = 5 <=> line.first \in {"anchor", "pass"}
<1>1. line.first \in FirstWords
    BY DEF Line
<1> DEFINE first == line.first
<1> HIDE DEF first
<1>2. \/ first \in {"set", "table"} \/ first \in {"scrub", "scrub-anchor"}
      \/ first = "dummynet-anchor" \/ first \in Translations
      \/ first \in {"anchor", "pass"}
    BY <1>1 DEF FirstWords, Translations, first
<1>3. Place(line) = CASE first \in {"set", "table"}          -> 1
                      [] first \in {"scrub", "scrub-anchor"} -> 2
                      [] first = "dummynet-anchor"           -> 3
                      [] first \in Translations              -> 4
                      [] first \in {"anchor", "pass"}        -> 5
    BY DEF Place, first
<1> QED
    BY <1>2, <1>3 DEF Translations, first

(* A rule is a line of one of the last four; translations are the fourth.  *)
LEMMA PlacesOfRules ==
    /\ \A line \in Line : line \in Rule <=> Place(line) > 1
    /\ Of(Translations) = At(4)
    /\ Rule \subseteq Line
    /\ \A place \in 1..5 : At(place) \subseteq Line
<1>1. \A line \in Line : line \in Rule <=> Place(line) > 1
    BY PlaceOfLine DEF Rule, Of
<1>2. Of(Translations) = At(4)
    BY PlaceOfLine DEF Of, At
<1> QED
    BY <1>1, <1>2 DEF Rule, At

(* The section of a rule that the merge keeps is its place.                *)
LEMMA SectionOfRule ==
    ASSUME NEW line \in Rule
    PROVE  /\ Section(line) # "options"
           /\ Section(line) = "scrub" <=> Place(line) = 2
           /\ Section(line) = "queue" <=> Place(line) = 3
           /\ Section(line) = "nat" <=> Place(line) = 4
           /\ Section(line) = "filter" <=> Place(line) = 5
<1>1. line \in Line /\ line.first \in FirstWords
    BY DEF Line, Rule
<1> DEFINE first == line.first
<1>2. first \notin {"set", "table"}
    BY <1>1 DEF Rule, Of
<1> HIDE DEF first
<1>3. \/ first \in {"scrub", "scrub-anchor"}
      \/ first = "dummynet-anchor" \/ first \in Translations
      \/ first \in {"anchor", "pass"}
    BY <1>1, <1>2 DEF FirstWords, Translations, first
<1>4. Section(line) = CASE first = "set"                         -> "options"
                        [] first \in {"scrub", "scrub-anchor"}   -> "scrub"
                        [] first = "dummynet-anchor"             -> "queue"
                        [] first \in Translations                -> "nat"
                        [] first \in {"table", "anchor", "pass"} -> "filter"
    BY DEF Section, first
<1>5. /\ Place(line) = 2 <=> first \in {"scrub", "scrub-anchor"}
      /\ Place(line) = 3 <=> first = "dummynet-anchor"
      /\ Place(line) = 4 <=> first \in Translations
      /\ Place(line) = 5 <=> first \in {"anchor", "pass"}
    BY <1>1, PlaceOfLine DEF first
<1>6. CASE first \in {"scrub", "scrub-anchor"}
    BY <1>4, <1>5, <1>6 DEF Translations
<1>7. CASE first = "dummynet-anchor"
    BY <1>4, <1>5, <1>7 DEF Translations
<1>8. CASE first \in Translations
    BY <1>4, <1>5, <1>8 DEF Translations
<1>9. CASE first \in {"anchor", "pass"}
    BY <1>4, <1>5, <1>9 DEF Translations
<1> QED
    BY <1>3, <1>6, <1>7, <1>8, <1>9

-----------------------------------------------------------------------------
(* The lines of tunshare.                                                  *)

(* A hook is a line of tunshare, and its two forms differ.                 *)
LEMMA HookLines ==
    ASSUME NEW kind \in {"scrub-anchor", "nat-anchor", "rdr-anchor", "anchor"}
    PROVE  /\ Hook(kind) \in Seq(Ours)
           /\ Len(Hook(kind)) = 2 /\ Hook(kind)[1] # Hook(kind)[2]
           /\ \A line \in Range(Hook(kind)) : line.first = kind
<1> DEFINE a == L(kind, {"com.tunshare"}, None)
           b == L(kind, {"com.tunshare", "*"}, None)
<1>1. a \in Line /\ b \in Line /\ a.first = kind /\ b.first = kind
    BY DEF Line, L, FirstWords, Words
<1>2. IsOurs(a) /\ IsOurs(b)
    BY DEF IsOurs, L
<1>3. a # b
  <2>1. "*" \in b.has /\ "*" \notin a.has
    BY DEF L
  <2> QED
    BY <2>1
<1>4. Hook(kind) = <<a, b>>
    BY DEF Hook
<1> HIDE DEF a, b
<1>5. a \in Ours /\ b \in Ours
    BY <1>1, <1>2 DEF Ours
<1> QED
    BY <1>1, <1>3, <1>4, <1>5 DEF Range

(* The hooks are lines of tunshare, and so is the one option it sets.      *)
LEMMA OwnLines ==
    /\ ScrubHooks \in Seq(Ours) /\ NatHooks \in Seq(Ours)
    /\ FilterHooks \in Seq(Ours) /\ MainHooks \in Seq(Ours)
    /\ <<Skip>> \in Seq(Ours) /\ Skip \notin Hooks /\ Place(Skip) = 1
    /\ Hooks = Range(ScrubHooks) \cup Range(NatHooks) \cup Range(FilterHooks)
    /\ \A line \in Range(ScrubHooks) : Place(line) = 2
    /\ \A line \in Range(NatHooks) : Place(line) = 4
    /\ \A line \in Range(FilterHooks) : Place(line) = 5
    /\ Hooks \subseteq Ours /\ Ours \subseteq Line
<1>1. Ours \subseteq Line
    BY DEF Ours
<1>2. Skip \in Ours /\ Skip.first = "set"
  <2>1. Skip \in Line /\ Skip.first = "set"
    BY DEF Skip, L, Line, FirstWords, Words
  <2>2. IsOurs(Skip)
    BY DEF IsOurs, Skip, L
  <2> QED
    BY <2>1, <2>2 DEF Ours
<1>3. \A kind \in {"scrub-anchor", "nat-anchor", "rdr-anchor", "anchor"} :
          /\ Hook(kind) \in Seq(Ours)
          /\ \A line \in Range(Hook(kind)) : line.first = kind
    BY HookLines
<1>4. /\ NatHooks \in Seq(Ours)
      /\ Range(NatHooks) = Range(Hook("nat-anchor")) \cup Range(Hook("rdr-anchor"))
    BY <1>3, ConcatProperties, RangeConcatenation DEF NatHooks
<1>5. ScrubHooks \in Seq(Ours) /\ FilterHooks \in Seq(Ours)
    BY <1>3 DEF ScrubHooks, FilterHooks
<1>6. /\ ScrubHooks \o NatHooks \in Seq(Ours)
      /\ Range(ScrubHooks \o NatHooks) = Range(ScrubHooks) \cup Range(NatHooks)
    BY <1>4, <1>5, ConcatProperties, RangeConcatenation
<1>7. /\ MainHooks \in Seq(Ours)
      /\ Hooks = Range(ScrubHooks) \cup Range(NatHooks) \cup Range(FilterHooks)
  <2> DEFINE front == ScrubHooks \o NatHooks
  <2>1. MainHooks = front \o FilterHooks
    BY DEF MainHooks
  <2>2. front \in Seq(Ours) /\ Range(front) = Range(ScrubHooks) \cup Range(NatHooks)
    BY <1>6
  <2> HIDE DEF front
  <2>3. /\ front \o FilterHooks \in Seq(Ours)
        /\ Range(front \o FilterHooks) = Range(front) \cup Range(FilterHooks)
    BY <1>5, <2>2, ConcatProperties, RangeConcatenation
  <2> QED
    BY <2>1, <2>2, <2>3 DEF Hooks
<1>8. Hooks \subseteq Ours
    BY <1>7, RangeOfSeq DEF Hooks
<1>9. /\ \A line \in Range(ScrubHooks) : line.first = "scrub-anchor"
      /\ \A line \in Range(NatHooks) : line.first \in {"nat-anchor", "rdr-anchor"}
      /\ \A line \in Range(FilterHooks) : line.first = "anchor"
    BY <1>3, <1>4 DEF ScrubHooks, FilterHooks
<1>10. \A line \in Hooks : line.first # "set"
    BY <1>7, <1>9
<1>11. \A line \in Ours : /\ line.first = "set" => Place(line) = 1
                          /\ line.first = "scrub-anchor" => Place(line) = 2
                          /\ line.first \in {"nat-anchor", "rdr-anchor"}
                                 => Place(line) = 4
                          /\ line.first = "anchor" => Place(line) = 5
    BY <1>1, PlaceOfLine DEF Translations
<1>12. <<Skip>> \in Seq(Ours)
    BY <1>2
<1>13. /\ \A line \in Range(ScrubHooks) : Place(line) = 2
       /\ \A line \in Range(NatHooks) : Place(line) = 4
       /\ \A line \in Range(FilterHooks) : Place(line) = 5
    BY <1>7, <1>8, <1>9, <1>11
<1>14. Skip \notin Hooks /\ Place(Skip) = 1
    BY <1>2, <1>10, <1>11
<1> QED
    BY <1>1, <1>4, <1>5, <1>7, <1>8, <1>12, <1>13, <1>14

-----------------------------------------------------------------------------
(* A file put together of blocks.                                          *)

Join(a, b, c) == a \o b \o c

(* What a sieve leaves of two sequences in a row, and what is in them.     *)
LEMMA JoinOfTwo ==
    ASSUME NEW S, NEW T
    PROVE  \A x, y \in Seq(S) :
               /\ x \o y \in Seq(S) /\ Range(x \o y) = Range(x) \cup Range(y)
               /\ Only(x \o y, T) = Only(x, T) \o Only(y, T)
BY ConcatProperties, RangeConcatenation, OnlyOfConcat

(* The same of three.                                                      *)
LEMMA OnlyOfJoin ==
    ASSUME NEW S, NEW a \in Seq(S), NEW b \in Seq(S), NEW c \in Seq(S), NEW T
    PROVE  /\ Join(a, b, c) \in Seq(S)
           /\ Range(Join(a, b, c)) = Range(a) \cup Range(b) \cup Range(c)
           /\ Only(Join(a, b, c), T) = Join(Only(a, T), Only(b, T), Only(c, T))
<1> DEFINE p == a \o b
<1>1. \A x, y \in Seq(S) :
          /\ x \o y \in Seq(S) /\ Range(x \o y) = Range(x) \cup Range(y)
          /\ Only(x \o y, T) = Only(x, T) \o Only(y, T)
    BY JoinOfTwo, Zenon
<1>2. /\ p \in Seq(S) /\ Range(p) = Range(a) \cup Range(b)
      /\ Only(p, T) = Only(a, T) \o Only(b, T)
    BY <1>1
<1> HIDE DEF p
<1>3. /\ p \o c \in Seq(S) /\ Range(p \o c) = Range(p) \cup Range(c)
      /\ Only(p \o c, T) = Only(p, T) \o Only(c, T)
    BY <1>1, <1>2
<1>4. Join(a, b, c) = p \o c
    BY DEF Join, p
<1> QED
    BY <1>2, <1>3, <1>4 DEF Join

(* What is in it.                                                          *)
LEMMA JoinMembers ==
    ASSUME NEW S, NEW a \in Seq(S), NEW b \in Seq(S), NEW c \in Seq(S)
    PROVE  /\ Join(a, b, c) \in Seq(S)
           /\ Range(Join(a, b, c)) = Range(a) \cup Range(b) \cup Range(c)
BY OnlyOfJoin

(* A block alone among empty ones is the whole.                            *)
LEMMA JoinOfOne ==
    ASSUME NEW S, NEW x \in Seq(S)
    PROVE  /\ Join(x, <<>>, <<>>) = x
           /\ Join(<<>>, <<>>, x) = x
BY ConcatEmptySeq, EmptySeq DEF Join

(* Assembling, as such a file: what a section follows after, and a section. *)
LEMMA AssembleJoins ==
    ASSUME NEW text, NEW inject \in BOOLEAN
    PROVE  LET When(hooks) == IF inject THEN hooks ELSE <<>>
               upTo2 == Join(<<Skip>>, Bucket(text, "options"), Bucket(text, "scrub"))
               upTo3 == Join(upTo2, When(ScrubHooks), Bucket(text, "queue"))
               upTo4 == Join(upTo3, When(NatHooks), Bucket(text, "nat"))
           IN  Assemble(text, inject) =
                   Join(upTo4, When(FilterHooks), Bucket(text, "filter"))
BY DEF Assemble, Join

(* A bucket holds what others have at its place, and no option is left.    *)
LEMMA BucketsAreTheirs ==
    ASSUME NEW text \in Seq(Rule)
    PROVE  /\ Bucket(text, "options") = <<>>
           /\ Bucket(text, "scrub") = Only(text, Theirs(2))
           /\ Bucket(text, "queue") = Only(text, Theirs(3))
           /\ Bucket(text, "nat") = Only(text, Theirs(4))
           /\ Bucket(text, "filter") = Only(text, Theirs(5))
<1> DEFINE In(section) == {line \in Line : Section(line) = section}
<1>1. ASSUME NEW section
      PROVE  Bucket(text, section) = Only(text, (Line \ Ours) \cap In(section))
    BY OnlyOfOnly DEF Bucket, Others
<1>2. ASSUME NEW section, NEW place, place \in 1..5,
             \A line \in Rule : Section(line) = section <=> Place(line) = place
      PROVE  Bucket(text, section) = Only(text, Theirs(place))
  <2>1. Rule \cap ((Line \ Ours) \cap In(section)) = Rule \cap Theirs(place)
    BY <1>2, PlacesOfRules DEF Theirs, At
  <2> DEFINE T == (Line \ Ours) \cap In(section)
             U == Theirs(place)
  <2>2. Rule \cap T = Rule \cap U
    BY <2>1
  <2> HIDE DEF T, U
  <2>3. Only(text, T) = Only(text, U)
    BY <2>2, OnlyAgrees
  <2> QED
    BY <1>1, <2>3 DEF T, U
<1>3. Range(text) \cap ((Line \ Ours) \cap In("options")) = {}
    BY SectionOfRule, RangeOfSeq
<1> HIDE DEF In
<1>4. Bucket(text, "options") = <<>>
    BY <1>1, <1>3, OnlyKeepsNone
<1> QED
    BY <1>2, <1>4, SectionOfRule

-----------------------------------------------------------------------------
(* What merging and stripping keep.                                        *)

(* What others have at a place is of that place, and none of it is ours.   *)
LEMMA TheirsApart ==
    /\ \A place \in 1..5 : Theirs(place) \subseteq Line /\ Theirs(place) \cap Ours = {}
    /\ \A p, q \in 1..5 : p # q => Theirs(p) \cap Theirs(q) = {}
    /\ \A place \in 1..5 : \A line \in Theirs(place) : Place(line) = place
BY DEF Theirs, At

(* Lines of tunshare are nothing of anyone else.                           *)
LEMMA OwnIsNotTheirs ==
    ASSUME NEW file \in Seq(Ours), NEW place \in 1..5
    PROVE  Only(file, Theirs(place)) = <<>> /\ file \in Seq(Line)
<1>1. Ours \cap Theirs(place) = {}
    BY TheirsApart
<1>2. Range(file) \subseteq Ours
    BY RangeOfSeq
<1>3. Only(file, Theirs(place)) = <<>>
    BY <1>1, <1>2, OnlyKeepsNone
<1>4. file \in Seq(Line)
    BY OwnLines, SeqMonotonic
<1> QED
    BY <1>3, <1>4

(* Sieving one place out of what was kept for another.                     *)
LEMMA TheirsOfTheirs ==
    ASSUME NEW text \in Seq(Line), NEW p \in 1..5, NEW q \in 1..5
    PROVE  /\ Only(text, Theirs(p)) \in Seq(Line)
           /\ Only(Only(text, Theirs(p)), Theirs(q)) =
                  IF p = q THEN Only(text, Theirs(q)) ELSE <<>>
<1>1. Only(text, Theirs(p)) \in Seq(Line)
    BY OnlyMembers
<1>2. Only(Only(text, Theirs(p)), Theirs(q)) = Only(text, Theirs(p) \cap Theirs(q))
    BY OnlyOfOnly
<1>3. CASE p = q
  <2>1. Theirs(p) \cap Theirs(q) = Theirs(q)
    BY <1>3
  <2> QED
    BY <1>1, <1>2, <1>3, <2>1
<1>4. CASE p # q
  <2>1. Theirs(p) \cap Theirs(q) = {}
    BY <1>4, TheirsApart
  <2>2. Only(text, {}) = <<>>
    BY OnlyKeepsNone
  <2> QED
    BY <1>1, <1>2, <1>4, <2>1, <2>2
<1> QED
    BY <1>3, <1>4

(* A section more: what others had at its place is what it has now.        *)
LEMMA SectionKeeps ==
    ASSUME NEW text \in Seq(Line), NEW before \in Seq(Line), NEW hooks \in Seq(Ours),
           NEW p \in 1..5, NEW place \in 1..5
    PROVE  LET file == Join(before, hooks, Only(text, Theirs(p)))
           IN  /\ file \in Seq(Line)
               /\ place # p => Only(file, Theirs(place)) = Only(before, Theirs(place))
               /\ place = p /\ Only(before, Theirs(place)) = <<>>
                      => Only(file, Theirs(place)) = Only(text, Theirs(place))
<1> DEFINE T == Theirs(place)
           section == Only(text, Theirs(p))
           file == Join(before, hooks, section)
<1>1. hooks \in Seq(Line) /\ Only(hooks, T) = <<>>
    BY OwnIsNotTheirs
<1>2. section \in Seq(Line) /\ Only(section, T) = IF p = place THEN section ELSE <<>>
    BY TheirsOfTheirs
<1>3. Only(before, T) \in Seq(Line)
    BY OnlyMembers
<1> HIDE DEF section, T
<1>4. file \in Seq(Line) /\ Only(file, T) = Join(Only(before, T), <<>>, Only(section, T))
    BY <1>1, <1>2, OnlyOfJoin
<1>5. CASE place # p
    BY <1>2, <1>3, <1>4, <1>5, JoinOfOne DEF T, section
<1>6. CASE place = p
  <2>1. Only(section, T) = section
    BY <1>2, <1>6
  <2>2. Only(before, T) = <<>> => Only(file, T) = section
    BY <1>2, <1>4, <2>1, JoinOfOne
  <2> QED
    BY <1>4, <1>6, <2>2 DEF T, section
<1> QED
    BY <1>5, <1>6

(* Assembling keeps what others have at every place, in its order.         *)
LEMMA AssembleKeeps ==
    ASSUME NEW text \in Seq(Rule), NEW inject \in BOOLEAN
    PROVE  /\ Assemble(text, inject) \in Seq(Line)
           /\ \A place \in 1..5 : Only(Assemble(text, inject), Theirs(place))
                                  = Only(text, Theirs(place))
<1> DEFINE When(hooks) == IF inject THEN hooks ELSE <<>>
           h1 == When(ScrubHooks)
           h2 == When(NatHooks)
           h3 == When(FilterHooks)
           kept(p) == Only(text, Theirs(p))
           skip == <<Skip>>
           h0 == <<>>
           f2 == Join(skip, h0, kept(2))
           f3 == Join(f2, h1, kept(3))
           f4 == Join(f3, h2, kept(4))
           f5 == Join(f4, h3, kept(5))
<1>1. h1 \in Seq(Ours) /\ h2 \in Seq(Ours) /\ h3 \in Seq(Ours)
    BY OwnLines, EmptySeq
<1>2. Assemble(text, inject) = f5
    BY AssembleJoins, BucketsAreTheirs
<1>3. text \in Seq(Line)
    BY PlacesOfRules, SeqMonotonic
<1>4. /\ skip \in Seq(Line)
      /\ \A place \in 1..5 : Only(skip, Theirs(place)) = <<>>
  <2>1. skip \in Seq(Ours)
    BY OwnLines
  <2> HIDE DEF skip
  <2> QED
    BY <2>1, OwnIsNotTheirs, SeqMonotonic, OwnLines
<1>5. kept(1) = <<>>
  <2>1. Rule \cap Theirs(1) = {}
    BY PlacesOfRules DEF Theirs, At
  <2>2. Range(text) \subseteq Rule
    BY RangeOfSeq
  <2> QED
    BY <2>1, <2>2, OnlyKeepsNone
<1>11. h0 \in Seq(Ours)
    BY EmptySeq
<1> HIDE DEF h0, h1, h2, h3, skip
<1>6. /\ f2 \in Seq(Line)
      /\ \A place \in 1..5 : Only(f2, Theirs(place)) =
                                 IF place = 2 THEN kept(2) ELSE <<>>
    BY <1>3, <1>4, <1>11, SectionKeeps
<1> HIDE DEF f2
<1>7. /\ f3 \in Seq(Line)
      /\ \A place \in 1..5 : Only(f3, Theirs(place)) =
                                 IF place \in 2..3 THEN kept(place) ELSE <<>>
    BY <1>1, <1>3, <1>6, SectionKeeps
<1> HIDE DEF f3
<1>8. /\ f4 \in Seq(Line)
      /\ \A place \in 1..5 : Only(f4, Theirs(place)) =
                                 IF place \in 2..4 THEN kept(place) ELSE <<>>
    BY <1>1, <1>3, <1>7, SectionKeeps
<1> HIDE DEF f4
<1>9. /\ f5 \in Seq(Line)
      /\ \A place \in 1..5 : Only(f5, Theirs(place)) =
                                 IF place \in 2..5 THEN kept(place) ELSE <<>>
    BY <1>1, <1>3, <1>8, SectionKeeps
<1> HIDE DEF f5, kept
<1>10. \A place \in 1..5 : place \in 2..5 \/ place = 1
    OBVIOUS
<1> QED
    BY <1>2, <1>5, <1>9, <1>10 DEF kept

(* A text of which nothing is left has nothing of others at any place.     *)
LEMMA OthersByPlace ==
    ASSUME NEW text \in Seq(Line), NEW place \in 1..5
    PROVE  Only(Others(text), At(place)) = Only(text, Theirs(place))
<1>1. (Line \ Ours) \cap At(place) = Theirs(place)
    BY DEF Theirs, At
<1> QED
    BY <1>1, OnlyOfOnly DEF Others

(* Merging keeps what others have at every place, in its order.            *)
LEMMA MergeKeeps ==
    ASSUME NEW text \in Seq(Rule)
    PROVE  /\ MergeMain(text) \in Seq(Line)
           /\ \A place \in 1..5 : Only(MergeMain(text), Theirs(place))
                                  = Only(text, Theirs(place))
<1>1. CASE RemainingMainIsEmpty(text)
  <2> DEFINE file == <<Skip>> \o MainHooks
  <2>1. file \in Seq(Ours)
    BY OwnLines, ConcatProperties
  <2>2. MergeMain(text) = file
    BY <1>1 DEF MergeMain
  <2> HIDE DEF file
  <2>3. file \in Seq(Line) /\ \A place \in 1..5 : Only(file, Theirs(place)) = <<>>
    BY <2>1, OwnIsNotTheirs, SeqMonotonic, OwnLines
  <2>4. text \in Seq(Line)
    BY PlacesOfRules, SeqMonotonic
  <2>5. ASSUME NEW place \in 1..5 PROVE Only(text, Theirs(place)) = <<>>
    <3>1. Only(Others(text), At(place)) = Only(text, Theirs(place))
      BY <2>4, OthersByPlace
    <3> QED
      BY <1>1, <3>1, OnlyOfEmpty DEF RemainingMainIsEmpty
  <2> QED
    BY <2>2, <2>3, <2>5
<1>2. CASE ~RemainingMainIsEmpty(text)
    BY <1>2, AssembleKeeps DEF MergeMain
<1> QED
    BY <1>1, <1>2

(* Stripping keeps it too.                                                 *)
LEMMA StripKeeps ==
    ASSUME NEW text \in Seq(Rule)
    PROVE  /\ Others(text) \in Seq(Rule \ Ours)
           /\ OrderMain(Others(text)) \in Seq(Line)
           /\ \A place \in 1..5 : Only(OrderMain(Others(text)), Theirs(place))
                                  = Only(text, Theirs(place))
<1>1. Others(text) \in Seq(Rule \ Ours)
  <2>1. Rule \cap (Line \ Ours) = Rule \ Ours
    BY PlacesOfRules
  <2> QED
    BY <2>1, OnlyTyped DEF Others
<1>2. Others(text) \in Seq(Rule)
    BY <1>1, SeqMonotonic
<1>3. \A place \in 1..5 : Only(OrderMain(Others(text)), Theirs(place))
                          = Only(Others(text), Theirs(place))
    BY <1>2, AssembleKeeps DEF OrderMain
<1>4. ASSUME NEW place \in 1..5
      PROVE  Only(Others(text), Theirs(place)) = Only(text, Theirs(place))
  <2>1. (Line \ Ours) \cap Theirs(place) = Theirs(place)
    BY TheirsApart
  <2> QED
    BY <2>1, OnlyOfOnly DEF Others
<1> QED
    BY <1>1, <1>2, <1>3, <1>4, AssembleKeeps DEF OrderMain

-----------------------------------------------------------------------------
(* What is loaded stands.                                                  *)

\* MergeStands, of a file.
Stands(file) ==
    /\ InOrder(file)
    /\ \A i, k \in DOMAIN file :
          file[i] \in Hooks =>
              /\ file[i] = file[k] => i = k
              /\ /\ Place(file[i]) = Place(file[k])
                 /\ Place(file[i]) > 3
                 /\ ~IsOurs(file[k])
                 => i < k

\* What may stand before what.
Fits(X, Y) == \A x \in X, y \in Y :
    /\ Place(x) <= Place(y)
    /\ x \in Hooks => x # y
    /\ y \in Hooks /\ Place(x) = Place(y) /\ Place(y) > 3 => IsOurs(x)

(* Two files that stand and fit make one that stands.                      *)
LEMMA TwoStand ==
    ASSUME NEW a \in Seq(Line), NEW b \in Seq(Line), Stands(a), Stands(b),
           Fits(Range(a), Range(b))
    PROVE  Stands(a \o b)
<1> DEFINE f == a \o b
           m == Len(a)
           n == Len(b)
<1>1. /\ m \in Nat /\ n \in Nat /\ DOMAIN a = 1..m /\ DOMAIN b = 1..n
      /\ f \in Seq(Line) /\ Len(f) = m + n /\ DOMAIN f = 1..m + n
      /\ \A i \in 1..m + n : f[i] = IF i <= m THEN a[i] ELSE b[i - m]
    BY ConcatProperties, LenProperties
<1>2. \A i \in 1..m : Place(a[i]) \in 1..5
    BY <1>1, PlaceOfLine, ElementOfSeq
<1>3. \A k \in 1..n : Place(b[k]) \in 1..5
    BY <1>1, PlaceOfLine, ElementOfSeq
<1>4. \A i \in 1..m, k \in 1..n :
          /\ Place(a[i]) <= Place(b[k])
          /\ a[i] \in Hooks => a[i] # b[k]
          /\ b[k] \in Hooks /\ Place(a[i]) = Place(b[k]) /\ Place(b[k]) > 3
                 => IsOurs(a[i])
  <2>1. \A i \in 1..m : a[i] \in Range(a)
    BY <1>1 DEF Range
  <2>2. \A k \in 1..n : b[k] \in Range(b)
    BY <1>1 DEF Range
  <2> QED
    BY <2>1, <2>2 DEF Fits
<1> HIDE DEF f, m, n
<1>5. ASSUME NEW i \in 1..m + n, NEW k \in 1..m + n
      PROVE  /\ i < k => Place(f[i]) <= Place(f[k])
             /\ f[i] \in Hooks =>
                    /\ f[i] = f[k] => i = k
                    /\ /\ Place(f[i]) = Place(f[k])
                       /\ Place(f[i]) > 3
                       /\ ~IsOurs(f[k])
                       => i < k
  <2>1. CASE i <= m /\ k <= m
    <3>1. i \in 1..m /\ k \in 1..m /\ f[i] = a[i] /\ f[k] = a[k]
      BY <1>1, <2>1
    <3> QED
      BY <1>1, <3>1 DEF Stands, InOrder
  <2>2. CASE i <= m /\ ~(k <= m)
    <3>1. i \in 1..m /\ k - m \in 1..n /\ f[i] = a[i] /\ f[k] = b[k - m] /\ i < k
      BY <1>1, <2>2
    <3> QED
      BY <1>4, <3>1
  <2>3. CASE ~(i <= m) /\ k <= m
    <3>1. k \in 1..m /\ i - m \in 1..n /\ f[k] = a[k] /\ f[i] = b[i - m] /\ ~(i < k)
      BY <1>1, <2>3
    <3>2. a[k] = b[i - m] => a[k] \notin Hooks
      BY <1>4, <3>1
    <3> QED
      BY <1>4, <3>1, <3>2
  <2>4. CASE ~(i <= m) /\ ~(k <= m)
    <3> DEFINE x == i - m
               y == k - m
    <3>1. /\ x \in 1..n /\ y \in 1..n /\ f[i] = b[x] /\ f[k] = b[y]
          /\ i < k <=> x < y
          /\ i = k <=> x = y
      BY <1>1, <2>4
    <3> HIDE DEF x, y
    <3> QED
      BY <1>1, <3>1 DEF Stands, InOrder
  <2> QED
    BY <2>1, <2>2, <2>3, <2>4
<1> QED
    BY <1>1, <1>5 DEF Stands, InOrder, f

(* And three.                                                              *)
LEMMA ThreeStand ==
    ASSUME NEW a \in Seq(Line), NEW b \in Seq(Line), NEW c \in Seq(Line),
           Stands(a), Stands(b), Stands(c), Fits(Range(a), Range(b)),
           Fits(Range(a), Range(c)), Fits(Range(b), Range(c))
    PROVE  Stands(Join(a, b, c))
<1> DEFINE p == a \o b
<1>1. p \in Seq(Line) /\ Range(p) = Range(a) \cup Range(b)
    BY ConcatProperties, RangeConcatenation
<1>2. Stands(p)
    BY TwoStand
<1> HIDE DEF p
<1>3. Fits(Range(p), Range(c))
    BY <1>1 DEF Fits
<1>4. Stands(p \o c)
    BY <1>1, <1>2, <1>3, TwoStand
<1> QED
    BY <1>4 DEF p, Join

(* Lines of one place that are no hooks stand, and so does nothing at all. *)
LEMMA PlainStands ==
    ASSUME NEW file \in Seq(Line), Range(file) \cap Hooks = {},
           \A x, y \in Range(file) : Place(x) = Place(y)
    PROVE  Stands(file)
<1>1. \A i \in DOMAIN file : file[i] \in Range(file) /\ Place(file[i]) \in 1..5
    BY PlaceOfLine, RangeOfSeq DEF Range
<1> QED
    BY <1>1 DEF Stands, InOrder

(* The hooks of a section stand.                                           *)
LEMMA HooksStand == Stands(ScrubHooks) /\ Stands(NatHooks) /\ Stands(FilterHooks)
<1>1. ASSUME NEW kind \in {"scrub-anchor", "nat-anchor", "rdr-anchor", "anchor"}
      PROVE  Stands(Hook(kind)) /\ Hook(kind) \in Seq(Line)
  <2> DEFINE f == Hook(kind)
  <2>1. /\ f \in Seq(Ours) /\ Len(f) = 2 /\ f[1] # f[2]
        /\ \A line \in Range(f) : line.first = kind
    BY HookLines
  <2> HIDE DEF f
  <2>2. DOMAIN f = 1..2 /\ f \in Seq(Line) /\ f[1] \in Ours /\ f[2] \in Ours
    <3>1. DOMAIN f = 1..2 /\ f[1] \in Ours /\ f[2] \in Ours
      BY <2>1, LenProperties, ElementOfSeq
    <3>2. f \in Seq(Line)
      BY <2>1, OwnLines, SeqMonotonic
    <3> QED
      BY <3>1, <3>2
  <2>3. \A i \in 1..2 : /\ f[i] \in Line /\ f[i].first = kind /\ IsOurs(f[i])
    BY <2>1, <2>2 DEF Range, Ours
  <2>4. Place(f[1]) = Place(f[2]) /\ Place(f[1]) \in 1..5
    BY <2>3 DEF Place, Translations
  <2>5. \A i \in 1..2 : i = 1 \/ i = 2
    OBVIOUS
  <2>6. Stands(f)
    BY <2>1, <2>2, <2>3, <2>4, <2>5 DEF Stands, InOrder
  <2> QED
    BY <2>2, <2>6 DEF f
<1>2. Fits(Range(Hook("nat-anchor")), Range(Hook("rdr-anchor")))
  <2>1. /\ \A x \in Range(Hook("nat-anchor")) : x \in Ours /\ x.first = "nat-anchor"
        /\ \A x \in Range(Hook("rdr-anchor")) : x \in Ours /\ x.first = "rdr-anchor"
    BY HookLines, RangeOfSeq
  <2>2. \A x \in Ours : IsOurs(x) /\ x \in Line
    BY DEF Ours
  <2>3. \A x \in Ours : x.first \in {"nat-anchor", "rdr-anchor"} => Place(x) = 4
    BY <2>2, PlaceOfLine DEF Translations
  <2> QED
    BY <2>1, <2>2, <2>3 DEF Fits
<1>3. Stands(NatHooks)
    BY <1>1, <1>2, TwoStand DEF NatHooks
<1> QED
    BY <1>1, <1>3 DEF ScrubHooks, FilterHooks

\* A file that hooks of place q may follow; lines that are all of it.
Ready(file, q) == \A x \in Range(file) :
    Place(x) \in 1..5 /\ (Place(x) < q \/ (Place(x) = 2 /\ q = 2 /\ x \notin Hooks))
AllAt(file, q) == \A x \in Range(file) : Place(x) = q
Below(file, p) == \A x \in Range(file) : Place(x) \in 1..p

(* A section more, with the hooks before it.                               *)
LEMMA SectionStands ==
    ASSUME NEW text \in Seq(Line), NEW before \in Seq(Line), NEW hooks \in Seq(Ours),
           NEW p \in 1..5, NEW q \in 1..p, Stands(before), Stands(hooks),
           AllAt(hooks, q), Ready(before, q), q < p \/ q > 3
    PROVE  LET file == Join(before, hooks, Only(text, Theirs(p)))
           IN  /\ file \in Seq(Line) /\ Stands(file)
               /\ Below(file, p)
               /\ Range(file) = Range(before) \cup Range(hooks)
                                    \cup (Range(text) \cap Theirs(p))
<1> DEFINE section == Only(text, Theirs(p))
<1>1. section \in Seq(Line) /\ Range(section) = Range(text) \cap Theirs(p)
    BY OnlyMembers
<1>2. /\ \A x \in Theirs(p) : x \in Line /\ Place(x) = p /\ x \notin Ours
      /\ Hooks \subseteq Ours /\ p \in 1..5
    BY TheirsApart, OwnLines
<1>3. /\ hooks \in Seq(Line) /\ Range(hooks) \subseteq Ours
      /\ \A x \in Ours : x \in Line /\ IsOurs(x)
    BY OwnIsNotTheirs, RangeOfSeq DEF Ours
<1>4. /\ \A x \in Range(hooks) : Place(x) = q
      /\ \A x \in Range(before) :
             /\ Place(x) \in 1..5
             /\ Place(x) < q \/ (Place(x) = 2 /\ q = 2 /\ x \notin Hooks)
    BY DEF AllAt, Ready
<1> HIDE DEF section
<1>5. Stands(section)
    BY <1>1, <1>2, PlainStands
<1>6. Fits(Range(before), Range(hooks))
    BY <1>4 DEF Fits
<1>7. Fits(Range(before), Range(section))
    BY <1>1, <1>2, <1>4 DEF Fits
<1>8. Fits(Range(hooks), Range(section))
    BY <1>1, <1>2, <1>3, <1>4 DEF Fits
<1>9. Stands(Join(before, hooks, section))
    BY <1>1, <1>3, <1>5, <1>6, <1>7, <1>8, ThreeStand
<1>10. /\ Join(before, hooks, section) \in Seq(Line)
       /\ Range(Join(before, hooks, section)) =
              Range(before) \cup Range(hooks) \cup Range(section)
    BY <1>1, <1>3, JoinMembers
<1>11. ASSUME NEW x \in Range(before) \cup Range(hooks) \cup Range(section)
       PROVE  Place(x) \in 1..p
  <2>1. CASE x \in Range(before)
    BY <1>4, <2>1
  <2>2. CASE x \in Range(hooks)
    BY <1>4, <2>2
  <2>3. CASE x \in Range(section)
    BY <1>1, <1>2, <2>3
  <2> QED
    BY <2>1, <2>2, <2>3
<1>12. Below(Join(before, hooks, section), p)
    BY <1>10, <1>11 DEF Below
<1> QED
    BY <1>1, <1>9, <1>10, <1>12 DEF section

(* Whatever is assembled stands; what is in it.                            *)
LEMMA AssembleStands ==
    ASSUME NEW text \in Seq(Rule), NEW inject \in BOOLEAN
    PROVE  /\ Stands(Assemble(text, inject))
           /\ Range(Assemble(text, inject)) \subseteq
                  {Skip} \cup (IF inject THEN Hooks ELSE {}) \cup (Line \ Ours)
           /\ inject => Hooks \subseteq Range(Assemble(text, inject))
<1> DEFINE When(hooks) == IF inject THEN hooks ELSE <<>>
           skip == <<Skip>>
           h0 == <<>>
           h1 == When(ScrubHooks)
           h2 == When(NatHooks)
           h3 == When(FilterHooks)
           kept(p) == Only(text, Theirs(p))
           f2 == Join(skip, h0, kept(2))
           f3 == Join(f2, h1, kept(3))
           f4 == Join(f3, h2, kept(4))
           f5 == Join(f4, h3, kept(5))
<1>1. /\ h0 \in Seq(Ours) /\ h1 \in Seq(Ours) /\ h2 \in Seq(Ours) /\ h3 \in Seq(Ours)
      /\ Range(h0) = {}
    BY OwnLines, EmptySeq DEF Range
<1>2. Assemble(text, inject) = f5
    BY AssembleJoins, BucketsAreTheirs
<1>3. text \in Seq(Line)
    BY PlacesOfRules, SeqMonotonic
<1>4. /\ skip \in Seq(Line) /\ Range(skip) = {Skip}
      /\ Skip \notin Hooks /\ Place(Skip) = 1
  <2>1. skip \in Seq(Line)
    BY OwnLines, SeqMonotonic
  <2>2. Range(skip) = {Skip}
    BY DEF Range
  <2> QED
    BY <2>1, <2>2, OwnLines
<1>5. /\ Stands(h0) /\ Stands(h1) /\ Stands(h2) /\ Stands(h3)
      /\ \A x \in Range(h0) : Place(x) = 2
      /\ \A x \in Range(h1) : Place(x) = 2
      /\ \A x \in Range(h2) : Place(x) = 4
      /\ \A x \in Range(h3) : Place(x) = 5
  <2>1. Range(<<>>) = {} /\ <<>> \in Seq(Line)
    BY EmptySeq DEF Range
  <2>2. Stands(<<>>)
    BY <2>1, PlainStands
  <2> QED
    BY <2>1, <2>2, HooksStand, OwnLines
<1>6. IF inject THEN Range(h1) \cup Range(h2) \cup Range(h3) = Hooks
      ELSE Range(h1) \cup Range(h2) \cup Range(h3) = {}
  <2>1. Range(<<>>) = {}
    BY EmptySeq DEF Range
  <2> QED
    BY <2>1, OwnLines
<1> HIDE DEF h0, h1, h2, h3, skip
<1>7. Stands(skip)
    BY <1>4, PlainStands
<1>8. Ready(skip, 2) /\ AllAt(h0, 2) /\ AllAt(h1, 2) /\ AllAt(h2, 4) /\ AllAt(h3, 5)
    BY <1>4, <1>5 DEF Ready, AllAt
<1>9. /\ f2 \in Seq(Line) /\ Stands(f2) /\ Ready(f2, 2)
      /\ Range(f2) = {Skip} \cup (Range(text) \cap Theirs(2))
  <2>1. /\ f2 \in Seq(Line) /\ Stands(f2)
        /\ Range(f2) = Range(skip) \cup Range(h0) \cup (Range(text) \cap Theirs(2))
    <3> DEFINE section == Only(text, Theirs(2))
    <3>1. section \in Seq(Line) /\ Range(section) = Range(text) \cap Theirs(2)
      BY <1>3, OnlyMembers
    <3>2. \A x \in Theirs(2) : Place(x) = 2 /\ x \notin Hooks
      BY TheirsApart, OwnLines
    <3> HIDE DEF section
    <3>3. Stands(section)
      BY <3>1, <3>2, PlainStands
    <3>4. /\ Fits(Range(skip), Range(h0)) /\ Fits(Range(h0), Range(section))
          /\ Fits(Range(skip), Range(section))
      BY <1>1, <1>4, <3>1, <3>2 DEF Fits
    <3>5. h0 \in Seq(Line)
      BY <1>1, OwnIsNotTheirs
    <3> QED
      <4>1. Stands(Join(skip, h0, section))
        BY <1>4, <1>5, <1>7, <3>1, <3>3, <3>4, <3>5, ThreeStand
      <4>2. /\ Join(skip, h0, section) \in Seq(Line)
            /\ Range(Join(skip, h0, section)) = Range(skip) \cup Range(h0)
                                                \cup Range(section)
        BY <1>4, <3>1, <3>5, JoinMembers
      <4> QED
        BY <3>1, <4>1, <4>2 DEF section
  <2>2. \A x \in Theirs(2) : Place(x) = 2 /\ x \notin Hooks
    BY TheirsApart, OwnLines
  <2> HIDE DEF f2
  <2> QED
    BY <1>1, <1>4, <2>1, <2>2 DEF Ready
<1> HIDE DEF f2
<1> HIDE DEF h0, h1, h2, h3
<1>10. /\ f3 \in Seq(Line) /\ Stands(f3) /\ Ready(f3, 4)
       /\ Range(f3) = Range(f2) \cup Range(h1) \cup (Range(text) \cap Theirs(3))
  <2>0. /\ f2 \in Seq(Line) /\ Stands(f2) /\ Ready(f2, 2)
        /\ h1 \in Seq(Ours) /\ Stands(h1) /\ AllAt(h1, 2)
        /\ 3 \in 1..5 /\ 2 \in 1..3 /\ (2 < 3 \/ 2 > 3)
    BY <1>1, <1>5, <1>8, <1>9
  <2>1. /\ f3 \in Seq(Line) /\ Stands(f3) /\ Below(f3, 3)
        /\ Range(f3) = Range(f2) \cup Range(h1) \cup (Range(text) \cap Theirs(3))
    BY <1>3, <2>0, SectionStands
  <2> HIDE DEF f3
  <2> QED
    BY <2>1 DEF Below, Ready
<1> HIDE DEF f3
<1>11. /\ f4 \in Seq(Line) /\ Stands(f4) /\ Ready(f4, 5)
       /\ Range(f4) = Range(f3) \cup Range(h2) \cup (Range(text) \cap Theirs(4))
  <2>0. /\ f3 \in Seq(Line) /\ Stands(f3) /\ Ready(f3, 4)
        /\ h2 \in Seq(Ours) /\ Stands(h2) /\ AllAt(h2, 4)
        /\ 4 \in 1..5 /\ 4 \in 1..4 /\ (4 < 4 \/ 4 > 3)
    BY <1>1, <1>5, <1>8, <1>10
  <2>1. /\ f4 \in Seq(Line) /\ Stands(f4) /\ Below(f4, 4)
        /\ Range(f4) = Range(f3) \cup Range(h2) \cup (Range(text) \cap Theirs(4))
    BY <1>3, <2>0, SectionStands
  <2> HIDE DEF f4
  <2> QED
    BY <2>1 DEF Below, Ready
<1> HIDE DEF f4
<1>12. /\ f5 \in Seq(Line) /\ Stands(f5)
       /\ Range(f5) = Range(f4) \cup Range(h3) \cup (Range(text) \cap Theirs(5))
    BY <1>1, <1>3, <1>5, <1>8, <1>11, SectionStands, 5 \in 1..5
<1>13. \A p \in 1..5 : Theirs(p) \subseteq Line \ Ours
    BY TheirsApart
<1> HIDE DEF f5
<1>14. Range(f5) \subseteq {Skip} \cup (Range(h1) \cup Range(h2) \cup Range(h3))
                               \cup (Line \ Ours)
    BY <1>9, <1>10, <1>11, <1>12, <1>13
<1>15. Range(h1) \cup Range(h2) \cup Range(h3) \subseteq Range(f5)
    BY <1>10, <1>11, <1>12
<1> QED
    BY <1>2, <1>6, <1>12, <1>14, <1>15

(* What a restore writes stands, and has all the hooks.                    *)
LEMMA MergedStands ==
    ASSUME NEW text \in Seq(Rule)
    PROVE  Stands(MergeMain(text)) /\ Hooks \subseteq Range(MergeMain(text))
<1>1. CASE RemainingMainIsEmpty(text)
  <2> DEFINE skip == <<Skip>>
  <2>1. /\ skip \in Seq(Line) /\ Range(skip) = {Skip}
        /\ Skip \notin Hooks /\ Place(Skip) = 1
    <3>1. skip \in Seq(Line)
      BY OwnLines, SeqMonotonic
    <3>2. Range(skip) = {Skip}
      BY DEF Range
    <3> QED
      BY <3>1, <3>2, OwnLines
  <2>2. /\ ScrubHooks \in Seq(Line) /\ NatHooks \in Seq(Line)
        /\ FilterHooks \in Seq(Line) /\ MainHooks \in Seq(Line)
    BY OwnLines, OwnIsNotTheirs
  <2> HIDE DEF skip
  <2>3. Stands(skip)
    BY <2>1, PlainStands
  <2>4. /\ \A x \in Range(ScrubHooks) : Place(x) = 2
        /\ \A x \in Range(NatHooks) : Place(x) = 4
        /\ \A x \in Range(FilterHooks) : Place(x) = 5
    BY OwnLines
  <2>5. /\ Fits(Range(ScrubHooks), Range(NatHooks))
        /\ Fits(Range(ScrubHooks), Range(FilterHooks))
        /\ Fits(Range(NatHooks), Range(FilterHooks))
    BY <2>4 DEF Fits
  <2>6. Stands(Join(ScrubHooks, NatHooks, FilterHooks))
    BY <2>2, <2>5, HooksStand, ThreeStand
  <2>7. Stands(MainHooks)
    BY <2>6 DEF Join, MainHooks
  <2>8. \A x \in Hooks : Place(x) > 1 /\ Place(x) \in Nat
    BY <2>4, OwnLines
  <2>9. Fits(Range(skip), Range(MainHooks))
    BY <2>1, <2>8 DEF Fits, Hooks
  <2>10. Stands(skip \o MainHooks)
    BY <2>1, <2>2, <2>3, <2>7, <2>9, TwoStand
  <2>11. Range(skip \o MainHooks) = Range(skip) \cup Range(MainHooks)
    BY <2>1, <2>2, RangeConcatenation
  <2> QED
    BY <1>1, <2>10, <2>11 DEF MergeMain, skip, Hooks
<1>2. CASE ~RemainingMainIsEmpty(text)
    BY <1>2, AssembleStands DEF MergeMain
<1> QED
    BY <1>1, <1>2

(* What a cleanup writes stands, and once it is loaded nothing is ours.    *)
LEMMA StrippedStands ==
    ASSUME NEW text \in Seq(Rule)
    PROVE  /\ Stands(OrderMain(Others(text)))
           /\ Range(Loaded(OrderMain(Others(text)))) \cap Ours = {}
<1> DEFINE rest == Others(text)
           file == OrderMain(rest)
<1>1. rest \in Seq(Rule) /\ file \in Seq(Line)
  <2>1. rest \in Seq(Rule \ Ours) /\ file \in Seq(Line)
    BY StripKeeps
  <2> QED
    BY <2>1, SeqMonotonic
<1> HIDE DEF rest
<1>2. Stands(file) /\ Range(file) \subseteq {Skip} \cup (Line \ Ours)
  <2>1. file = Assemble(rest, FALSE)
    BY DEF OrderMain
  <2> HIDE DEF file
  <2>2. /\ Stands(Assemble(rest, FALSE))
        /\ Range(Assemble(rest, FALSE)) \subseteq {Skip} \cup {} \cup (Line \ Ours)
    BY <1>1, AssembleStands
  <2> QED
    BY <2>1, <2>2
<1> HIDE DEF file
<1>3. Range(Loaded(file)) = Range(file) \cap Rule
    BY <1>1, OnlyMembers DEF Loaded
<1>4. Skip \notin Rule
    BY OwnLines, PlacesOfRules
<1> QED
    BY <1>2, <1>3, <1>4 DEF file, rest

-----------------------------------------------------------------------------
(* What pf and other programs do to a place.                               *)

(* pfctl -sn shows the translations, pfctl -sr the other rules.            *)
LEMMA ShownByPlace ==
    ASSUME NEW rules \in Seq(Rule), NEW place \in 1..5, NEW U, U \subseteq At(place)
    PROVE  /\ ShowNat(rules) \in Seq(Rule) /\ ShowRules(rules) \in Seq(Rule)
           /\ Only(ShowNat(rules), U) = IF place = 4 THEN Only(rules, U) ELSE <<>>
           /\ Only(ShowRules(rules), U) = IF place = 4 THEN <<>> ELSE Only(rules, U)
<1> DEFINE nat == Of(Translations)
           rest == Rule \ Of(Translations)
<1>1. ShowNat(rules) \in Seq(Rule) /\ ShowRules(rules) \in Seq(Rule)
    BY OnlyMembers DEF ShowNat, ShowRules
<1>2. /\ Only(ShowNat(rules), U) = Only(rules, nat \cap U)
      /\ Only(ShowRules(rules), U) = Only(rules, rest \cap U)
    BY OnlyOfOnly DEF ShowNat, ShowRules
<1>3. /\ \A line \in Rule : line \in U => Place(line) = place
      /\ nat = At(4)
    BY PlacesOfRules DEF At
<1>4. \A line \in Rule : line \in nat <=> Place(line) = 4
    BY <1>3, PlacesOfRules DEF At
<1> HIDE DEF nat
<1>5. /\ Rule \cap (nat \cap U) = Rule \cap (IF place = 4 THEN U ELSE {})
      /\ Rule \cap (rest \cap U) = Rule \cap (IF place = 4 THEN {} ELSE U)
    BY <1>3, <1>4 DEF nat
<1> HIDE DEF rest
<1>6. /\ Only(rules, nat \cap U) = Only(rules, IF place = 4 THEN U ELSE {})
      /\ Only(rules, rest \cap U) = Only(rules, IF place = 4 THEN {} ELSE U)
    BY <1>5, OnlyAgrees
<1>7. Only(rules, {}) = <<>>
    BY OnlyKeepsNone
<1> QED
    BY <1>1, <1>2, <1>6, <1>7

(* What is loaded is the rules of the file, at every place but the first.  *)
LEMMA LoadedByPlace ==
    ASSUME NEW file \in Seq(Line), NEW place \in 1..5, NEW U, U \subseteq At(place)
    PROVE  /\ Loaded(file) \in Seq(Rule)
           /\ Only(Loaded(file), U) = IF place = 1 THEN <<>> ELSE Only(file, U)
<1>1. Loaded(file) \in Seq(Rule)
  <2>1. Line \cap Rule = Rule
    BY PlacesOfRules
  <2> QED
    BY <2>1, OnlyTyped DEF Loaded
<1>2. Only(Loaded(file), U) = Only(file, Rule \cap U)
    BY OnlyOfOnly DEF Loaded
<1>3. Line \cap (Rule \cap U) = Line \cap (IF place = 1 THEN {} ELSE U)
    BY PlacesOfRules DEF At
<1>4. Only(file, Rule \cap U) = Only(file, IF place = 1 THEN {} ELSE U)
    BY <1>3, OnlyAgrees
<1>5. Only(file, {}) = <<>>
    BY OnlyKeepsNone
<1> QED
    BY <1>1, <1>2, <1>4, <1>5

(* A rule that is added is the last of its place.                          *)
LEMMA AddedByPlace ==
    ASSUME NEW rules \in Seq(Rule), NEW line \in Rule, NEW place \in 1..5,
           NEW U, U \subseteq At(place)
    PROVE  /\ Added(rules, line) \in Seq(Rule)
           /\ Only(Added(rules, line), U) =
                  IF line \in U THEN Only(rules, U) \o <<line>> ELSE Only(rules, U)
<1> DEFINE behind == {l \in Line : Place(l) > Place(line)}
           a == Only(rules, Line \ behind)
           b == <<line>>
           c == Only(rules, behind)
<1>1. a \in Seq(Rule) /\ b \in Seq(Rule) /\ c \in Seq(Rule)
    BY OnlyMembers
<1>2. /\ Only(a, U) = Only(rules, (Line \ behind) \cap U)
      /\ Only(c, U) = Only(rules, behind \cap U)
    BY OnlyOfOnly
<1>3. Only(b, U) = IF line \in U THEN b ELSE <<>>
  <2>1. Range(b) = {line}
    BY DEF Range
  <2> HIDE DEF b
  <2>2. line \in U => Only(b, U) = b
    BY <1>1, <2>1, OnlyKeepsAll
  <2>3. line \notin U => Only(b, U) = <<>>
    BY <1>1, <2>1, OnlyKeepsNone
  <2> QED
    BY <2>2, <2>3
<1>4. Added(rules, line) = Join(a, b, c)
    BY DEF Added, Join
<1>5. \A l \in U : l \in Line /\ Place(l) = place
    BY DEF At
<1>6. Place(line) \in 1..5
    BY PlaceOfLine, PlacesOfRules
<1>7. Only(rules, {}) = <<>> /\ Only(rules, U) \in Seq(Rule) /\ <<>> \in Seq(Rule)
    BY OnlyKeepsNone, OnlyMembers, EmptySeq
<1>8. CASE place <= Place(line)
  <2>1. (Line \ behind) \cap U = U /\ behind \cap U = {}
    BY <1>5, <1>6, <1>8
  <2>2. Only(a, U) = Only(rules, U) /\ Only(c, U) = <<>>
    BY <1>2, <1>7, <2>1
  <2> HIDE DEF a, b, c
  <2>3. /\ Join(a, b, c) \in Seq(Rule)
        /\ Only(Join(a, b, c), U) = Join(Only(a, U), Only(b, U), Only(c, U))
    BY <1>1, OnlyOfJoin
  <2>4. CASE line \in U
    <3>1. /\ Only(Join(a, b, c), U) = Only(rules, U) \o b \o <<>>
          /\ Only(rules, U) \o b \in Seq(Rule)
      BY <1>1, <1>3, <1>7, <2>2, <2>3, <2>4, ConcatProperties DEF Join
    <3> QED
      BY <1>4, <2>3, <2>4, <3>1, ConcatEmptySeq DEF b
  <2>5. CASE line \notin U
    BY <1>3, <1>4, <1>7, <2>2, <2>3, <2>5, JoinOfOne
  <2> QED
    BY <2>4, <2>5
<1>9. CASE ~(place <= Place(line))
  <2>1. (Line \ behind) \cap U = {} /\ behind \cap U = U
    BY <1>5, <1>6, <1>9
  <2>2. Only(a, U) = <<>> /\ Only(c, U) = Only(rules, U)
    BY <1>2, <1>7, <2>1
  <2>3. line \notin U
    BY <1>5, <1>9
  <2> HIDE DEF a, b, c
  <2>4. /\ Join(a, b, c) \in Seq(Rule)
        /\ Only(Join(a, b, c), U) = Join(Only(a, U), Only(b, U), Only(c, U))
    BY <1>1, OnlyOfJoin
  <2> QED
    BY <1>3, <1>4, <1>7, <2>2, <2>3, <2>4, JoinOfOne
<1> QED
    BY <1>8, <1>9, <1>6

(* Without a rule at any place there is none.                              *)
LEMMA EmptyByPlace ==
    ASSUME NEW text \in Seq(Line), \A place \in 1..5 : Only(text, At(place)) = <<>>
    PROVE  text = <<>>
<1>1. ASSUME NEW line \in Range(text) PROVE FALSE
  <2>1. line \in Line
    BY RangeOfSeq
  <2>2. PICK place \in 1..5 : line \in At(place)
    BY <2>1, PlaceOfLine DEF At
  <2>3. Range(Only(text, At(place))) = Range(text) \cap At(place)
    BY OnlyMembers
  <2>4. Range(<<>>) = {}
    BY EmptySeq DEF Range
  <2> QED
    BY <2>2, <2>3, <2>4
<1>2. Len(text) \in Nat /\ DOMAIN text = 1..Len(text)
    BY LenProperties
<1>3. ASSUME Len(text) # 0 PROVE FALSE
  <2>1. 1 \in DOMAIN text
    BY <1>2, <1>3
  <2>2. text[1] \in Range(text)
    BY <2>1 DEF Range
  <2> QED
    BY <1>1, <2>2
<1> QED
    BY <1>2, <1>3, EmptySeq

-----------------------------------------------------------------------------
(* Tasks.                                                                  *)

Steps4Restore == {"write", "body", "nat", "filter", "merge", "check", "load"}
Steps4Cleanup == {"flush", "nat", "filter", "merge", "load", "files"}
Unread == {"write", "body", "flush", "nat"}

Task == [kind : {"restore", "cleanup"}, set : Settings \cup {None},
         pc : Steps4Restore \cup Steps4Cleanup, read : Seq(Rule), calm : BOOLEAN]

\* The steps of its kind are those of a task, and it has read nothing early.
Fit(t) ==
    /\ t.kind = "restore" => t.set \in Settings /\ t.pc \in Steps4Restore
    /\ t.kind = "cleanup" => t.pc \in Steps4Cleanup
    /\ t.pc \in Unread => t.read = <<>>

\* Every variable has its type.
TypeInv ==
    /\ main \in Seq(Rule) /\ others \in Seq(Rule) /\ raced \in BOOLEAN
    /\ body \in Seq(Line)
    /\ bodyFile # None => bodyFile \in Seq(Line)
    /\ mainFile # None => mainFile \in Seq(Line) /\ Stands(mainFile)
    /\ tasks \in Seq(Task)
    /\ \A t \in Range(tasks) : Fit(t)

\* Task t, a step later.
Moved(t, u, pc, read, calm) ==
    /\ u \in Task /\ u.kind = t.kind /\ u.set = t.set
    /\ u.pc = pc /\ u.read = read /\ u.calm = calm

(* The ways in which the steps change a task.                              *)
LEMMA MovedTasks ==
    ASSUME NEW t \in Task, NEW pc \in Steps4Restore \cup Steps4Cleanup,
           NEW read \in Seq(Rule), NEW calm \in BOOLEAN
    PROVE  /\ Moved(t, [t EXCEPT !.pc = pc], pc, t.read, t.calm)
           /\ Moved(t, [t EXCEPT !.pc = pc, !.read = read], pc, read, t.calm)
           /\ Moved(t, [t EXCEPT !.pc = pc, !.calm = calm], pc, t.read, calm)
BY DEF Moved, Task

(* A task under way is a task, and so is each that is left when one ends.  *)
LEMMA TaskLists ==
    ASSUME NEW ts \in Seq(Task), NEW k \in DOMAIN ts, NEW u \in Task
    PROVE  /\ ts[k] \in Task /\ ts[k] \in Range(ts)
           /\ [ts EXCEPT ![k] = u] \in Seq(Task)
           /\ Len([ts EXCEPT ![k] = u]) = Len(ts) /\ Len(ts) \in Nat
           /\ DOMAIN [ts EXCEPT ![k] = u] = DOMAIN ts
           /\ \A t \in Range([ts EXCEPT ![k] = u]) :
                  t = u \/ \E j \in DOMAIN ts : j # k /\ t = ts[j]
           /\ RemoveAt(ts, k) \in Seq(Task) /\ Len(RemoveAt(ts, k)) = Len(ts) - 1
           /\ Range(RemoveAt(ts, k)) \subseteq Range(ts)
<1> DEFINE vs == [ts EXCEPT ![k] = u]
<1>1. /\ Len(ts) \in Nat /\ DOMAIN ts = 1..Len(ts) /\ k \in 1..Len(ts)
      /\ \A j \in DOMAIN ts : ts[j] \in Task
    BY LenProperties, ElementOfSeq
<1>2. vs \in Seq(Task) /\ Len(vs) = Len(ts)
    BY <1>1, ExceptSeq
<1>3. DOMAIN vs = DOMAIN ts
    BY <1>1
<1>4. \A j \in DOMAIN ts : vs[j] = IF j = k THEN u ELSE ts[j]
    BY <1>1
<1> HIDE DEF vs
<1>5. \A t \in Range(vs) : t = u \/ \E j \in DOMAIN ts : j # k /\ t = ts[j]
    BY <1>3, <1>4 DEF Range
<1>6. /\ RemoveAt(ts, k) \in Seq(Task) /\ Len(RemoveAt(ts, k)) = Len(ts) - 1
      /\ Range(RemoveAt(ts, k)) \subseteq Range(ts)
    BY RemoveAtKeeps
<1>7. ts[k] \in Task /\ ts[k] \in Range(ts)
    BY <1>1 DEF Range
<1> QED
    BY <1>1, <1>2, <1>3, <1>5, <1>6, <1>7 DEF vs

(* What happens beside a task takes its calm and nothing else.             *)
LEMMA DisturbedTasks ==
    ASSUME NEW ts \in Seq(Task)
    PROVE  /\ Disturbed(ts) \in Seq(Task) /\ Len(Disturbed(ts)) = Len(ts)
           /\ \A u \in Range(Disturbed(ts)) :
                  \E t \in Range(ts) : Moved(t, u, t.pc, t.read, FALSE)
<1> DEFINE vs == Disturbed(ts)
<1>1. /\ Len(ts) \in Nat /\ DOMAIN ts = 1..Len(ts)
      /\ \A j \in DOMAIN ts : ts[j] \in Task /\ ts[j] \in Range(ts)
    BY LenProperties, ElementOfSeq DEF Range
<1>2. vs = [j \in DOMAIN ts |-> [ts[j] EXCEPT !.calm = FALSE]]
    BY DEF Disturbed
<1>3. \A t \in Task : Moved(t, [t EXCEPT !.calm = FALSE], t.pc, t.read, FALSE)
    BY DEF Moved, Task
<1> HIDE DEF vs
<1>4. /\ DOMAIN vs = DOMAIN ts
      /\ \A j \in DOMAIN ts : vs[j] = [ts[j] EXCEPT !.calm = FALSE]
    BY <1>2
<1>5. \A j \in DOMAIN ts : Moved(ts[j], vs[j], ts[j].pc, ts[j].read, FALSE)
    BY <1>1, <1>3, <1>4
<1>6. vs \in Seq(Task) /\ Len(vs) = Len(ts)
  <2>1. \A j \in 1..Len(ts) : vs[j] \in Task
    BY <1>1, <1>5 DEF Moved
  <2>2. vs = [j \in 1..Len(ts) |-> vs[j]]
    BY <1>1, <1>2
  <2>3. vs \in [1..Len(ts) -> Task]
    BY <2>1, <2>2
  <2>4. vs \in Seq(Task)
    BY <1>1, <2>3, SeqDef
  <2>5. DOMAIN vs = 1..Len(vs) /\ Len(vs) \in Nat
    BY <2>4, LenProperties
  <2> QED
    BY <1>1, <1>4, <2>4, <2>5
<1>7. \A u \in Range(vs) : \E t \in Range(ts) : Moved(t, u, t.pc, t.read, FALSE)
    BY <1>1, <1>4, <1>5 DEF Range
<1> QED
    BY <1>6, <1>7 DEF vs

\* Task k goes on: where it is now, what it has read, whether it is calm.
Goes(k, pc, read, calm) ==
    /\ last' = last
    /\ \E u \in Task : /\ tasks' = [tasks EXCEPT ![k] = u]
                       /\ Moved(tasks[k], u, pc, read, calm)

(* A step that sets its task goes on with it.                              *)
LEMMA SetGoes ==
    ASSUME TypeInv, NEW k \in DOMAIN tasks, NEW pc \in Steps4Restore \cup Steps4Cleanup,
           NEW read \in Seq(Rule), NEW calm \in BOOLEAN
    PROVE  /\ tasks[k] \in Task /\ Fit(tasks[k]) /\ tasks[k] \in Range(tasks)
           /\ Set(k, [tasks[k] EXCEPT !.pc = pc])
              => Goes(k, pc, tasks[k].read, tasks[k].calm)
           /\ Set(k, [tasks[k] EXCEPT !.pc = pc, !.read = read])
              => Goes(k, pc, read, tasks[k].calm)
           /\ Set(k, [tasks[k] EXCEPT !.pc = pc, !.calm = calm])
              => Goes(k, pc, tasks[k].read, calm)
<1> DEFINE t == tasks[k]
           u == [t EXCEPT !.pc = pc]
           v == [t EXCEPT !.pc = pc, !.read = read]
           w == [t EXCEPT !.pc = pc, !.calm = calm]
<1>1. t \in Task /\ t \in Range(tasks)
    BY LenProperties, ElementOfSeq DEF TypeInv, Range
<1>2. Fit(t)
    BY <1>1 DEF TypeInv
<1>3. Moved(t, u, pc, t.read, t.calm)
    BY <1>1, MovedTasks
<1>4. Moved(t, v, pc, read, t.calm)
    BY <1>1, MovedTasks
<1>5. Moved(t, w, pc, t.read, calm)
    BY <1>1, MovedTasks
<1> HIDE DEF u, v, w
<1>6. Set(k, u) => Goes(k, pc, t.read, t.calm)
    BY <1>3, Zenon DEF Set, Goes, Moved
<1>7. Set(k, v) => Goes(k, pc, read, t.calm)
    BY <1>4, Zenon DEF Set, Goes, Moved
<1>8. Set(k, w) => Goes(k, pc, t.read, calm)
    BY <1>5, Zenon DEF Set, Goes, Moved
<1> QED
    BY <1>1, <1>2, <1>6, <1>7, <1>8 DEF u, v, w

-----------------------------------------------------------------------------
(* What each step does, as one way for its task to go on or to end.        *)

(* A cleanup that pfctl fails goes on, no longer calm.                     *)
LEMMA GoesOnGoes ==
    ASSUME TypeInv, NEW k \in DOMAIN tasks, GoesOn(k)
    PROVE  /\ tasks[k].kind = "cleanup"
           /\ \/ tasks[k].pc = "flush" /\ Goes(k, "nat", tasks[k].read, FALSE)
              \/ /\ tasks[k].pc \in {"merge", "load"}
                 /\ Goes(k, "files", tasks[k].read, FALSE)
           /\ UNCHANGED <<main, others, raced, body, bodyFile, mainFile>>
<1> DEFINE t == tasks[k]
           loads == t.pc = "load" \/ (t.pc = "merge" /\ Others(t.read) = <<>>)
           pc == IF loads THEN "files" ELSE "nat"
<1>1. pc \in Steps4Restore \cup Steps4Cleanup
    BY DEF Steps4Restore, Steps4Cleanup
<1>2. /\ t.kind = "cleanup" /\ (t.pc = "flush" \/ loads)
      /\ Set(k, [t EXCEPT !.pc = pc, !.calm = FALSE])
      /\ UNCHANGED <<main, others, raced, body, bodyFile, mainFile>>
    BY Zenon DEF GoesOn
<1> HIDE DEF pc
<1>3. TypeInv /\ FALSE \in BOOLEAN /\ <<>> \in Seq(Rule)
    BY EmptySeq
<1>4. Goes(k, pc, t.read, FALSE)
    BY <1>1, <1>2, <1>3, SetGoes
<1>5. CASE loads
  <2>1. pc = "files" /\ t.pc \in {"merge", "load"}
    BY <1>5 DEF pc
  <2> QED
    BY <1>2, <1>4, <2>1
<1>6. CASE ~loads
  <2>1. pc = "nat" /\ t.pc = "flush"
    BY <1>2, <1>6 DEF pc
  <2> QED
    BY <1>2, <1>4, <2>1
<1> QED
    BY <1>5, <1>6

(* A restore writes the rules of its settings, and a file is loaded as the *)
(* anchor's body if there is one.                                          *)
LEMMA BodyGoes ==
    ASSUME TypeInv, NEW k \in DOMAIN tasks
    PROVE  /\ WriteBody(k) =>
                /\ tasks[k].pc = "write" /\ Goes(k, "body", tasks[k].read, tasks[k].calm)
                /\ bodyFile' = Rules(tasks[k].set)
                /\ UNCHANGED <<main, others, raced, body, mainFile>>
           /\ LoadBody(k) =>
                /\ tasks[k].pc = "body"
                /\ \/ End(k, FALSE) /\ UNCHANGED body
                   \/ /\ bodyFile # None /\ body' = bodyFile
                      /\ Goes(k, "nat", tasks[k].read, tasks[k].calm)
                /\ UNCHANGED <<main, others, raced, bodyFile, mainFile>>
           /\ FlushAnchor(k) =>
                /\ tasks[k].pc = "flush" /\ Goes(k, "nat", tasks[k].read, tasks[k].calm)
                /\ body' = <<>>
                /\ UNCHANGED <<main, others, raced, bodyFile, mainFile>>
<1>1. /\ "body" \in Steps4Restore \cup Steps4Cleanup
      /\ "nat" \in Steps4Restore \cup Steps4Cleanup
      /\ <<>> \in Seq(Rule) /\ TRUE \in BOOLEAN
    BY EmptySeq DEF Steps4Restore, Steps4Cleanup
<1>2. /\ Set(k, [tasks[k] EXCEPT !.pc = "body"])
         => Goes(k, "body", tasks[k].read, tasks[k].calm)
      /\ Set(k, [tasks[k] EXCEPT !.pc = "nat"])
         => Goes(k, "nat", tasks[k].read, tasks[k].calm)
    BY <1>1, SetGoes
<1>3. ASSUME WriteBody(k)
      PROVE  /\ tasks[k].pc = "write" /\ Set(k, [tasks[k] EXCEPT !.pc = "body"])
             /\ bodyFile' = Rules(tasks[k].set)
             /\ UNCHANGED <<main, others, raced, body, mainFile>>
    BY <1>3, Zenon DEF WriteBody
<1>4. ASSUME FlushAnchor(k)
      PROVE  /\ tasks[k].pc = "flush" /\ Set(k, [tasks[k] EXCEPT !.pc = "nat"])
             /\ body' = <<>>
             /\ UNCHANGED <<main, others, raced, bodyFile, mainFile>>
    BY <1>4, Zenon DEF FlushAnchor
<1>5. ASSUME LoadBody(k)
      PROVE  /\ tasks[k].pc = "body"
             /\ \/ End(k, FALSE) /\ UNCHANGED body
                \/ /\ bodyFile # None /\ body' = bodyFile
                   /\ Set(k, [tasks[k] EXCEPT !.pc = "nat"])
             /\ UNCHANGED <<main, others, raced, bodyFile, mainFile>>
    BY <1>5, Zenon DEF LoadBody
<1> QED
    BY <1>2, <1>3, <1>4, <1>5

(* Of its two reads a task takes what pf shows, or nothing; a restore      *)
(* whose snapshot fails goes on as if MAIN were empty.                     *)
LEMMA ReadGoes ==
    ASSUME TypeInv, NEW k \in DOMAIN tasks, Read(k)
    PROVE  /\ tasks[k].pc \in {"nat", "filter"}
           /\ \/ /\ tasks[k].pc = "nat" /\ raced' = raced
                 /\ Goes(k, "filter", tasks[k].read \o ShowNat(main), tasks[k].calm)
              \/ /\ tasks[k].pc = "filter" /\ raced' = raced
                 /\ Goes(k, "merge", tasks[k].read \o ShowRules(main), tasks[k].calm)
              \/ /\ raced' = TRUE /\ tasks[k].pc = "nat"
                 /\ Goes(k, "filter", tasks[k].read, tasks[k].calm)
              \/ /\ raced' = TRUE /\ tasks[k].pc = "filter"
                 /\ Goes(k, "merge", tasks[k].read, tasks[k].calm)
              \/ /\ raced' = TRUE /\ tasks[k].kind = "restore"
                 /\ Goes(k, "merge", <<>>, tasks[k].calm)
           /\ UNCHANGED <<main, others, body, bodyFile, mainFile>>
<1> DEFINE t == tasks[k]
           shown == IF t.pc = "nat" THEN ShowNat(main) ELSE ShowRules(main)
           next == IF t.pc = "nat" THEN "filter" ELSE "merge"
           more == t.read \o shown
           none == <<>>
<1>1. /\ "merge" \in Steps4Restore \cup Steps4Cleanup
      /\ next \in Steps4Restore \cup Steps4Cleanup
      /\ none \in Seq(Rule) /\ TRUE \in BOOLEAN
    BY EmptySeq DEF Steps4Restore, Steps4Cleanup
<1>2. more \in Seq(Rule)
  <2>1. t \in Task
    BY LenProperties, ElementOfSeq DEF TypeInv
  <2>2. main \in Seq(Rule) /\ 1 \in 1..5 /\ {} \subseteq At(1)
    BY DEF TypeInv
  <2>3. ShowNat(main) \in Seq(Rule) /\ ShowRules(main) \in Seq(Rule)
    BY <2>2, ShownByPlace
  <2>4. shown \in Seq(Rule) /\ t.read \in Seq(Rule)
    BY <2>1, <2>3 DEF Task
  <2> HIDE DEF shown
  <2> QED
    BY <2>4, ConcatProperties
<1>3. /\ t.pc \in {"nat", "filter"}
      /\ \/ raced' = raced /\ Set(k, [t EXCEPT !.pc = next, !.read = more])
         \/ raced' = TRUE /\ Set(k, [t EXCEPT !.pc = next])
         \/ /\ raced' = TRUE /\ t.kind = "restore"
            /\ Set(k, [t EXCEPT !.pc = "merge", !.read = none])
      /\ UNCHANGED <<main, others, body, bodyFile, mainFile>>
  <2>1. /\ t.pc \in {"nat", "filter"}
        /\ \/ /\ Set(k, [t EXCEPT !.pc = next, !.read = @ \o shown])
              /\ UNCHANGED <<raced, left>>
           \/ /\ Spend("fail") /\ raced' = TRUE
              /\ Set(k, [t EXCEPT !.pc = next])
           \/ /\ t.kind = "restore"
              /\ Spend("fail") /\ raced' = TRUE
              /\ Set(k, [t EXCEPT !.pc = "merge", !.read = <<>>])
        /\ UNCHANGED <<main, others, body, bodyFile, mainFile>>
    BY Zenon DEF Read
  <2>2. [t EXCEPT !.pc = next, !.read = @ \o shown]
        = [t EXCEPT !.pc = next, !.read = more]
    OBVIOUS
  <2>3. Set(k, [t EXCEPT !.pc = next, !.read = @ \o shown])
        => Set(k, [t EXCEPT !.pc = next, !.read = more])
    BY <2>2, Zenon DEF Set
  <2>4. /\ t.pc \in {"nat", "filter"}
        /\ \/ Set(k, [t EXCEPT !.pc = next, !.read = @ \o shown]) /\ raced' = raced
           \/ raced' = TRUE /\ Set(k, [t EXCEPT !.pc = next])
           \/ /\ raced' = TRUE /\ t.kind = "restore"
              /\ Set(k, [t EXCEPT !.pc = "merge", !.read = none])
        /\ UNCHANGED <<main, others, body, bodyFile, mainFile>>
    BY <2>1, Zenon
  <2> QED
    BY <2>3, <2>4, Zenon
<1>4. TypeInv /\ k \in DOMAIN tasks
    OBVIOUS
<1> HIDE DEF more, next, none
<1>5. /\ Set(k, [t EXCEPT !.pc = next, !.read = more]) => Goes(k, next, more, t.calm)
      /\ Set(k, [t EXCEPT !.pc = next]) => Goes(k, next, t.read, t.calm)
    BY <1>1, <1>2, <1>4, SetGoes
<1>6. Set(k, [t EXCEPT !.pc = "merge", !.read = none]) => Goes(k, "merge", none, t.calm)
    BY <1>1, <1>4, SetGoes
<1>7. CASE t.pc = "nat"
  <2>1. next = "filter" /\ more = t.read \o ShowNat(main)
    BY <1>7 DEF next, more
  <2> QED
    BY <1>3, <1>5, <1>6, <1>7, <2>1, Zenon DEF none
<1>8. CASE t.pc # "nat"
  <2>1. next = "merge" /\ more = t.read \o ShowRules(main) /\ t.pc = "filter"
    BY <1>3, <1>8 DEF next, more
  <2> QED
    BY <1>3, <1>5, <1>6, <2>1, Zenon DEF none
<1> QED
    BY <1>7, <1>8

(* The merge is written, accepted or not, and loaded; a cleanup writes     *)
(* what it stripped, or puts back the machine's own file.                  *)
LEMMA MainGoes ==
    ASSUME TypeInv, NEW k \in DOMAIN tasks
    PROVE  /\ WriteMerged(k) =>
                /\ tasks[k].pc = "merge" /\ tasks[k].kind = "restore"
                /\ Goes(k, "check", tasks[k].read, tasks[k].calm)
                /\ mainFile' = MergeMain(tasks[k].read)
                /\ UNCHANGED <<main, others, raced, body, bodyFile>>
           /\ CheckMerged(k) =>
                /\ tasks[k].pc = "check"
                /\ End(k, FALSE) \/ Goes(k, "load", tasks[k].read, tasks[k].calm)
                /\ UNCHANGED <<main, others, raced, body, bodyFile, mainFile>>
           /\ Strip(k) =>
                /\ tasks[k].pc = "merge" /\ tasks[k].kind = "cleanup"
                /\ \/ /\ RemainingMainIsEmpty(Others(tasks[k].read))
                      /\ main' = Loaded(DefaultConf)
                      /\ others' = IF others = <<>> THEN main' ELSE others
                      /\ raced' = (raced \/ Relies(RemoveAt(tasks, k)))
                      /\ Goes(k, "files", tasks[k].read, tasks[k].calm)
                      /\ mainFile' = mainFile
                   \/ /\ mainFile' = OrderMain(Others(tasks[k].read))
                      /\ Goes(k, "load", tasks[k].read, tasks[k].calm)
                      /\ UNCHANGED <<main, others, raced>>
                /\ UNCHANGED <<body, bodyFile>>
           /\ LoadMain(k) =>
                /\ tasks[k].pc = "load"
                /\ \/ /\ mainFile # None /\ main' = Loaded(mainFile)
                      /\ \/ tasks[k].kind = "restore" /\ End(k, TRUE)
                         \/ /\ tasks[k].kind = "cleanup"
                            /\ Goes(k, "files", tasks[k].read, tasks[k].calm)
                   \/ /\ main' = main
                      /\ \/ tasks[k].kind = "restore" /\ End(k, FALSE)
                         \/ /\ tasks[k].kind = "cleanup"
                            /\ Goes(k, "files", tasks[k].read, FALSE)
                /\ UNCHANGED <<others, raced, body, bodyFile, mainFile>>
<1> DEFINE t == tasks[k]
           ok == mainFile # None /\ InOrder(mainFile)
           calm == t.calm /\ ok
<1>1. /\ {"check", "load", "files"} \subseteq Steps4Restore \cup Steps4Cleanup
      /\ <<>> \in Seq(Rule) /\ TRUE \in BOOLEAN
    BY EmptySeq DEF Steps4Restore, Steps4Cleanup
<1>2. t \in Task
    BY <1>1, SetGoes
<1>3. \A pc \in {"check", "load", "files"} :
          Set(k, [t EXCEPT !.pc = pc]) => Goes(k, pc, t.read, t.calm)
    BY <1>1, SetGoes
<1>4. ok \in BOOLEAN /\ calm \in BOOLEAN
    BY <1>2 DEF Task
<1> HIDE DEF calm
<1>5. Set(k, [t EXCEPT !.pc = "files", !.calm = calm]) => Goes(k, "files", t.read, calm)
    BY <1>1, <1>4, SetGoes
<1>6. ASSUME WriteMerged(k)
      PROVE  /\ t.pc = "merge" /\ t.kind = "restore" /\ Set(k, [t EXCEPT !.pc = "check"])
             /\ mainFile' = MergeMain(t.read)
             /\ UNCHANGED <<main, others, raced, body, bodyFile>>
    BY <1>6, Zenon DEF WriteMerged
<1>7. ASSUME CheckMerged(k)
      PROVE  /\ t.pc = "check" /\ (End(k, FALSE) \/ Set(k, [t EXCEPT !.pc = "load"]))
             /\ UNCHANGED <<main, others, raced, body, bodyFile, mainFile>>
    BY <1>7, Zenon DEF CheckMerged
<1>8. ASSUME Strip(k)
      PROVE  /\ t.pc = "merge" /\ t.kind = "cleanup"
             /\ \/ /\ RemainingMainIsEmpty(Others(t.read))
                   /\ main' = Loaded(DefaultConf)
                   /\ others' = IF others = <<>> THEN main' ELSE others
                   /\ raced' = (raced \/ Relies(RemoveAt(tasks, k)))
                   /\ Set(k, [t EXCEPT !.pc = "files"])
                   /\ mainFile' = mainFile
                \/ /\ mainFile' = OrderMain(Others(t.read))
                   /\ Set(k, [t EXCEPT !.pc = "load"])
                   /\ UNCHANGED <<main, others, raced>>
             /\ UNCHANGED <<body, bodyFile>>
    BY <1>8, Zenon DEF Strip
<1>9. ASSUME LoadMain(k)
      PROVE  /\ t.pc = "load"
             /\ main' = IF ok THEN Loaded(mainFile) ELSE main
             /\ \/ t.kind = "restore" /\ End(k, ok)
                \/ t.kind # "restore" /\ Set(k, [t EXCEPT !.pc = "files", !.calm = calm])
             /\ UNCHANGED <<others, raced, body, bodyFile, mainFile>>
  <2>1. [t EXCEPT !.pc = "files", !.calm = @ /\ ok]
        = [t EXCEPT !.pc = "files", !.calm = calm]
    BY DEF calm
  <2> QED
    BY <1>9, <2>1, Zenon DEF LoadMain
<1>10. ASSUME LoadMain(k)
       PROVE  \/ /\ mainFile # None /\ main' = Loaded(mainFile)
                 /\ \/ t.kind = "restore" /\ End(k, TRUE)
                    \/ t.kind = "cleanup" /\ Goes(k, "files", t.read, t.calm)
              \/ /\ main' = main
                 /\ \/ t.kind = "restore" /\ End(k, FALSE)
                    \/ t.kind = "cleanup" /\ Goes(k, "files", t.read, FALSE)
  <2>1. t.kind # "restore" => t.kind = "cleanup"
    BY <1>2 DEF Task
  <2>2. CASE ok
    <3>1. ok = TRUE /\ calm = t.calm
      BY <1>2, <2>2 DEF calm, Task
    <3>2. main' = Loaded(mainFile) /\ mainFile # None
      BY <1>9, <1>10, <2>2
    <3> HIDE DEF ok
    <3> QED
      BY <1>5, <1>9, <1>10, <2>1, <3>1, <3>2
  <2>3. CASE ~ok
    <3>1. ok = FALSE /\ calm = FALSE
      BY <1>2, <2>3 DEF calm, Task
    <3>2. main' = main
      BY <1>9, <1>10, <2>3
    <3> HIDE DEF ok
    <3> QED
      BY <1>5, <1>9, <1>10, <2>1, <3>1, <3>2
  <2> QED
    BY <2>2, <2>3
<1>11. WriteMerged(k) =>
         /\ t.pc = "merge" /\ t.kind = "restore" /\ Goes(k, "check", t.read, t.calm)
         /\ mainFile' = MergeMain(t.read)
         /\ UNCHANGED <<main, others, raced, body, bodyFile>>
    BY <1>3, <1>6, Zenon
<1>12. CheckMerged(k) =>
         /\ t.pc = "check" /\ (End(k, FALSE) \/ Goes(k, "load", t.read, t.calm))
         /\ UNCHANGED <<main, others, raced, body, bodyFile, mainFile>>
    BY <1>3, <1>7, Zenon
<1>13. Strip(k) =>
         /\ t.pc = "merge" /\ t.kind = "cleanup"
         /\ \/ /\ RemainingMainIsEmpty(Others(t.read))
               /\ main' = Loaded(DefaultConf)
               /\ others' = IF others = <<>> THEN main' ELSE others
               /\ raced' = (raced \/ Relies(RemoveAt(tasks, k)))
               /\ Goes(k, "files", t.read, t.calm)
               /\ mainFile' = mainFile
            \/ /\ mainFile' = OrderMain(Others(t.read))
               /\ Goes(k, "load", t.read, t.calm)
               /\ UNCHANGED <<main, others, raced>>
         /\ UNCHANGED <<body, bodyFile>>
    BY <1>3, <1>8, Zenon
<1> HIDE DEF ok
<1> QED
    BY <1>9, <1>10, <1>11, <1>12, <1>13, Zenon

-----------------------------------------------------------------------------
(* The tasks after each kind of step.                                      *)

\* A step of a task of this kind may lead there, with what it has read.
MayBe(kind, pc, read) ==
    /\ kind = "restore" => pc \in Steps4Restore
    /\ kind = "cleanup" => pc \in Steps4Cleanup
    /\ pc \in Unread => read = <<>>

(* A step of one task leaves the others where they are.                    *)
LEMMA GoesTasks ==
    ASSUME TypeInv, NEW k \in DOMAIN tasks, NEW pc, NEW read, NEW calm,
           Goes(k, pc, read, calm), MayBe(tasks[k].kind, pc, read)
    PROVE  /\ tasks' \in Seq(Task) /\ Len(tasks') = Len(tasks) /\ last' = last
           /\ \A u \in Range(tasks') :
                  /\ Fit(u)
                  /\ \/ Moved(tasks[k], u, pc, read, calm)
                     \/ \E j \in DOMAIN tasks : j # k /\ u = tasks[j]
<1>1. PICK v \in Task : /\ tasks' = [tasks EXCEPT ![k] = v]
                        /\ Moved(tasks[k], v, pc, read, calm)
    BY Zenon DEF Goes
<1>2. tasks \in Seq(Task) /\ \A t \in Range(tasks) : Fit(t)
    BY DEF TypeInv
<1>3. /\ [tasks EXCEPT ![k] = v] \in Seq(Task)
      /\ Len([tasks EXCEPT ![k] = v]) = Len(tasks)
      /\ \A u \in Range([tasks EXCEPT ![k] = v]) :
             u = v \/ \E j \in DOMAIN tasks : j # k /\ u = tasks[j]
    BY <1>2, TaskLists
<1>4. last' = last
    BY DEF Goes
<1>5. tasks[k] \in Range(tasks) /\ \A j \in DOMAIN tasks : tasks[j] \in Range(tasks)
    BY DEF Range
<1>6. Fit(v)
    BY <1>1, <1>2, <1>5 DEF Fit, Moved, MayBe
<1>7. ASSUME NEW u \in Range(tasks')
      PROVE  /\ Fit(u)
             /\ \/ Moved(tasks[k], u, pc, read, calm)
                \/ \E j \in DOMAIN tasks : j # k /\ u = tasks[j]
  <2>1. u = v \/ \E j \in DOMAIN tasks : j # k /\ u = tasks[j]
    BY <1>1, <1>3
  <2> QED
    BY <1>1, <1>2, <1>5, <1>6, <2>1
<1>8. tasks' \in Seq(Task) /\ Len(tasks') = Len(tasks)
    BY <1>1, <1>3
<1> QED
    BY <1>4, <1>7, <1>8

(* So does the end of one.                                                 *)
LEMMA EndTasks ==
    ASSUME TypeInv, NEW k \in DOMAIN tasks, NEW ok, End(k, ok)
    PROVE  /\ tasks' \in Seq(Task) /\ Len(tasks') = Len(tasks) - 1
           /\ Range(tasks') \subseteq Range(tasks)
           /\ \A u \in Range(tasks') : Fit(u)
           /\ last' = IF ok /\ tasks[k].calm THEN tasks[k] ELSE None
<1>1. tasks \in Seq(Task) /\ \A t \in Range(tasks) : Fit(t)
    BY DEF TypeInv
<1>2. /\ tasks' = RemoveAt(tasks, k)
      /\ last' = IF ok /\ tasks[k].calm THEN tasks[k] ELSE None
    BY DEF End
<1>3. /\ RemoveAt(tasks, k) \in Seq(Task) /\ Len(RemoveAt(tasks, k)) = Len(tasks) - 1
      /\ Range(RemoveAt(tasks, k)) \subseteq Range(tasks)
    BY <1>1, RemoveAtKeeps
<1> QED
    BY <1>1, <1>2, <1>3

(* What comes from outside disturbs every task and moves none.             *)
LEMMA EditTasks ==
    ASSUME TypeInv, NEW event, NEW rules, NEW wanted, Edit(event, rules, wanted)
    PROVE  /\ tasks' \in Seq(Task) /\ last' = None
           /\ main' = rules /\ others' = wanted /\ raced' = (raced \/ Relies(tasks))
           /\ UNCHANGED <<body, bodyFile, mainFile>>
           /\ \A u \in Range(tasks') :
                  Fit(u) /\ \E t \in Range(tasks) : Moved(t, u, t.pc, t.read, FALSE)
<1>1. tasks \in Seq(Task) /\ \A t \in Range(tasks) : Fit(t)
    BY DEF TypeInv
<1>2. tasks' = Disturbed(tasks)
    BY DEF Edit
<1>3. /\ Disturbed(tasks) \in Seq(Task)
      /\ \A u \in Range(Disturbed(tasks)) :
             \E t \in Range(tasks) : Moved(t, u, t.pc, t.read, FALSE)
    BY <1>1, DisturbedTasks
<1>4. \A t \in Range(tasks) : \A u : Moved(t, u, t.pc, t.read, FALSE) => Fit(u)
    BY <1>1 DEF Moved, Fit
<1>5. /\ last' = None /\ main' = rules /\ others' = wanted
      /\ raced' = (raced \/ Relies(tasks))
      /\ UNCHANGED <<body, bodyFile, mainFile>>
    BY Zenon DEF Edit
<1> QED
    BY <1>1, <1>2, <1>3, <1>4, <1>5

(* A task that begins has read nothing; it is calm if it is the only one.  *)
LEMMA BeginTasks ==
    ASSUME TypeInv, NEW kind \in {"restore", "cleanup"}, NEW set \in Settings \cup {None},
           NEW pc \in {"write", "flush"}, Begin(kind, set, pc),
           kind = "restore" => set \in Settings, MayBe(kind, pc, <<>>)
    PROVE  /\ tasks' \in Seq(Task) /\ last' = None
           /\ UNCHANGED <<main, others, raced, body, bodyFile, mainFile>>
           /\ \A u \in Range(tasks') :
                  /\ Fit(u)
                  /\ \/ /\ u.pc = pc /\ u.kind = kind
                        /\ u.calm => Len(tasks') = 1
                     \/ \E t \in Range(tasks) : Moved(t, u, t.pc, t.read, FALSE)
<1> DEFINE none == <<>>
           v == [kind |-> kind, set |-> set, pc |-> pc, read |-> none,
                 calm |-> tasks = none]
           ts == Disturbed(tasks)
<1>1. tasks \in Seq(Task) /\ \A t \in Range(tasks) : Fit(t)
    BY DEF TypeInv
<1>2. /\ tasks' = Append(ts, v) /\ last' = None
      /\ UNCHANGED <<main, others, raced, body, bodyFile, mainFile>>
    BY Zenon DEF Begin
<1>3. none \in Seq(Rule)
    BY EmptySeq
<1>4. pc \in Steps4Restore \cup Steps4Cleanup
    BY DEF Steps4Restore, Steps4Cleanup
<1> HIDE DEF none
<1>5. v \in Task /\ v.pc = pc /\ v.kind = kind /\ (v.calm <=> tasks = none)
    BY <1>3, <1>4 DEF Task
<1>6. Fit(v)
    BY DEF Fit, MayBe, none
<1> HIDE DEF v
<1>7. /\ ts \in Seq(Task) /\ Len(ts) = Len(tasks)
      /\ \A u \in Range(ts) : \E t \in Range(tasks) : Moved(t, u, t.pc, t.read, FALSE)
    BY <1>1, DisturbedTasks
<1>8. \A t \in Range(tasks) : \A u : Moved(t, u, t.pc, t.read, FALSE) => Fit(u)
    BY <1>1 DEF Moved, Fit
<1> HIDE DEF ts
<1>9. Append(ts, v) \in Seq(Task) /\ Range(Append(ts, v)) = Range(ts) \cup {v}
    BY <1>5, <1>7, AppendRange
<1>10. Len(Append(ts, v)) = Len(ts) + 1
    BY <1>5, <1>7, AppendProperties
<1>11. tasks = none => Len(tasks) = 0
    BY EmptySeq DEF none
<1>12. v.calm => Len(tasks') = 1
    BY <1>2, <1>5, <1>7, <1>10, <1>11
<1> QED
    BY <1>1, <1>2, <1>5, <1>6, <1>7, <1>8, <1>9, <1>12

-----------------------------------------------------------------------------
(* Every variable keeps its type, and what is to be loaded stands.         *)

(* A restore's rules are lines, for settings with an uplink and without.   *)
LEMMA RulesLines ==
    ASSUME NEW s \in Settings
    PROVE  /\ Rules(s) \in Seq(Line)
           /\ s.vpn \in Interfaces /\ s.lan \in Interfaces
           /\ s.wan \in Interfaces \cup {None}
           /\ LET rest == IF s.wan # None THEN {"! <bypass>"} ELSE {}
              IN  Range(Rules(s)) =
                      {L("scrub", {}, None), L("scrub", rest, s.lan),
                       L("scrub", {}, s.vpn), L("nat", rest, s.vpn),
                       L("rdr", {"port 53"}, s.lan), L("pass", {"keep state"}, s.lan),
                       L("pass", {"keep state"}, s.vpn)}
                      \cup IF s.wan # None
                           THEN {L("table", {"<bypass>"}, None),
                                 L("nat", {"<bypass>"}, s.wan),
                                 L("pass", {"route-to", "<bypass>", "keep state"}, s.wan),
                                 L("pass", {"keep state"}, s.wan)}
                           ELSE {}
<1> DEFINE bypass == s.wan # None
           When(lines) == IF bypass THEN lines ELSE <<>>
           rest == IF bypass THEN {"! <bypass>"} ELSE {}
           t1 == L("table", {"<bypass>"}, None)
           s1 == L("scrub", {}, None)
           s2 == L("scrub", rest, s.lan)
           s3 == L("scrub", {}, s.vpn)
           n1 == L("nat", rest, s.vpn)
           n2 == L("nat", {"<bypass>"}, s.wan)
           r1 == L("rdr", {"port 53"}, s.lan)
           p1 == L("pass", {"route-to", "<bypass>", "keep state"}, s.wan)
           p2 == L("pass", {"keep state"}, s.wan)
           p3 == L("pass", {"keep state"}, s.lan)
           p4 == L("pass", {"keep state"}, s.vpn)
<1>1. /\ s.vpn \in Interfaces /\ s.lan \in Interfaces
      /\ s.wan \in Interfaces \cup {None}
    BY PfMainAssumption
<1>2. /\ t1 \in Line /\ s1 \in Line /\ s2 \in Line /\ s3 \in Line /\ n1 \in Line
      /\ n2 \in Line /\ r1 \in Line
    BY <1>1 DEF L, Line, FirstWords, Words
<1>3. p1 \in Line /\ p2 \in Line /\ p3 \in Line /\ p4 \in Line
    BY <1>1 DEF L, Line, FirstWords, Words
<1>4. Rules(s) = When(<<t1>>) \o <<s1, s2, s3, n1>> \o When(<<n2>>) \o <<r1, r1>>
                 \o When(<<p1, p2>>) \o <<p3, p4>>
    BY DEF Rules
<1> HIDE DEF t1, s1, s2, s3, n1, n2, r1, p1, p2, p3, p4
<1> DEFINE a == When(<<t1>>)
           b == <<s1, s2, s3, n1>>
           c == When(<<n2>>)
           d == <<r1, r1>>
           e == When(<<p1, p2>>)
           f == <<p3, p4>>
           Some(set) == IF bypass THEN set ELSE {}
<1>5. /\ a \in Seq(Line) /\ c \in Seq(Line) /\ e \in Seq(Line)
      /\ Range(a) = Some({t1}) /\ Range(c) = Some({n2}) /\ Range(e) = Some({p1, p2})
    BY <1>2, <1>3, EmptySeq DEF Range
<1>6. /\ b \in Seq(Line) /\ d \in Seq(Line) /\ f \in Seq(Line)
      /\ Range(b) = {s1, s2, s3, n1} /\ Range(d) = {r1} /\ Range(f) = {p3, p4}
    BY <1>2, <1>3 DEF Range
<1>7. \A x, y \in Seq(Line) :
          x \o y \in Seq(Line) /\ Range(x \o y) = Range(x) \cup Range(y)
    BY ConcatProperties, RangeConcatenation
<1>8. Rules(s) = a \o b \o c \o d \o e \o f
    BY <1>4
<1> HIDE DEF a, b, c, d, e, f
<1> DEFINE ab == a \o b
           abc == ab \o c
           abcd == abc \o d
           abcde == abcd \o e
<1>9. /\ ab \in Seq(Line) /\ Range(ab) = Range(a) \cup Range(b)
      /\ abc \in Seq(Line) /\ Range(abc) = Range(ab) \cup Range(c)
    BY <1>5, <1>6, <1>7
<1>10. /\ abcd \in Seq(Line) /\ Range(abcd) = Range(abc) \cup Range(d)
       /\ abcde \in Seq(Line) /\ Range(abcde) = Range(abcd) \cup Range(e)
    BY <1>5, <1>6, <1>7, <1>9
<1>11. Rules(s) \in Seq(Line) /\ Range(Rules(s)) = Range(abcde) \cup Range(f)
    BY <1>6, <1>7, <1>8, <1>10
<1> HIDE DEF ab, abc, abcd, abcde
<1>12. Range(Rules(s)) = {s1, s2, s3, n1, r1, p3, p4} \cup Some({t1, n2, p1, p2})
    BY <1>5, <1>6, <1>9, <1>10, <1>11
<1> QED
    BY <1>1, <1>11, <1>12
       DEF t1, s1, s2, s3, n1, n2, r1, p1, p2, p3, p4

(* It starts typed.                                                        *)
LEMMA TypeInit == Init => TypeInv
<1> SUFFICES ASSUME Init PROVE TypeInv
    OBVIOUS
<1>1. PICK file \in Foreign : main = Loaded(file)
    BY DEF Init
<1>2. file \in Seq(Line) /\ 1 \in 1..5 /\ {} \subseteq At(1)
    BY PfMainAssumption
<1>3. main \in Seq(Rule)
    BY <1>1, <1>2, LoadedByPlace
<1>4. others \in Seq(Rule)
    BY <1>3, OnlyMembers DEF Init, Others
<1>5. body \in Seq(Line) /\ tasks \in Seq(Task) /\ Range(tasks) = {}
    BY EmptySeq DEF Init, Range
<1> QED
    BY <1>3, <1>4, <1>5 DEF Init, TypeInv

(* A step of a task keeps the types, and what it writes stands.            *)
LEMMA TypeOfTasks ==
    ASSUME TypeInv, NEW k \in DOMAIN tasks,
           \/ Fails(k) \/ GoesOn(k) \/ WriteBody(k) \/ LoadBody(k) \/ FlushAnchor(k)
           \/ Read(k) \/ WriteMerged(k) \/ CheckMerged(k) \/ Strip(k) \/ LoadMain(k)
           \/ RemoveFiles(k)
    PROVE  TypeInv'
<1> DEFINE t == tasks[k]
           Typed == tasks' \in Seq(Task) /\ \A u \in Range(tasks') : Fit(u)
<1>1. t \in Task
    BY LenProperties, ElementOfSeq DEF TypeInv
<1>2. Fit(t)
    BY DEF TypeInv, Range
<1>3. t.kind \in {"restore", "cleanup"} /\ t.read \in Seq(Rule)
    BY <1>1 DEF Task
<1>4. \A ok : End(k, ok) => Typed
    BY EndTasks
<1>5. ASSUME NEW pc, NEW read, NEW calm, Goes(k, pc, read, calm),
             MayBe(t.kind, pc, read)
      PROVE  Typed
    BY <1>5, GoesTasks
<1>6. /\ main \in Seq(Rule) /\ others \in Seq(Rule) /\ raced \in BOOLEAN
      /\ body \in Seq(Line) /\ bodyFile # None => bodyFile \in Seq(Line)
      /\ mainFile # None => mainFile \in Seq(Line) /\ Stands(mainFile)
    BY DEF TypeInv
<1> HIDE DEF Typed
<1>7. CASE Fails(k)
  <2>1. /\ End(k, FALSE)
        /\ UNCHANGED <<main, others, raced, body, bodyFile, mainFile>>
    BY <1>7 DEF Fails
  <2> QED
    BY <1>4, <1>6, <2>1 DEF TypeInv, Typed
<1>8. CASE GoesOn(k)
  <2>1. /\ t.kind = "cleanup"
        /\ \/ t.pc = "flush" /\ Goes(k, "nat", t.read, FALSE)
           \/ t.pc \in {"merge", "load"} /\ Goes(k, "files", t.read, FALSE)
        /\ UNCHANGED <<main, others, raced, body, bodyFile, mainFile>>
    BY <1>8, GoesOnGoes
  <2>2. MayBe(t.kind, "files", t.read)
    BY <2>1 DEF MayBe, Unread, Steps4Cleanup
  <2>3. t.pc = "flush" => MayBe(t.kind, "nat", t.read)
    BY <1>2, <2>1 DEF MayBe, Fit, Unread, Steps4Cleanup
  <2>4. Typed
    BY <1>5, <2>1, <2>2, <2>3
  <2> QED
    BY <1>6, <2>1, <2>4 DEF TypeInv, Typed
<1>9. CASE WriteBody(k)
  <2>1. /\ t.pc = "write" /\ Goes(k, "body", t.read, t.calm)
        /\ bodyFile' = Rules(t.set)
        /\ UNCHANGED <<main, others, raced, body, mainFile>>
    BY <1>9, BodyGoes
  <2>2. t.kind = "restore" /\ t.set \in Settings /\ MayBe(t.kind, "body", t.read)
    BY <1>2, <1>3, <2>1 DEF MayBe, Fit, Unread, Steps4Restore, Steps4Cleanup
  <2>3. Rules(t.set) \in Seq(Line)
    BY <2>2, RulesLines
  <2>4. Typed
    BY <1>5, <2>1, <2>2
  <2> QED
    BY <1>6, <2>1, <2>3, <2>4 DEF TypeInv, Typed
<1>10. CASE LoadBody(k)
  <2>1. /\ t.pc = "body"
        /\ \/ End(k, FALSE) /\ UNCHANGED body
           \/ bodyFile # None /\ body' = bodyFile /\ Goes(k, "nat", t.read, t.calm)
        /\ UNCHANGED <<main, others, raced, bodyFile, mainFile>>
    BY <1>10, BodyGoes
  <2>2. MayBe(t.kind, "nat", t.read)
    BY <1>2, <2>1 DEF MayBe, Fit, Unread, Steps4Restore, Steps4Cleanup
  <2>3. Typed
    BY <1>4, <1>5, <2>1, <2>2
  <2> QED
    BY <1>6, <2>1, <2>3 DEF TypeInv, Typed
<1>11. CASE FlushAnchor(k)
  <2>1. /\ t.pc = "flush" /\ Goes(k, "nat", t.read, t.calm) /\ body' = <<>>
        /\ UNCHANGED <<main, others, raced, bodyFile, mainFile>>
    BY <1>11, BodyGoes
  <2>2. MayBe(t.kind, "nat", t.read)
    BY <1>2, <2>1 DEF MayBe, Fit, Unread, Steps4Restore, Steps4Cleanup
  <2>3. Typed
    BY <1>5, <2>1, <2>2
  <2> QED
    BY <1>6, <2>1, <2>3, EmptySeq DEF TypeInv, Typed
<1>12. CASE Read(k)
  <2> DEFINE Raced == raced' = raced \/ raced' = TRUE
             Fresh(pc) == \E read : Goes(k, pc, read, t.calm)
  <2>1. /\ Fresh("filter") \/ Fresh("merge")
        /\ Raced
        /\ UNCHANGED <<main, others, body, bodyFile, mainFile>>
    BY <1>12, ReadGoes
  <2>2. \A read : MayBe(t.kind, "filter", read) /\ MayBe(t.kind, "merge", read)
    BY DEF MayBe, Unread, Steps4Restore, Steps4Cleanup
  <2>3. Typed
    BY <1>5, <2>1, <2>2
  <2> QED
    BY <1>6, <2>1, <2>3 DEF TypeInv, Typed
<1>13. CASE WriteMerged(k)
  <2>1. /\ t.pc = "merge" /\ t.kind = "restore" /\ Goes(k, "check", t.read, t.calm)
        /\ mainFile' = MergeMain(t.read)
        /\ UNCHANGED <<main, others, raced, body, bodyFile>>
    BY <1>13, MainGoes
  <2>2. MayBe(t.kind, "check", t.read)
    BY <2>1 DEF MayBe, Unread, Steps4Restore
  <2>3. MergeMain(t.read) \in Seq(Line) /\ Stands(MergeMain(t.read))
    BY <1>3, MergeKeeps, MergedStands
  <2>4. Typed
    BY <1>5, <2>1, <2>2
  <2> QED
    BY <1>6, <2>1, <2>3, <2>4 DEF TypeInv, Typed
<1>14. CASE CheckMerged(k)
  <2>1. /\ t.pc = "check" /\ (End(k, FALSE) \/ Goes(k, "load", t.read, t.calm))
        /\ UNCHANGED <<main, others, raced, body, bodyFile, mainFile>>
    BY <1>14, MainGoes
  <2>2. MayBe(t.kind, "load", t.read)
    BY <2>1 DEF MayBe, Unread, Steps4Restore, Steps4Cleanup
  <2>3. Typed
    BY <1>4, <1>5, <2>1, <2>2
  <2> QED
    BY <1>6, <2>1, <2>3 DEF TypeInv, Typed
<1>15. CASE Strip(k)
  <2>1. /\ t.pc = "merge" /\ t.kind = "cleanup"
        /\ \/ /\ main' = Loaded(DefaultConf)
              /\ others' = IF others = <<>> THEN main' ELSE others
              /\ raced' = (raced \/ Relies(RemoveAt(tasks, k)))
              /\ Goes(k, "files", t.read, t.calm) /\ mainFile' = mainFile
           \/ /\ mainFile' = OrderMain(Others(t.read))
              /\ Goes(k, "load", t.read, t.calm)
              /\ UNCHANGED <<main, others, raced>>
        /\ UNCHANGED <<body, bodyFile>>
    BY <1>15, MainGoes
  <2>2. MayBe(t.kind, "load", t.read) /\ MayBe(t.kind, "files", t.read)
    BY <2>1 DEF MayBe, Unread, Steps4Cleanup
  <2>3. OrderMain(Others(t.read)) \in Seq(Line) /\ Stands(OrderMain(Others(t.read)))
    BY <1>3, StripKeeps, StrippedStands
  <2>4. Loaded(DefaultConf) \in Seq(Rule)
    <3>1. DefaultConf \in Seq(Line) /\ 1 \in 1..5 /\ {} \subseteq At(1)
      BY PfMainAssumption
    <3> QED
      BY <3>1, LoadedByPlace
  <2>5. Typed
    BY <1>5, <2>1, <2>2
  <2>6. raced' \in BOOLEAN
    BY <1>6, <2>1 DEF Relies
  <2> QED
    BY <1>6, <2>1, <2>3, <2>4, <2>5, <2>6 DEF TypeInv, Typed
<1>16. CASE LoadMain(k)
  <2>1. /\ t.pc = "load"
        /\ \/ mainFile # None /\ main' = Loaded(mainFile)
           \/ main' = main
        /\ \/ \E ok : End(k, ok)
           \/ t.kind = "cleanup" /\ \E calm : Goes(k, "files", t.read, calm)
        /\ UNCHANGED <<others, raced, body, bodyFile, mainFile>>
    BY <1>16, MainGoes
  <2>2. t.kind = "cleanup" => MayBe(t.kind, "files", t.read)
    BY DEF MayBe, Unread, Steps4Cleanup
  <2>3. mainFile # None => Loaded(mainFile) \in Seq(Rule)
    <3>1. 1 \in 1..5 /\ {} \subseteq At(1)
      OBVIOUS
    <3> QED
      BY <1>6, <3>1, LoadedByPlace
  <2>4. Typed
    BY <1>4, <1>5, <2>1, <2>2
  <2> QED
    BY <1>6, <2>1, <2>3, <2>4 DEF TypeInv, Typed
<1>17. CASE RemoveFiles(k)
  <2>1. /\ End(k, TRUE) /\ bodyFile' = None /\ mainFile' = None
        /\ UNCHANGED <<main, others, raced, body>>
    BY <1>17 DEF RemoveFiles
  <2> QED
    BY <1>4, <1>6, <2>1 DEF TypeInv, Typed
<1> QED
    BY <1>7, <1>8, <1>9, <1>10, <1>11, <1>12, <1>13, <1>14, <1>15, <1>16, <1>17

(* So does what begins, and what comes from outside.                       *)
LEMMA TypeOfOthers ==
    ASSUME TypeInv, BeginRestore \/ BeginCleanup \/ Rewrite \/ FlushRules \/ Add
    PROVE  TypeInv'
<1>1. /\ main \in Seq(Rule) /\ others \in Seq(Rule) /\ raced \in BOOLEAN
      /\ body \in Seq(Line) /\ bodyFile # None => bodyFile \in Seq(Line)
      /\ mainFile # None => mainFile \in Seq(Line) /\ Stands(mainFile)
    BY DEF TypeInv
<1> DEFINE Typed == tasks' \in Seq(Task) /\ \A u \in Range(tasks') : Fit(u)
<1>2. ASSUME NEW event, NEW rules \in Seq(Rule), NEW wanted \in Seq(Rule),
             Edit(event, rules, wanted)
      PROVE  TypeInv'
  <2>1. /\ Typed
        /\ main' = rules /\ others' = wanted /\ raced' = (raced \/ Relies(tasks))
        /\ UNCHANGED <<body, bodyFile, mainFile>>
    BY <1>2, EditTasks
  <2>2. raced' \in BOOLEAN
    BY <1>1, <2>1 DEF Relies
  <2> QED
    BY <1>1, <1>2, <2>1, <2>2 DEF TypeInv
<1>3. 1 \in 1..5 /\ {} \subseteq At(1)
    OBVIOUS
<1>4. CASE BeginRestore
  <2>1. PICK set \in Settings : Begin("restore", set, "write")
    BY <1>4 DEF BeginRestore
  <2>2. MayBe("restore", "write", <<>>)
    BY DEF MayBe, Steps4Restore
  <2>3. Typed /\ UNCHANGED <<main, others, raced, body, bodyFile, mainFile>>
    BY <2>1, <2>2, BeginTasks
  <2> QED
    BY <1>1, <2>3 DEF TypeInv
<1>5. CASE BeginCleanup
  <2>1. Begin("cleanup", None, "flush")
    BY <1>5 DEF BeginCleanup
  <2>2. MayBe("cleanup", "flush", <<>>)
    BY DEF MayBe, Steps4Cleanup
  <2>3. Typed /\ UNCHANGED <<main, others, raced, body, bodyFile, mainFile>>
    BY <2>1, <2>2, BeginTasks
  <2> QED
    BY <1>1, <2>3 DEF TypeInv
<1>6. CASE Rewrite
  <2>1. PICK file \in Foreign : Edit("rewrite", Loaded(file), Others(Loaded(file)))
    BY <1>6 DEF Rewrite
  <2>2. file \in Seq(Line)
    BY PfMainAssumption
  <2>3. Loaded(file) \in Seq(Rule)
    BY <1>3, <2>2, LoadedByPlace
  <2>4. Others(Loaded(file)) \in Seq(Rule)
    BY <2>3, OnlyMembers DEF Others
  <2> QED
    BY <1>2, <2>1, <2>3, <2>4
<1>7. CASE FlushRules
  <2>1. Edit("flush", ShowNat(main), ShowNat(others))
    BY <1>7 DEF FlushRules
  <2>2. ShowNat(main) \in Seq(Rule) /\ ShowNat(others) \in Seq(Rule)
    BY <1>1, <1>3, ShownByPlace
  <2> QED
    BY <1>2, <2>1, <2>2
<1>8. CASE Add
  <2>1. PICK line \in ForeignLines :
            Edit("add", Added(main, line),
                 IF IsOurs(line) THEN others ELSE Added(others, line))
    BY <1>8 DEF Add
  <2>2. line \in Rule
    BY PfMainAssumption
  <2>3. ASSUME NEW rules \in Seq(Rule) PROVE Added(rules, line) \in Seq(Rule)
    BY ONLY <1>3, <2>2, <2>3, AddedByPlace
  <2>4. (IF IsOurs(line) THEN others ELSE Added(others, line)) \in Seq(Rule)
    BY <1>1, <2>3
  <2>5. Added(main, line) \in Seq(Rule)
    BY <1>1, <2>3
  <2> QED
    BY <1>2, <2>1, <2>4, <2>5
<1> QED
    BY <1>4, <1>5, <1>6, <1>7, <1>8

(* Every variable keeps its type, and what is about to be loaded into MAIN *)
(* stands, through every interleaving of restores, cleanups and edits.     *)
THEOREM TypeCorrect == Spec => []TypeInv
<1>1. TypeInv /\ UNCHANGED vars => TypeInv'
    BY DEF TypeInv, vars
<1>2. TypeInv /\ Next => TypeInv'
    BY TypeOfTasks, TypeOfOthers DEF Next, TaskStep
<1> QED
    BY <1>1, <1>2, TypeInit, PTL DEF Spec

(* Whatever MAIN was like, what tunshare is about to load is a file that   *)
(* pf accepts, with every hook once at most and those for translation and  *)
(* filtering before the rules of anyone else (assemble_main).              *)
THEOREM FilesStand == Spec => []MergeStands
<1>1. TypeInv => MergeStands
    BY DEF TypeInv, Stands, Hooks, MergeStands
<1> QED
    BY <1>1, TypeCorrect, PTL

-----------------------------------------------------------------------------
(* The rules of others are kept.                                           *)

\* Place by place, a text has what others want, beside lines of tunshare.
Same(text, theirs) ==
    \A place \in 1..5 : Only(text, Theirs(place)) = Only(theirs, At(place))

\* A task that has read the translations only has that much of it.
Half(read, theirs) ==
    \A place \in 1..5 : Only(read, Theirs(place)) =
                            IF place = 4 THEN Only(theirs, At(place)) ELSE <<>>

Keeps(t, theirs, file) ==
    /\ t.pc = "filter" => Half(t.read, theirs)
    /\ t.pc = "merge" => Same(t.read, theirs)
    /\ t.pc \in {"check", "load"} /\ file # None => Same(file, theirs)

\* As long as nothing raced, MAIN has what others want in it, and so has all
\* that tasks have read of it and are about to load.
KeptInv ==
    ~raced => Same(main, others) /\ \A t \in Range(tasks) : Keeps(t, others, mainFile)

(* The two reads of a task are MAIN.                                       *)
LEMMA SameRead ==
    ASSUME NEW rules \in Seq(Rule), NEW theirs \in Seq(Rule), Same(rules, theirs)
    PROVE  /\ Half(ShowNat(rules), theirs)
           /\ \A read \in Seq(Rule) :
                  Half(read, theirs) => Same(read \o ShowRules(rules), theirs)
<1>1. \A p \in 1..5 : Theirs(p) \subseteq At(p)
    BY DEF Theirs
<1>2. ASSUME NEW p \in 1..5
      PROVE  /\ ShowRules(rules) \in Seq(Rule)
             /\ Only(ShowNat(rules), Theirs(p)) =
                    IF p = 4 THEN Only(rules, Theirs(p)) ELSE <<>>
             /\ Only(ShowRules(rules), Theirs(p)) =
                    IF p = 4 THEN <<>> ELSE Only(rules, Theirs(p))
  <2> DEFINE U == Theirs(p)
  <2>1. U \subseteq At(p)
    BY <1>1
  <2> HIDE DEF U
  <2>2. /\ ShowRules(rules) \in Seq(Rule)
        /\ Only(ShowNat(rules), U) = IF p = 4 THEN Only(rules, U) ELSE <<>>
        /\ Only(ShowRules(rules), U) = IF p = 4 THEN <<>> ELSE Only(rules, U)
    BY <2>1, ShownByPlace
  <2> QED
    BY <2>2 DEF U
<1>3. Half(ShowNat(rules), theirs)
    BY <1>2 DEF Half, Same
<1>4. ASSUME NEW read \in Seq(Rule), Half(read, theirs), NEW p \in 1..5
      PROVE  Only(read \o ShowRules(rules), Theirs(p)) = Only(theirs, At(p))
  <2> DEFINE rest == ShowRules(rules)
             want == Only(theirs, At(p))
             none == <<>>
  <2>1. rest \in Seq(Rule)
    BY <1>2
  <2> HIDE DEF rest
  <2>2. Only(read \o rest, Theirs(p)) = Only(read, Theirs(p)) \o Only(rest, Theirs(p))
    BY <2>1, OnlyOfConcat
  <2>3. want \in Seq(Rule)
    BY OnlyMembers
  <2>4. Only(read, Theirs(p)) = IF p = 4 THEN want ELSE none
    BY <1>4 DEF Half
  <2>5. Only(rest, Theirs(p)) = IF p = 4 THEN none ELSE want
    BY <1>2 DEF rest, Same
  <2> HIDE DEF want
  <2>6. want \o none = want /\ none \o want = want
    BY <2>3, ConcatEmptySeq
  <2> HIDE DEF none
  <2> QED
    BY <2>2, <2>4, <2>5, <2>6 DEF rest, want
<1> QED
    BY <1>3, <1>4 DEF Same

(* What is written from a text keeps what it has of others.                *)
LEMMA SameFiles ==
    ASSUME NEW read \in Seq(Rule), NEW theirs, Same(read, theirs)
    PROVE  Same(MergeMain(read), theirs) /\ Same(OrderMain(Others(read)), theirs)
BY MergeKeeps, StripKeeps DEF Same

(* Loading a file does, and what others want is what is not of tunshare.   *)
LEMMA SameLoaded ==
    ASSUME NEW file \in Seq(Line), NEW theirs \in Seq(Rule), Same(file, theirs)
    PROVE  Same(Loaded(file), theirs)
<1>1. ASSUME NEW p \in 1..5
      PROVE  Only(Loaded(file), Theirs(p)) = Only(theirs, At(p))
  <2> DEFINE U == Theirs(p)
  <2>1. U \subseteq At(p)
    BY DEF Theirs
  <2>2. Only(file, U) = Only(theirs, At(p))
    BY DEF Same
  <2> HIDE DEF U
  <2>3. Only(Loaded(file), U) = IF p = 1 THEN <<>> ELSE Only(file, U)
    BY <2>1, LoadedByPlace
  <2>4. CASE p = 1
    <3>1. Range(theirs) \cap At(p) = {}
      <4>1. Range(theirs) \subseteq Rule
        BY RangeOfSeq
      <4> QED
        BY <2>4, <4>1, PlacesOfRules DEF At
    <3>2. Only(theirs, At(p)) = <<>>
      BY <3>1, OnlyKeepsNone
    <3> QED
      BY <2>3, <2>4, <3>2 DEF U
  <2>5. CASE p # 1
    BY <2>2, <2>3, <2>5 DEF U
  <2> QED
    BY <2>4, <2>5
<1> QED
    BY <1>1 DEF Same

(* Others want of a text what is not of tunshare, and all of a text with   *)
(* nothing of tunshare.                                                    *)
LEMMA SameOthers ==
    /\ \A text \in Seq(Line) : Same(text, Others(text))
    /\ \A text \in Seq(Line \ Ours) : Same(text, text)
<1>1. \A text \in Seq(Line) : Same(text, Others(text))
    BY OthersByPlace DEF Same
<1>2. ASSUME NEW text \in Seq(Line \ Ours), NEW p \in 1..5
      PROVE  Only(text, Theirs(p)) = Only(text, At(p))
  <2>1. (Line \ Ours) \cap Theirs(p) = (Line \ Ours) \cap At(p)
    BY DEF Theirs
  <2> QED
    BY <2>1, OnlyAgrees
<1> QED
    BY <1>1, <1>2 DEF Same

(* A text with nothing of others says that they want nothing.              *)
LEMMA SameNothing ==
    ASSUME NEW read \in Seq(Rule), NEW theirs \in Seq(Rule), Same(read, theirs),
           RemainingMainIsEmpty(Others(read))
    PROVE  theirs = <<>>
<1>1. read \in Seq(Line) /\ theirs \in Seq(Line)
    BY PlacesOfRules, SeqMonotonic
<1>2. Others(read) = <<>>
  <2>1. Others(Others(read)) = Only(read, (Line \ Ours) \cap (Line \ Ours))
    BY <1>1, OnlyOfOnly DEF Others
  <2>2. (Line \ Ours) \cap (Line \ Ours) = Line \ Ours
    OBVIOUS
  <2> QED
    BY <2>1, <2>2 DEF RemainingMainIsEmpty, Others
<1>3. ASSUME NEW p \in 1..5 PROVE Only(theirs, At(p)) = <<>>
  <2>1. Only(Others(read), At(p)) = Only(theirs, At(p))
    BY <1>1, OthersByPlace DEF Same
  <2> QED
    BY <1>2, <2>1, OnlyOfEmpty
<1> QED
    BY <1>1, <1>3, EmptyByPlace

(* The machine's own configuration has nothing of tunshare.                *)
LEMMA DefaultIsTheirs ==
    /\ Loaded(DefaultConf) \in Seq(Rule)
    /\ Range(Loaded(DefaultConf)) \cap Ours = {}
    /\ Same(Loaded(DefaultConf), Loaded(DefaultConf))
<1> DEFINE file == Loaded(DefaultConf)
<1>1. DefaultConf \in Seq(Line)
    BY PfMainAssumption
<1>2. file \in Seq(Rule) /\ Range(file) = Range(DefaultConf) \cap Rule
  <2>1. file \in Seq(Line \cap Rule) /\ Line \cap Rule = Rule
    BY <1>1, OnlyTyped, PlacesOfRules DEF Loaded
  <2>2. Range(file) = Range(DefaultConf) \cap Rule
    BY <1>1, OnlyMembers DEF Loaded
  <2> QED
    BY <2>1, <2>2
<1>3. Range(file) \cap Ours = {}
    BY <1>2, PfMainAssumption
<1> HIDE DEF file
<1>4. file \in Seq(Line \ Ours)
  <2>1. file \in Seq(Range(file))
    BY <1>2, SeqOfRange
  <2>2. Range(file) \subseteq Line \ Ours
    BY <1>2, <1>3, PlacesOfRules
  <2> QED
    BY <2>1, <2>2, SeqMonotonic
<1>5. Same(file, file)
    BY <1>4, SameOthers
<1> QED
    BY <1>2, <1>3, <1>5 DEF file

(* What an edit does to MAIN it does to what others want.                  *)
LEMMA SameEdits ==
    ASSUME NEW rules \in Seq(Rule), NEW theirs \in Seq(Rule), Same(rules, theirs),
           NEW line \in Rule
    PROVE  /\ Same(ShowNat(rules), ShowNat(theirs))
           /\ Same(Added(rules, line), IF IsOurs(line) THEN theirs ELSE Added(theirs, line))
<1>1. ASSUME NEW p \in 1..5
      PROVE  Only(ShowNat(rules), Theirs(p)) = Only(ShowNat(theirs), At(p))
  <2> DEFINE U == Theirs(p)
             V == At(p)
  <2>1. U \subseteq At(p) /\ V \subseteq At(p)
    BY DEF Theirs
  <2>2. Only(rules, U) = Only(theirs, V)
    BY DEF Same
  <2> HIDE DEF U, V
  <2>3. Only(ShowNat(rules), U) = IF p = 4 THEN Only(rules, U) ELSE <<>>
    BY <2>1, ShownByPlace
  <2>4. Only(ShowNat(theirs), V) = IF p = 4 THEN Only(theirs, V) ELSE <<>>
    BY <2>1, ShownByPlace
  <2> QED
    BY <2>2, <2>3, <2>4 DEF U, V
<1>2. ASSUME NEW p \in 1..5
      PROVE  Only(Added(rules, line), Theirs(p)) =
             Only(IF IsOurs(line) THEN theirs ELSE Added(theirs, line), At(p))
  <2> DEFINE U == Theirs(p)
             V == At(p)
  <2>1. U \subseteq At(p) /\ V \subseteq At(p)
    BY DEF Theirs
  <2>2. Only(rules, U) = Only(theirs, V)
    BY DEF Same
  <2>3. /\ IsOurs(line) => line \notin U
        /\ ~IsOurs(line) => (line \in U <=> line \in V)
    BY PlacesOfRules DEF Theirs, Ours
  <2> HIDE DEF U, V
  <2>4. Only(Added(rules, line), U) =
            IF line \in U THEN Only(rules, U) \o <<line>> ELSE Only(rules, U)
    BY <2>1, AddedByPlace
  <2>5. Only(Added(theirs, line), V) =
            IF line \in V THEN Only(theirs, V) \o <<line>> ELSE Only(theirs, V)
    BY <2>1, AddedByPlace
  <2>6. CASE IsOurs(line)
    BY <2>2, <2>3, <2>4, <2>6 DEF U, V
  <2>7. CASE ~IsOurs(line)
    BY <2>2, <2>3, <2>4, <2>5, <2>7 DEF U, V
  <2> QED
    BY <2>6, <2>7
<1> QED
    BY <1>1, <1>2 DEF Same

(* The first reads see what the others want.                               *)
LEMMA KeptInit == Init => KeptInv
<1> SUFFICES ASSUME Init PROVE KeptInv
    OBVIOUS
<1>1. TypeInv
    BY TypeInit
<1>2. main \in Seq(Line)
    BY <1>1, PlacesOfRules, SeqMonotonic DEF TypeInv
<1>3. Same(main, others)
    BY <1>2, SameOthers DEF Init
<1>4. Range(tasks) = {}
    BY DEF Init, Range
<1> QED
    BY <1>3, <1>4 DEF KeptInv

(* No step of a task loses a rule of others, unless MAIN changed between   *)
(* its reads and its load.                                                 *)
LEMMA KeptByTasks ==
    ASSUME TypeInv, KeptInv, NEW k \in DOMAIN tasks,
           \/ Fails(k) \/ GoesOn(k) \/ WriteBody(k) \/ LoadBody(k) \/ FlushAnchor(k)
           \/ Read(k) \/ WriteMerged(k) \/ CheckMerged(k) \/ Strip(k) \/ LoadMain(k)
           \/ RemoveFiles(k)
    PROVE  KeptInv'
<1> DEFINE t == tasks[k]
           AllKeep == \A u \in Range(tasks') : Keeps(u, others', mainFile')
<1> SUFFICES ASSUME ~raced'
             PROVE  Same(main', others') /\ AllKeep
    BY DEF KeptInv
<1>1. t \in Task /\ t \in Range(tasks) /\ \A j \in DOMAIN tasks : tasks[j] \in Range(tasks)
    BY LenProperties, ElementOfSeq DEF TypeInv, Range
<1>2. Fit(t) /\ t.kind \in {"restore", "cleanup"} /\ t.read \in Seq(Rule)
    BY <1>1 DEF TypeInv, Task
<1>3. main \in Seq(Rule) /\ others \in Seq(Rule) /\ raced \in BOOLEAN
    BY DEF TypeInv
<1>4. ASSUME ~raced
      PROVE  Same(main, others) /\ \A u \in Range(tasks) : Keeps(u, others, mainFile)
    BY <1>4 DEF KeptInv
<1>5. ASSUME NEW pc, NEW read, NEW calm, Goes(k, pc, read, calm),
             MayBe(t.kind, pc, read), NEW theirs, NEW file,
             \A u \in Range(tasks) : Keeps(u, theirs, file),
             pc = "filter" => Half(read, theirs), pc = "merge" => Same(read, theirs),
             pc \in {"check", "load"} /\ file # None => Same(file, theirs)
      PROVE  \A u \in Range(tasks') : Keeps(u, theirs, file)
  <2>1. \A u \in Range(tasks') : \/ Moved(t, u, pc, read, calm)
                                 \/ \E j \in DOMAIN tasks : u = tasks[j]
    BY <1>5, GoesTasks
  <2>2. \A u : Moved(t, u, pc, read, calm) => Keeps(u, theirs, file)
    BY <1>5 DEF Moved, Keeps
  <2> QED
    BY <1>1, <1>5, <2>1, <2>2
<1>6. ASSUME NEW ok, End(k, ok), NEW theirs, NEW file,
             \A u \in Range(tasks) : Keeps(u, theirs, file)
      PROVE  \A u \in Range(tasks') : Keeps(u, theirs, file)
    BY <1>6, EndTasks
<1> DEFINE Kept == \A u \in Range(tasks') : Keeps(u, others, mainFile)
<1>6a. ASSUME ~raced, NEW ok, End(k, ok) PROVE Kept
    BY <1>4, <1>6, <1>6a
<1>6b. ASSUME ~raced, NEW pc \in {"body", "nat", "files"}, NEW calm,
              Goes(k, pc, t.read, calm), MayBe(t.kind, pc, t.read)
       PROVE  Kept
  <2>1. \A u \in Range(tasks) : Keeps(u, others, mainFile)
    BY <1>4, <1>6b
  <2> QED
    BY <1>5, <1>6b, <2>1
<1> HIDE DEF AllKeep, Kept
<1>7. CASE Fails(k)
  <2>1. End(k, FALSE) /\ UNCHANGED <<main, others, raced, mainFile>>
    BY <1>7 DEF Fails
  <2> QED
    BY <1>4, <1>6, <2>1 DEF AllKeep
<1>8. CASE GoesOn(k)
  <2>1. /\ t.kind = "cleanup"
        /\ \/ t.pc = "flush" /\ Goes(k, "nat", t.read, FALSE)
           \/ t.pc \in {"merge", "load"} /\ Goes(k, "files", t.read, FALSE)
        /\ UNCHANGED <<main, others, raced, mainFile>>
    BY <1>8, GoesOnGoes
  <2>2. MayBe(t.kind, "files", t.read)
    BY <2>1 DEF MayBe, Unread, Steps4Cleanup
  <2>3. t.pc = "flush" => MayBe(t.kind, "nat", t.read)
    BY <1>2, <2>1 DEF MayBe, Fit, Unread, Steps4Cleanup
  <2>4. Kept
    BY <1>6b, <2>1, <2>2, <2>3
  <2> QED
    BY <1>4, <2>1, <2>4 DEF AllKeep, Kept
<1>9. CASE WriteBody(k) \/ LoadBody(k) \/ FlushAnchor(k)
  <2>1. /\ \/ t.pc = "write" /\ Goes(k, "body", t.read, t.calm)
           \/ t.pc = "body" /\ End(k, FALSE)
           \/ t.pc \in {"body", "flush"} /\ Goes(k, "nat", t.read, t.calm)
        /\ UNCHANGED <<main, others, raced, mainFile>>
    BY <1>9, BodyGoes
  <2>2. /\ t.pc = "write" => MayBe(t.kind, "body", t.read)
        /\ t.pc \in {"body", "flush"} => MayBe(t.kind, "nat", t.read)
    BY <1>2 DEF MayBe, Fit, Unread, Steps4Restore, Steps4Cleanup
  <2>3. Kept
    BY <1>6a, <1>6b, <2>1, <2>2
  <2> QED
    BY <1>4, <2>1, <2>3 DEF AllKeep, Kept
<1>10. CASE Read(k)
  <2>1. /\ \/ /\ t.pc = "nat" /\ raced' = raced
              /\ Goes(k, "filter", t.read \o ShowNat(main), t.calm)
           \/ /\ t.pc = "filter" /\ raced' = raced
              /\ Goes(k, "merge", t.read \o ShowRules(main), t.calm)
        /\ UNCHANGED <<main, others, mainFile>>
    BY <1>10, ReadGoes
  <2>2. \A read : MayBe(t.kind, "filter", read) /\ MayBe(t.kind, "merge", read)
    BY DEF MayBe, Unread, Steps4Restore, Steps4Cleanup
  <2>3. ~raced /\ Same(main, others) /\ Keeps(t, others, mainFile)
    BY <1>1, <1>4, <2>1
  <2>4. CASE t.pc = "nat"
    <3> DEFINE read == t.read \o ShowNat(main)
    <3>1. t.read = <<>>
      BY <1>2, <2>4 DEF Fit, Unread
    <3>2. Half(ShowNat(main), others)
      BY <1>3, <2>3, SameRead
    <3>3. ShowNat(main) \in Seq(Rule)
      BY <1>3, OnlyMembers DEF ShowNat
    <3>4. read = ShowNat(main)
      BY <3>1, <3>3, ConcatEmptySeq
    <3>5. Half(read, others)
      BY <3>2, <3>4
    <3> HIDE DEF read
    <3>6. Goes(k, "filter", read, t.calm)
      BY <2>1, <2>4 DEF read
    <3>7. \A u \in Range(tasks') : Keeps(u, others, mainFile)
      BY <1>4, <1>5, <2>2, <2>3, <3>5, <3>6
    <3> QED
      BY <2>1, <2>3, <3>7 DEF AllKeep
  <2>5. CASE t.pc # "nat"
    <3> DEFINE read == t.read \o ShowRules(main)
    <3>1. Half(t.read, others)
      BY <2>1, <2>3, <2>5 DEF Keeps
    <3>2. Same(read, others)
      BY <1>2, <1>3, <2>3, <3>1, SameRead
    <3> HIDE DEF read
    <3>3. Goes(k, "merge", read, t.calm)
      BY <2>1, <2>5 DEF read
    <3>4. \A u \in Range(tasks') : Keeps(u, others, mainFile)
      BY <1>4, <1>5, <2>2, <2>3, <3>2, <3>3
    <3> QED
      BY <2>1, <2>3, <3>4 DEF AllKeep
  <2> QED
    BY <2>4, <2>5
<1>11. ASSUME NEW pc \in {"check", "load"}, Goes(k, pc, t.read, t.calm),
              MayBe(t.kind, pc, t.read),
              mainFile' = MergeMain(t.read) \/ mainFile' = OrderMain(Others(t.read)),
              t.pc = "merge", UNCHANGED <<main, others, raced>>
       PROVE  Same(main', others') /\ AllKeep
  <2>1. ~raced /\ Same(main, others) /\ Same(t.read, others)
    BY <1>1, <1>4, <1>11 DEF Keeps
  <2>2. Same(mainFile', others)
    BY <1>2, <1>11, <2>1, SameFiles
  <2>3. \A u \in Range(tasks) : Keeps(u, others, mainFile')
    BY <1>4, <2>1, <2>2 DEF Keeps
  <2>4. \A u \in Range(tasks') : Keeps(u, others, mainFile')
    BY <1>5, <1>11, <2>2, <2>3
  <2> QED
    BY <1>11, <2>1, <2>4 DEF AllKeep
<1>12. CASE WriteMerged(k)
  <2>1. /\ t.pc = "merge" /\ t.kind = "restore" /\ Goes(k, "check", t.read, t.calm)
        /\ mainFile' = MergeMain(t.read) /\ UNCHANGED <<main, others, raced>>
    BY <1>12, MainGoes
  <2>2. MayBe(t.kind, "check", t.read)
    BY <2>1 DEF MayBe, Unread, Steps4Restore
  <2> QED
    BY <1>11, <2>1, <2>2
<1>13. CASE CheckMerged(k)
  <2>1. /\ t.pc = "check" /\ (End(k, FALSE) \/ Goes(k, "load", t.read, t.calm))
        /\ UNCHANGED <<main, others, raced, mainFile>>
    BY <1>13, MainGoes
  <2>2. MayBe(t.kind, "load", t.read)
    BY <2>1 DEF MayBe, Unread, Steps4Restore, Steps4Cleanup
  <2>3. ~raced /\ Same(main, others) /\ Keeps(t, others, mainFile)
    BY <1>1, <1>4, <2>1
  <2>4. mainFile # None => Same(mainFile, others)
    BY <2>1, <2>3 DEF Keeps
  <2>5. Goes(k, "load", t.read, t.calm) => Kept
    <3>1. \A u \in Range(tasks) : Keeps(u, others, mainFile)
      BY <1>4, <2>3
    <3> QED
      BY <1>5, <2>2, <2>4, <3>1 DEF Kept
  <2>6. Kept
    BY <1>6a, <2>1, <2>3, <2>5
  <2> QED
    BY <2>1, <2>3, <2>6 DEF AllKeep, Kept
<1>14. CASE Strip(k)
  <2>1. /\ t.pc = "merge" /\ t.kind = "cleanup"
        /\ \/ /\ RemainingMainIsEmpty(Others(t.read))
              /\ main' = Loaded(DefaultConf)
              /\ others' = IF others = <<>> THEN main' ELSE others
              /\ raced' = (raced \/ Relies(RemoveAt(tasks, k)))
              /\ Goes(k, "files", t.read, t.calm) /\ mainFile' = mainFile
           \/ /\ mainFile' = OrderMain(Others(t.read))
              /\ Goes(k, "load", t.read, t.calm)
              /\ UNCHANGED <<main, others, raced>>
    BY <1>14, MainGoes
  <2>2. MayBe(t.kind, "load", t.read) /\ MayBe(t.kind, "files", t.read)
    BY <2>1 DEF MayBe, Unread, Steps4Cleanup
  <2>3. CASE UNCHANGED <<main, others, raced>> /\ Goes(k, "load", t.read, t.calm)
             /\ mainFile' = OrderMain(Others(t.read))
    BY <1>11, <2>1, <2>2, <2>3
  <2>4. CASE /\ RemainingMainIsEmpty(Others(t.read))
             /\ main' = Loaded(DefaultConf)
             /\ others' = IF others = <<>> THEN main' ELSE others
             /\ raced' = (raced \/ Relies(RemoveAt(tasks, k)))
             /\ Goes(k, "files", t.read, t.calm) /\ mainFile' = mainFile
    <3>1. ~raced /\ ~Relies(RemoveAt(tasks, k))
      BY <1>3, <2>4
    <3>2. Same(t.read, others)
      BY <1>1, <1>4, <2>1, <3>1 DEF Keeps
    <3>3. others = <<>>
      BY <1>2, <1>3, <2>4, <3>2, SameNothing
    <3>4. Same(main', others')
      BY <2>4, <3>3, DefaultIsTheirs
    <3>5. ASSUME NEW j \in DOMAIN tasks, j # k
          PROVE  tasks[j].pc \notin {"filter", "merge", "check", "load"}
      <4>1. tasks[j] \in Range(RemoveAt(tasks, k))
        <5> DEFINE ts == RemoveAt(tasks, k)
                   n == Len(tasks)
        <5>1. /\ tasks \in Seq(Task) /\ n \in Nat /\ DOMAIN tasks = 1..n
          BY LenProperties DEF TypeInv
        <5>2. /\ ts \in Seq(Task) /\ Len(ts) = n - 1
              /\ \A i \in 1..n - 1 : ts[i] = IF i < k THEN tasks[i] ELSE tasks[i + 1]
          BY <5>1, RemoveAtKeeps
        <5>3. DOMAIN ts = 1..Len(ts)
          BY <5>2, LenProperties
        <5> HIDE DEF ts, n
        <5>4. j \in 1..n /\ k \in 1..n
          BY <5>1
        <5>5. CASE j < k
          <6>1. j \in DOMAIN ts /\ ts[j] = tasks[j]
            BY <3>5, <5>1, <5>2, <5>3, <5>4, <5>5
          <6> QED
            BY <6>1 DEF Range, ts
        <5>6. CASE j > k
          <6>1. j - 1 \in 1..n - 1 /\ ~(j - 1 < k) /\ (j - 1) + 1 = j
            BY <5>1, <5>4, <5>6
          <6>2. j - 1 \in DOMAIN ts /\ ts[j - 1] = tasks[j]
            BY <5>2, <5>3, <6>1
          <6> QED
            BY <6>2 DEF Range, ts
        <5> QED
          BY <3>5, <5>1, <5>4, <5>5, <5>6
      <4> QED
        BY <3>1, <4>1 DEF Relies
    <3>6. \A u \in Range(tasks') : \/ Moved(t, u, "files", t.read, t.calm)
                                   \/ \E j \in DOMAIN tasks : j # k /\ u = tasks[j]
      BY <2>2, <2>4, GoesTasks
    <3>7. \A u \in Range(tasks') : u.pc \notin {"filter", "merge", "check", "load"}
      BY <3>5, <3>6 DEF Moved
    <3> QED
      BY <3>4, <3>7 DEF AllKeep, Keeps
  <2> QED
    BY <2>1, <2>3, <2>4
<1>15. CASE LoadMain(k)
  <2>1. /\ t.pc = "load"
        /\ \/ mainFile # None /\ main' = Loaded(mainFile)
           \/ main' = main
        /\ \/ \E ok : End(k, ok)
           \/ t.kind = "cleanup" /\ \E calm : Goes(k, "files", t.read, calm)
        /\ UNCHANGED <<others, raced, mainFile>>
    BY <1>15, MainGoes
  <2>2. t.kind = "cleanup" => MayBe(t.kind, "files", t.read)
    BY DEF MayBe, Unread, Steps4Cleanup
  <2>3. ~raced /\ Same(main, others) /\ Keeps(t, others, mainFile)
    BY <1>1, <1>4, <2>1
  <2>4. ASSUME mainFile # None PROVE Same(Loaded(mainFile), others)
    <3>1. Same(mainFile, others) /\ mainFile \in Seq(Line)
      BY <2>1, <2>3, <2>4 DEF Keeps, TypeInv
    <3> QED
      BY <1>3, <3>1, SameLoaded
  <2>5. Kept
    BY <1>6a, <1>6b, <2>1, <2>2, <2>3
  <2> QED
    BY <2>1, <2>3, <2>4, <2>5 DEF AllKeep, Kept
<1>16. CASE RemoveFiles(k)
  <2>1. /\ End(k, TRUE) /\ mainFile' = None /\ UNCHANGED <<main, others, raced>>
    BY <1>16 DEF RemoveFiles
  <2>2. ~raced /\ Same(main, others) /\ \A u \in Range(tasks) : Keeps(u, others, None)
    BY <1>4, <2>1 DEF Keeps
  <2>3. \A u \in Range(tasks') : Keeps(u, others, None)
    BY <1>6, <2>1, <2>2
  <2> QED
    BY <2>1, <2>2, <2>3 DEF AllKeep
<1> QED
    BY <1>7, <1>8, <1>9, <1>10, <1>12, <1>13, <1>14, <1>15, <1>16

(* What begins has read nothing, and an edit that nobody relies on moves   *)
(* MAIN and what others want together.                                     *)
LEMMA KeptByOthers ==
    ASSUME TypeInv, KeptInv, BeginRestore \/ BeginCleanup \/ Rewrite \/ FlushRules \/ Add
    PROVE  KeptInv'
<1> SUFFICES ASSUME ~raced'
             PROVE  /\ Same(main', others')
                    /\ \A u \in Range(tasks') : Keeps(u, others', mainFile')
    BY DEF KeptInv
<1>1. main \in Seq(Rule) /\ others \in Seq(Rule) /\ raced \in BOOLEAN
    BY DEF TypeInv
<1>2. ASSUME ~raced
      PROVE  Same(main, others) /\ \A t \in Range(tasks) : Keeps(t, others, mainFile)
    BY <1>2 DEF KeptInv
<1>3. ASSUME NEW kind \in {"restore", "cleanup"}, NEW set \in Settings \cup {None},
             NEW pc \in {"write", "flush"}, Begin(kind, set, pc),
             kind = "restore" => set \in Settings, MayBe(kind, pc, <<>>)
      PROVE  /\ Same(main', others')
             /\ \A u \in Range(tasks') : Keeps(u, others', mainFile')
  <2>1. /\ UNCHANGED <<main, others, raced, mainFile>>
        /\ \A u \in Range(tasks') :
               u.pc = pc \/ \E t \in Range(tasks) : Moved(t, u, t.pc, t.read, FALSE)
    BY <1>3, BeginTasks
  <2>2. \A u : u.pc = pc => Keeps(u, others, mainFile)
    BY DEF Keeps
  <2>3. Same(main, others) /\ \A t \in Range(tasks) : Keeps(t, others, mainFile)
    BY <1>2, <2>1
  <2>4. \A t \in Range(tasks) : \A u :
            Moved(t, u, t.pc, t.read, FALSE) => Keeps(u, others, mainFile)
    BY <2>3 DEF Moved, Keeps
  <2> QED
    BY <2>1, <2>2, <2>3, <2>4
<1>4. ASSUME NEW event, NEW rules, NEW wanted, Edit(event, rules, wanted),
             Same(main, others) => Same(rules, wanted)
      PROVE  /\ Same(main', others')
             /\ \A u \in Range(tasks') : Keeps(u, others', mainFile')
  <2>1. /\ main' = rules /\ others' = wanted /\ raced' = (raced \/ Relies(tasks))
        /\ \A u \in Range(tasks') :
               \E t \in Range(tasks) : Moved(t, u, t.pc, t.read, FALSE)
    BY <1>4, EditTasks
  <2>2. ~raced /\ ~Relies(tasks)
    BY <1>1, <2>1
  <2>3. Same(main', others')
    BY <1>2, <1>4, <2>1, <2>2
  <2>4. \A u \in Range(tasks') : u.pc \notin {"filter", "merge", "check", "load"}
    BY <2>1, <2>2 DEF Relies, Moved
  <2> QED
    BY <2>3, <2>4 DEF Keeps
<1>5. CASE BeginRestore
  <2>1. PICK set \in Settings : Begin("restore", set, "write")
    BY <1>5 DEF BeginRestore
  <2>2. MayBe("restore", "write", <<>>)
    BY DEF MayBe, Steps4Restore
  <2> QED
    BY <1>3, <2>1, <2>2
<1>6. CASE BeginCleanup
  <2>1. Begin("cleanup", None, "flush")
    BY <1>6 DEF BeginCleanup
  <2>2. MayBe("cleanup", "flush", <<>>)
    BY DEF MayBe, Steps4Cleanup
  <2> QED
    BY <1>3, <2>1, <2>2
<1>7. CASE Rewrite
  <2>1. PICK file \in Foreign : Edit("rewrite", Loaded(file), Others(Loaded(file)))
    BY <1>7 DEF Rewrite
  <2>2. file \in Seq(Line) /\ 1 \in 1..5 /\ {} \subseteq At(1)
    BY PfMainAssumption
  <2>3. Loaded(file) \in Seq(Rule)
    BY <2>2, LoadedByPlace
  <2>4. Loaded(file) \in Seq(Line)
    BY <2>3, PlacesOfRules, SeqMonotonic
  <2>5. Same(Loaded(file), Others(Loaded(file)))
    BY <2>4, SameOthers
  <2> QED
    BY <1>4, <2>1, <2>5
<1>8. CASE FlushRules
  <2>1. Edit("flush", ShowNat(main), ShowNat(others))
    BY <1>8 DEF FlushRules
  <2>2. PICK line : line \in Rule
    <3>1. L("pass", {}, None) \in Rule
      BY DEF L, Rule, Line, Of, FirstWords, Words
    <3> QED
      BY <3>1
  <2>3. Same(main, others) => Same(ShowNat(main), ShowNat(others))
    BY <1>1, <2>2, SameEdits
  <2> QED
    BY <1>4, <2>1, <2>3
<1>9. CASE Add
  <2>1. PICK line \in ForeignLines :
            Edit("add", Added(main, line),
                 IF IsOurs(line) THEN others ELSE Added(others, line))
    BY <1>9 DEF Add
  <2>2. line \in Rule
    BY PfMainAssumption
  <2>3. Same(main, others) =>
            Same(Added(main, line), IF IsOurs(line) THEN others ELSE Added(others, line))
    BY <1>1, <2>2, SameEdits
  <2> QED
    BY <1>4, <2>1, <2>3
<1> QED
    BY <1>5, <1>6, <1>7, <1>8, <1>9

(* The rules of other programs stay in MAIN, in their order in each        *)
(* section, however restores and cleanups interleave, as long as MAIN is   *)
(* not edited between the reads of one and its load and no read fails      *)
(* (merge_main, order_main, snapshot_main).                                *)
THEOREM OthersStay == Spec => []OthersAreKept
<1>1. KeptInv /\ UNCHANGED vars => KeptInv'
    BY DEF KeptInv, vars
<1>2. TypeInv /\ KeptInv /\ Next => KeptInv'
    BY KeptByTasks, KeptByOthers DEF Next, TaskStep
<1>3. TypeInv /\ KeptInv => OthersAreKept
  <2> SUFFICES ASSUME TypeInv, KeptInv, ~raced PROVE SameRules(Others(main), others)
    BY DEF OthersAreKept
  <2>1. Same(main, others)
    BY DEF KeptInv
  <2>2. main \in Seq(Line)
    BY PlacesOfRules, SeqMonotonic DEF TypeInv
  <2>3. ASSUME NEW p \in 1..5
        PROVE  Only(Others(main), At(p)) = Only(others, At(p))
    BY <2>1, <2>2, OthersByPlace DEF Same
  <2> QED
    BY <2>3 DEF SameRules
<1> QED
    BY <1>1, <1>2, <1>3, KeptInit, TypeCorrect, PTL DEF Spec

-----------------------------------------------------------------------------
(* What a task that nothing ran beside leaves.                             *)

\* How far such a task has come: what the anchor, MAIN and the files hold.
Alone(t, rules, lines, linesFile, rulesFile) ==
    /\ t.kind = "restore" =>
         /\ t.pc = "body" => linesFile = Rules(t.set)
         /\ t.pc \in {"nat", "filter", "merge", "check", "load"} => lines = Rules(t.set)
         /\ t.pc \in {"check", "load"} /\ rulesFile # None
            => Hooks \subseteq Range(rulesFile)
    /\ t.kind = "cleanup" =>
         /\ t.pc # "flush" => lines = <<>>
         /\ t.pc = "load" /\ rulesFile # None => Range(Loaded(rulesFile)) \cap Ours = {}
         /\ t.pc = "files" => Range(rules) \cap Ours = {}

Done(t, rules, lines, linesFile, rulesFile) ==
    /\ t.kind = "restore" => lines = Rules(t.set) /\ Hooks \subseteq Range(rules)
    /\ t.kind = "cleanup" => /\ lines = <<>> /\ Range(rules) \cap Ours = {}
                             /\ linesFile = None /\ rulesFile = None

\* A calm task is the only one, and so far has done its part.
CalmInv ==
    \A t \in Range(tasks) :
        t.calm => Len(tasks) = 1 /\ Alone(t, main, body, bodyFile, mainFile)

\* The one that succeeded last has done all of it, and nothing has begun since.
LastInv ==
    last # None => /\ last \in Task /\ Fit(last) /\ tasks = <<>>
                   /\ Done(last, main, body, bodyFile, mainFile)

(* Hooks are rules: loading a file keeps them.                             *)
LEMMA HooksAreRules ==
    /\ Hooks \subseteq Rule
    /\ \A file \in Seq(Line) : Hooks \subseteq Range(file) => Hooks \subseteq Range(Loaded(file))
<1>1. ASSUME NEW kind \in {"scrub-anchor", "nat-anchor", "rdr-anchor", "anchor"}
      PROVE  Range(Hook(kind)) \subseteq Rule
  <2>1. Hook(kind) \in Seq(Ours) /\ \A line \in Range(Hook(kind)) : line.first = kind
    BY HookLines
  <2>2. Range(Hook(kind)) \subseteq Line
    BY <2>1, RangeOfSeq DEF Ours
  <2> QED
    BY <2>1, <2>2 DEF Rule, Of
<1>2. Hooks \subseteq Rule
  <2> DEFINE a == Hook("nat-anchor")
             b == Hook("rdr-anchor")
  <2>1. a \in Seq(Ours) /\ b \in Seq(Ours)
    BY HookLines
  <2> HIDE DEF a, b
  <2>2. Range(a \o b) = Range(a) \cup Range(b)
    BY <2>1, RangeConcatenation
  <2>3. Range(a \o b) \subseteq Rule
    BY <1>1, <2>2 DEF a, b
  <2> QED
    BY <1>1, <2>3, OwnLines DEF ScrubHooks, NatHooks, FilterHooks, a, b
<1>3. ASSUME NEW file \in Seq(Line) PROVE Range(Loaded(file)) = Range(file) \cap Rule
    BY OnlyMembers DEF Loaded
<1> QED
    BY <1>2, <1>3

(* With a task under way nothing is the last, and a calm task is alone.    *)
LEMMA CalmAlone ==
    ASSUME TypeInv, CalmInv, LastInv, NEW k \in DOMAIN tasks
    PROVE  /\ last = None /\ tasks[k] \in Task /\ Fit(tasks[k])
           /\ tasks[k].calm => /\ Len(tasks) = 1
                               /\ Alone(tasks[k], main, body, bodyFile, mainFile)
           /\ \A j \in DOMAIN tasks : j # k => ~tasks[j].calm
<1>1. /\ Len(tasks) \in Nat /\ DOMAIN tasks = 1..Len(tasks)
      /\ \A j \in DOMAIN tasks : tasks[j] \in Task /\ tasks[j] \in Range(tasks)
    BY LenProperties, ElementOfSeq DEF TypeInv, Range
<1>2. Fit(tasks[k])
    BY <1>1 DEF TypeInv
<1>3. tasks # <<>>
    BY <1>1, EmptySeq
<1>4. last = None
    BY <1>3 DEF LastInv
<1>5. \A j \in DOMAIN tasks : tasks[j].calm =>
          Len(tasks) = 1 /\ Alone(tasks[j], main, body, bodyFile, mainFile)
    BY <1>1 DEF CalmInv
<1> DEFINE n == Len(tasks)
<1> HIDE DEF n
<1>6. n = 1 => \A j \in 1..n : \A i \in 1..n : i = j
    OBVIOUS
<1> QED
    BY <1>1, <1>2, <1>4, <1>5, <1>6 DEF n

(* After a step of one the others are not calm, and it is if it was.       *)
LEMMA CalmGoes ==
    ASSUME TypeInv, CalmInv, LastInv, NEW k \in DOMAIN tasks,
           NEW pc, NEW read, NEW calm, Goes(k, pc, read, calm),
           MayBe(tasks[k].kind, pc, read), calm => tasks[k].calm,
           \A u : calm /\ Moved(tasks[k], u, pc, read, calm)
                 => Alone(u, main', body', bodyFile', mainFile')
    PROVE  CalmInv' /\ LastInv'
<1> DEFINE t == tasks[k]
<1>1. /\ last = None
      /\ t.calm => Len(tasks) = 1
      /\ \A j \in DOMAIN tasks : j # k => ~tasks[j].calm
    BY CalmAlone
<1>2. /\ Len(tasks') = Len(tasks) /\ last' = last
      /\ \A v \in Range(tasks') : \/ Moved(t, v, pc, read, calm)
                                  \/ \E j \in DOMAIN tasks : j # k /\ v = tasks[j]
    BY GoesTasks
<1>3. ASSUME NEW v \in Range(tasks'), v.calm
      PROVE  Len(tasks') = 1 /\ Alone(v, main', body', bodyFile', mainFile')
  <2>1. Moved(t, v, pc, read, calm)
    BY <1>1, <1>2, <1>3
  <2>2. calm
    BY <1>3, <2>1 DEF Moved
  <2>3. Alone(v, main', body', bodyFile', mainFile')
    BY <2>1, <2>2
  <2> QED
    BY <1>1, <1>2, <2>2, <2>3
<1> QED
    BY <1>1, <1>2, <1>3 DEF CalmInv, LastInv

(* No task that ends leaves a calm one; it is the last if it was calm.     *)
LEMMA CalmEnds ==
    ASSUME TypeInv, CalmInv, LastInv, NEW k \in DOMAIN tasks, NEW ok \in BOOLEAN,
           End(k, ok),
           ok /\ tasks[k].calm => Done(tasks[k], main', body', bodyFile', mainFile')
    PROVE  CalmInv' /\ LastInv'
<1> DEFINE t == tasks[k]
<1>1. /\ t \in Task /\ Fit(t)
      /\ t.calm => Len(tasks) = 1
      /\ \A j \in DOMAIN tasks : j # k => ~tasks[j].calm
    BY CalmAlone
<1>2. /\ tasks' \in Seq(Task) /\ Len(tasks') = Len(tasks) - 1
      /\ Range(tasks') \subseteq Range(tasks)
      /\ last' = IF ok /\ t.calm THEN t ELSE None
    BY EndTasks
<1>3. Len(tasks) = 1 => tasks' = <<>> /\ Range(tasks') = {}
  <2>1. Len(tasks) = 1 => Len(tasks') = 0
    BY <1>2
  <2> QED
    BY <1>2, <2>1, EmptySeq DEF Range
<1>4. ASSUME NEW v \in Range(tasks') PROVE ~v.calm
  <2>1. \A u \in Range(tasks) : u.calm => Len(tasks) = 1
    BY DEF CalmInv
  <2>2. v.calm => FALSE
    BY <1>2, <1>3, <2>1
  <2> QED
    BY <2>2
<1>5. CalmInv'
    BY <1>4 DEF CalmInv
<1>6. LastInv'
    BY <1>1, <1>2, <1>3 DEF LastInv
<1> QED
    BY <1>5, <1>6

(* It begins with no task.                                                 *)
LEMMA CalmInit == Init => CalmInv /\ LastInv
BY DEF Init, CalmInv, LastInv, Range

(* A calm task does its part step by step.                                 *)
LEMMA CalmByTasks ==
    ASSUME TypeInv, CalmInv, LastInv, NEW k \in DOMAIN tasks,
           \/ Fails(k) \/ GoesOn(k) \/ WriteBody(k) \/ LoadBody(k) \/ FlushAnchor(k)
           \/ Read(k) \/ WriteMerged(k) \/ CheckMerged(k) \/ Strip(k) \/ LoadMain(k)
           \/ RemoveFiles(k)
    PROVE  CalmInv' /\ LastInv'
<1> DEFINE t == tasks[k]
           Fair(u) == Alone(u, main', body', bodyFile', mainFile')
<1>1. /\ t \in Task /\ Fit(t)
      /\ t.calm => Alone(t, main, body, bodyFile, mainFile)
    BY CalmAlone
<1>2. t.kind \in {"restore", "cleanup"} /\ t.read \in Seq(Rule) /\ t.calm \in BOOLEAN
    BY <1>1 DEF Task
<1>3. ASSUME NEW pc, NEW read, NEW calm, Goes(k, pc, read, calm),
             MayBe(t.kind, pc, read), calm => t.calm,
             \A u : calm /\ Moved(t, u, pc, read, calm) => Fair(u)
      PROVE  CalmInv' /\ LastInv'
    BY <1>3, CalmGoes
<1>4. ASSUME NEW ok \in BOOLEAN, End(k, ok),
             ok /\ t.calm => Done(t, main', body', bodyFile', mainFile')
      PROVE  CalmInv' /\ LastInv'
    BY <1>4, CalmEnds
<1>5. CASE Fails(k)
  <2>1. End(k, FALSE)
    BY <1>5 DEF Fails
  <2> QED
    BY <1>4, <2>1
<1>6. CASE GoesOn(k)
  <2>1. /\ t.kind = "cleanup"
        /\ \/ t.pc = "flush" /\ Goes(k, "nat", t.read, FALSE)
           \/ Goes(k, "files", t.read, FALSE)
    BY <1>6, GoesOnGoes
  <2>2. MayBe(t.kind, "files", t.read)
    BY <2>1 DEF MayBe, Unread, Steps4Cleanup
  <2>3. t.pc = "flush" => MayBe(t.kind, "nat", t.read)
    BY <1>1, <2>1 DEF MayBe, Fit, Unread, Steps4Cleanup
  <2> QED
    BY <1>3, <2>1, <2>2, <2>3
<1>7. CASE WriteBody(k)
  <2>1. /\ t.pc = "write" /\ Goes(k, "body", t.read, t.calm)
        /\ bodyFile' = Rules(t.set)
    BY <1>7, BodyGoes
  <2>2. t.kind = "restore" /\ MayBe(t.kind, "body", t.read)
    BY <1>1, <1>2, <2>1 DEF MayBe, Fit, Unread, Steps4Restore, Steps4Cleanup
  <2>3. \A u : Moved(t, u, "body", t.read, t.calm) => Fair(u)
    BY <2>1, <2>2 DEF Moved, Alone
  <2> QED
    BY <1>3, <2>1, <2>2, <2>3
<1>8. CASE LoadBody(k)
  <2>1. /\ t.pc = "body"
        /\ End(k, FALSE) \/ (body' = bodyFile /\ Goes(k, "nat", t.read, t.calm))
    BY <1>8, BodyGoes
  <2>2. t.kind = "restore" /\ MayBe(t.kind, "nat", t.read)
    BY <1>1, <1>2, <2>1 DEF MayBe, Fit, Unread, Steps4Restore, Steps4Cleanup
  <2>3. ASSUME body' = bodyFile, t.calm, NEW u, Moved(t, u, "nat", t.read, t.calm)
        PROVE  Fair(u)
    BY <1>1, <2>1, <2>2, <2>3 DEF Moved, Alone
  <2>4. CASE End(k, FALSE)
    BY <1>4, <2>4
  <2>5. CASE body' = bodyFile /\ Goes(k, "nat", t.read, t.calm)
    BY <1>3, <2>2, <2>3, <2>5
  <2> QED
    BY <2>1, <2>4, <2>5
<1>9. CASE FlushAnchor(k)
  <2>1. t.pc = "flush" /\ Goes(k, "nat", t.read, t.calm) /\ body' = <<>>
    BY <1>9, BodyGoes
  <2>2. t.kind = "cleanup" /\ MayBe(t.kind, "nat", t.read)
    BY <1>1, <1>2, <2>1 DEF MayBe, Fit, Unread, Steps4Restore, Steps4Cleanup
  <2>3. \A u : Moved(t, u, "nat", t.read, t.calm) => Fair(u)
    BY <2>1, <2>2 DEF Moved, Alone
  <2> QED
    BY <1>3, <2>1, <2>2, <2>3
<1>10. CASE Read(k)
  <2>1. /\ t.pc \in {"nat", "filter"} /\ body' = body
        /\ \E pc \in {"filter", "merge"} : \E read : Goes(k, pc, read, t.calm)
    BY <1>10, ReadGoes
  <2>2. PICK pc \in {"filter", "merge"} : \E read : Goes(k, pc, read, t.calm)
    BY <2>1
  <2>3. PICK read : Goes(k, pc, read, t.calm)
    BY <2>2
  <2>4. MayBe(t.kind, pc, read)
    BY DEF MayBe, Unread, Steps4Restore, Steps4Cleanup
  <2>5. ASSUME t.calm, NEW u, Moved(t, u, pc, read, t.calm) PROVE Fair(u)
    BY <1>1, <2>1, <2>5 DEF Moved, Alone
  <2> QED
    BY <1>3, <2>3, <2>4, <2>5
<1>11. CASE WriteMerged(k)
  <2>1. /\ t.pc = "merge" /\ t.kind = "restore" /\ Goes(k, "check", t.read, t.calm)
        /\ mainFile' = MergeMain(t.read) /\ body' = body
    BY <1>11, MainGoes
  <2>2. MayBe(t.kind, "check", t.read)
    BY <2>1 DEF MayBe, Unread, Steps4Restore
  <2>3. Hooks \subseteq Range(mainFile')
    BY <1>2, <2>1, MergedStands
  <2>4. ASSUME t.calm, NEW u, Moved(t, u, "check", t.read, t.calm) PROVE Fair(u)
    BY <1>1, <2>1, <2>3, <2>4 DEF Moved, Alone
  <2> QED
    BY <1>3, <2>1, <2>2, <2>4
<1>12. CASE CheckMerged(k)
  <2>1. /\ t.pc = "check" /\ (End(k, FALSE) \/ Goes(k, "load", t.read, t.calm))
        /\ body' = body /\ mainFile' = mainFile
    BY <1>12, MainGoes
  <2>2. t.kind = "restore" /\ MayBe(t.kind, "load", t.read)
    BY <1>1, <1>2, <2>1 DEF MayBe, Fit, Unread, Steps4Restore, Steps4Cleanup
  <2>3. ASSUME t.calm, NEW u, Moved(t, u, "load", t.read, t.calm) PROVE Fair(u)
    BY <1>1, <2>1, <2>2, <2>3 DEF Moved, Alone
  <2>4. CASE End(k, FALSE)
    BY <1>4, <2>4
  <2>5. CASE Goes(k, "load", t.read, t.calm)
    BY <1>3, <2>2, <2>3, <2>5
  <2> QED
    BY <2>1, <2>4, <2>5
<1>13. CASE Strip(k)
  <2>1. /\ t.pc = "merge" /\ t.kind = "cleanup" /\ body' = body
        /\ \/ main' = Loaded(DefaultConf) /\ Goes(k, "files", t.read, t.calm)
           \/ /\ mainFile' = OrderMain(Others(t.read))
              /\ Goes(k, "load", t.read, t.calm)
    BY <1>13, MainGoes
  <2>2. MayBe(t.kind, "load", t.read) /\ MayBe(t.kind, "files", t.read)
    BY <2>1 DEF MayBe, Unread, Steps4Cleanup
  <2>3. CASE main' = Loaded(DefaultConf) /\ Goes(k, "files", t.read, t.calm)
    <3>1. Range(main') \cap Ours = {}
      BY <2>3, DefaultIsTheirs
    <3>2. ASSUME t.calm, NEW u, Moved(t, u, "files", t.read, t.calm) PROVE Fair(u)
      BY <1>1, <2>1, <3>1, <3>2 DEF Moved, Alone
    <3> QED
      BY <1>3, <2>2, <2>3, <3>2
  <2>4. CASE mainFile' = OrderMain(Others(t.read)) /\ Goes(k, "load", t.read, t.calm)
    <3>1. Range(Loaded(mainFile')) \cap Ours = {}
      BY <1>2, <2>4, StrippedStands
    <3>2. ASSUME t.calm, NEW u, Moved(t, u, "load", t.read, t.calm) PROVE Fair(u)
      BY <1>1, <2>1, <3>1, <3>2 DEF Moved, Alone
    <3> QED
      BY <1>3, <2>2, <2>4, <3>2
  <2> QED
    BY <2>1, <2>3, <2>4
<1>14. CASE LoadMain(k)
  <2>1. /\ t.pc = "load" /\ body' = body
        /\ \/ /\ mainFile # None /\ main' = Loaded(mainFile)
              /\ \/ t.kind = "restore" /\ End(k, TRUE)
                 \/ t.kind = "cleanup" /\ Goes(k, "files", t.read, t.calm)
           \/ t.kind = "restore" /\ End(k, FALSE)
           \/ t.kind = "cleanup" /\ Goes(k, "files", t.read, FALSE)
    BY <1>14, MainGoes
  <2>2. t.kind = "cleanup" => MayBe(t.kind, "files", t.read)
    BY DEF MayBe, Unread, Steps4Cleanup
  <2>3. CASE /\ mainFile # None /\ main' = Loaded(mainFile)
             /\ t.kind = "restore" /\ End(k, TRUE)
    <3>1. mainFile \in Seq(Line)
      BY <2>3 DEF TypeInv
    <3>2. ASSUME t.calm PROVE Done(t, main', body', bodyFile', mainFile')
      <4>1. body = Rules(t.set) /\ Hooks \subseteq Range(mainFile)
        BY <1>1, <2>1, <2>3, <3>2 DEF Alone
      <4>2. Hooks \subseteq Range(Loaded(mainFile))
        BY <3>1, <4>1, HooksAreRules
      <4> QED
        BY <2>1, <2>3, <4>1, <4>2 DEF Done
    <3> QED
      BY <1>4, <2>3, <3>2
  <2>4. CASE /\ mainFile # None /\ main' = Loaded(mainFile)
             /\ t.kind = "cleanup" /\ Goes(k, "files", t.read, t.calm)
    <3>1. ASSUME t.calm, NEW u, Moved(t, u, "files", t.read, t.calm) PROVE Fair(u)
      BY <1>1, <2>1, <2>4, <3>1 DEF Moved, Alone
    <3> QED
      BY <1>3, <2>2, <2>4, <3>1
  <2>5. CASE t.kind = "restore" /\ End(k, FALSE)
    BY <1>4, <2>5
  <2>6. CASE t.kind = "cleanup" /\ Goes(k, "files", t.read, FALSE)
    BY <1>3, <2>2, <2>6
  <2> QED
    BY <2>1, <2>3, <2>4, <2>5, <2>6
<1>15. CASE RemoveFiles(k)
  <2>1. /\ t.pc = "files" /\ End(k, TRUE) /\ bodyFile' = None /\ mainFile' = None
        /\ UNCHANGED <<main, body>>
    BY <1>15 DEF RemoveFiles
  <2>2. t.kind = "cleanup"
    BY <1>1, <1>2, <2>1 DEF Fit, Steps4Restore
  <2>3. ASSUME t.calm PROVE Done(t, main', body', bodyFile', mainFile')
    BY <1>1, <2>1, <2>2, <2>3 DEF Alone, Done
  <2> QED
    BY <1>4, <2>1, <2>3
<1> QED
    BY <1>5, <1>6, <1>7, <1>8, <1>9, <1>10, <1>11, <1>12, <1>13, <1>14, <1>15

(* What begins or comes from outside takes the calm of every task.         *)
LEMMA CalmByOthers ==
    ASSUME TypeInv, CalmInv, LastInv,
           BeginRestore \/ BeginCleanup \/ Rewrite \/ FlushRules \/ Add
    PROVE  CalmInv' /\ LastInv'
<1>1. ASSUME NEW kind \in {"restore", "cleanup"}, NEW set \in Settings \cup {None},
             NEW pc \in {"write", "flush"}, Begin(kind, set, pc),
             kind = "restore" => set \in Settings, MayBe(kind, pc, <<>>)
      PROVE  CalmInv' /\ LastInv'
  <2>1. /\ last' = None
        /\ \A u \in Range(tasks') :
               \/ u.pc = pc /\ u.kind = kind /\ (u.calm => Len(tasks') = 1)
               \/ \E t \in Range(tasks) : Moved(t, u, t.pc, t.read, FALSE)
    BY <1>1, BeginTasks
  <2>2. \A u : u.pc = pc /\ u.kind = kind => Alone(u, main', body', bodyFile', mainFile')
    BY <1>1 DEF Alone, MayBe, Steps4Restore, Steps4Cleanup
  <2>3. \A u \in Range(tasks') : u.calm =>
            Len(tasks') = 1 /\ Alone(u, main', body', bodyFile', mainFile')
    BY <2>1, <2>2 DEF Moved
  <2> QED
    BY <2>1, <2>3 DEF CalmInv, LastInv
<1>2. ASSUME NEW event, NEW rules, NEW wanted, Edit(event, rules, wanted)
      PROVE  CalmInv' /\ LastInv'
  <2>1. /\ last' = None
        /\ \A u \in Range(tasks') :
               \E t \in Range(tasks) : Moved(t, u, t.pc, t.read, FALSE)
    BY <1>2, EditTasks
  <2>2. \A u \in Range(tasks') : ~u.calm
    BY <2>1 DEF Moved
  <2> QED
    BY <2>1, <2>2 DEF CalmInv, LastInv
<1>3. CASE BeginRestore
  <2>1. PICK set \in Settings : Begin("restore", set, "write")
    BY <1>3 DEF BeginRestore
  <2>2. MayBe("restore", "write", <<>>)
    BY DEF MayBe, Steps4Restore
  <2> QED
    BY <1>1, <2>1, <2>2
<1>4. CASE BeginCleanup
  <2>1. Begin("cleanup", None, "flush")
    BY <1>4 DEF BeginCleanup
  <2>2. MayBe("cleanup", "flush", <<>>)
    BY DEF MayBe, Steps4Cleanup
  <2> QED
    BY <1>1, <2>1, <2>2
<1>5. CASE Rewrite \/ FlushRules \/ Add
  <2>1. \E event, rules, wanted : Edit(event, rules, wanted)
    BY <1>5 DEF Rewrite, FlushRules, Add
  <2> QED
    BY <1>2, <2>1
<1> QED
    BY <1>3, <1>4, <1>5

(* Through every interleaving, a calm task is alone and does its part, and *)
(* what succeeded last has done it.                                        *)
THEOREM CalmHolds == Spec => [](CalmInv /\ LastInv)
<1>1. CalmInv /\ LastInv /\ UNCHANGED vars => (CalmInv /\ LastInv)'
    BY DEF CalmInv, LastInv, vars
<1>2. TypeInv /\ CalmInv /\ LastInv /\ Next => (CalmInv /\ LastInv)'
    BY CalmByTasks, CalmByOthers DEF Next, TaskStep
<1> QED
    BY <1>1, <1>2, CalmInit, TypeCorrect, PTL DEF Spec

-----------------------------------------------------------------------------
(* What is read back.                                                      *)

(* The interface of the first and of the last line of a kind is that of    *)
(* any, if they all have it, and none if there is no such line.            *)
LEMMA EdgesOf ==
    ASSUME NEW text \in Seq(Line), NEW T
    PROVE  /\ Range(text) \cap T = {} =>
                /\ Only(text, T) = <<>>
                /\ FirstOn(Only(text, T)) = None /\ LastOn(Only(text, T)) = None
           /\ \A on : /\ Range(text) \cap T # {}
                      /\ \A line \in Range(text) \cap T : line.on = on
                      => /\ Only(text, T) # <<>>
                         /\ FirstOn(Only(text, T)) = on /\ LastOn(Only(text, T)) = on
<1> DEFINE kept == Only(text, T)
           n == Len(kept)
<1>1. kept \in Seq(Line) /\ Range(kept) = Range(text) \cap T
    BY OnlyMembers
<1> HIDE DEF kept
<1>2. /\ n \in Nat /\ DOMAIN kept = 1..n
      /\ n = 0 <=> kept = <<>>
    BY <1>1, LenProperties, EmptySeq
<1> HIDE DEF n
<1>3. Range(kept) = {} => kept = <<>>
  <2>1. n # 0 => 1 \in DOMAIN kept
    BY <1>2
  <2> QED
    BY <1>2, <2>1 DEF Range
<1>4. ASSUME Range(kept) # {}
      PROVE  kept # <<>> /\ kept[1] \in Range(kept) /\ kept[n] \in Range(kept)
  <2>1. PICK i : i \in DOMAIN kept
    BY <1>4 DEF Range
  <2>2. 1 \in DOMAIN kept /\ n \in DOMAIN kept /\ n # 0
    BY <1>2, <2>1
  <2> QED
    BY <1>2, <2>2 DEF Range
<1>5. FirstOn(kept) = IF kept = <<>> THEN None ELSE kept[1].on
    BY DEF FirstOn
<1>6. LastOn(kept) = IF kept = <<>> THEN None ELSE kept[n].on
    BY DEF LastOn, n
<1> QED
    BY <1>1, <1>3, <1>4, <1>5, <1>6 DEF kept

(* pfctl shows all the rules there are, and nothing else.                  *)
LEMMA ShowsRules ==
    ASSUME NEW rules \in Seq(Line)
    PROVE  Show(rules) \in Seq(Line) /\ Range(Show(rules)) = Range(rules) \cap Rule
<1> DEFINE nat == ShowNat(rules)
           rest == ShowRules(rules)
<1>1. nat \in Seq(Line) /\ Range(nat) = Range(rules) \cap Of(Translations)
    BY OnlyMembers DEF ShowNat
<1>2. rest \in Seq(Line) /\ Range(rest) = Range(rules) \cap (Rule \ Of(Translations))
    BY OnlyMembers DEF ShowRules
<1>3. Of(Translations) \subseteq Rule
    BY PlacesOfRules DEF At
<1> HIDE DEF nat, rest
<1>4. nat \o rest \in Seq(Line) /\ Range(nat \o rest) = Range(nat) \cup Range(rest)
    BY <1>1, <1>2, ConcatProperties, RangeConcatenation
<1>5. Range(rules) \cap Rule = Range(nat) \cup Range(rest)
    BY <1>1, <1>2, <1>3
<1> QED
    BY <1>4, <1>5 DEF Show, nat, rest

(* The rules of a restore, read back from the anchor: its interfaces, its  *)
(* DNS redirect, and the bypass if it has an uplink.                       *)
LEMMA RulesAreParsed ==
    ASSUME NEW s \in Settings
    PROVE  ParsePf(Show(Rules(s))) =
               [vpn |-> s.vpn, lan |-> s.lan, wan |-> s.wan, dnsRdr |-> TRUE,
                bypassNat |-> s.wan # None, routeTo |-> s.wan # None]
<1> DEFINE text == Show(Rules(s))
           bypass == s.wan # None
           rest == IF bypass THEN {"! <bypass>"} ELSE {}
           t1 == L("table", {"<bypass>"}, None)
           s1 == L("scrub", {}, None)
           s2 == L("scrub", rest, s.lan)
           s3 == L("scrub", {}, s.vpn)
           n1 == L("nat", rest, s.vpn)
           n2 == L("nat", {"<bypass>"}, s.wan)
           r1 == L("rdr", {"port 53"}, s.lan)
           p1 == L("pass", {"route-to", "<bypass>", "keep state"}, s.wan)
           p2 == L("pass", {"keep state"}, s.wan)
           p3 == L("pass", {"keep state"}, s.lan)
           p4 == L("pass", {"keep state"}, s.vpn)
           Dns == Of({"rdr"}) \cap With("port 53")
           Wan == Of({"nat"}) \cap With("<bypass>")
           Vpn == Of({"nat"}) \ With("<bypass>")
           Hop == (With("route-to") \ Of({"rdr", "nat"}))
                      \cap (With("<bypass>") \cup With("! <bypass>"))
<1>1. /\ Rules(s) \in Seq(Line)
      /\ Range(Rules(s)) = {s1, s2, s3, n1, r1, p3, p4}
                           \cup IF bypass THEN {t1, n2, p1, p2} ELSE {}
      /\ s.wan \in Interfaces \cup {None}
    BY RulesLines
<1>2. text \in Seq(Line) /\ Range(text) = Range(Rules(s)) \cap Rule
    BY <1>1, ShowsRules
<1>3. Range(Rules(s)) \subseteq Line
    BY <1>1, RangeOfSeq
<1>4. /\ s1 \notin Dns \cup Wan \cup Vpn \cup Hop
      /\ s2 \notin Dns \cup Wan \cup Vpn \cup Hop
      /\ s3 \notin Dns \cup Wan \cup Vpn \cup Hop
      /\ p3 \notin Dns \cup Wan \cup Vpn \cup Hop
      /\ p4 \notin Dns \cup Wan \cup Vpn \cup Hop
      /\ p2 \notin Dns \cup Wan \cup Vpn \cup Hop
    BY DEF L, Of, With
<1>5. /\ n1 \notin Dns \cup Wan \cup Hop /\ n2 \notin Dns \cup Vpn \cup Hop
      /\ r1 \notin Wan \cup Vpn \cup Hop /\ p1 \notin Dns \cup Wan \cup Vpn
      /\ t1 \notin Dns \cup Wan \cup Vpn
    BY DEF L, Of, With
<1>6. t1 \notin Rule
    BY DEF L, Rule, Of
<1>7. /\ n1 \in Line => n1 \in Vpn /\ n1 \in Rule /\ n1.on = s.vpn
      /\ r1 \in Line => r1 \in Dns /\ r1 \in Rule /\ r1.on = s.lan
      /\ n2 \in Line => n2 \in Wan /\ n2 \in Rule /\ n2.on = s.wan
      /\ p1 \in Line => p1 \in Hop /\ p1 \in Rule /\ p1.on = s.wan
    BY DEF L, Of, With, Rule
<1> HIDE DEF text, t1, s1, s2, s3, n1, n2, r1, p1, p2, p3, p4, Dns, Wan, Vpn, Hop
<1>8. Range(text) \cap Vpn = {n1} /\ Range(text) \cap Dns = {r1}
    BY <1>1, <1>2, <1>3, <1>4, <1>5, <1>6, <1>7
<1>9. /\ Range(text) \cap Wan = IF bypass THEN {n2} ELSE {}
      /\ Range(text) \cap Hop = IF bypass THEN {p1} ELSE {}
    BY <1>1, <1>2, <1>3, <1>4, <1>5, <1>6, <1>7
<1>10. /\ n1.on = s.vpn /\ r1.on = s.lan
       /\ bypass => n2.on = s.wan /\ p1.on = s.wan
    BY <1>1, <1>3, <1>7
<1>11. ASSUME NEW T, NEW line, Range(text) \cap T = {line}
       PROVE  /\ Only(text, T) # <<>>
              /\ FirstOn(Only(text, T)) = line.on /\ LastOn(Only(text, T)) = line.on
  <2>1. Range(text) \cap T # {} /\ \A l \in Range(text) \cap T : l.on = line.on
    BY <1>11
  <2> QED
    BY ONLY <1>2, <2>1, EdgesOf
<1>12. ASSUME NEW T, Range(text) \cap T = {}
       PROVE  Only(text, T) = <<>> /\ LastOn(Only(text, T)) = None
    BY ONLY <1>2, <1>12, EdgesOf
<1>13. FirstOn(Only(text, Vpn)) = s.vpn
    BY <1>8, <1>10, <1>11
<1>14. Only(text, Dns) # <<>> /\ LastOn(Only(text, Dns)) = s.lan
    BY <1>8, <1>10, <1>11
<1>15. /\ (Only(text, Wan) # <<>>) = bypass
       /\ LastOn(Only(text, Wan)) = IF bypass THEN s.wan ELSE None
    BY <1>9, <1>10, <1>11, <1>12
<1>16. /\ (Only(text, Hop) # <<>>) = bypass
       /\ LastOn(Only(text, Hop)) = IF bypass THEN s.wan ELSE None
    BY <1>9, <1>10, <1>11, <1>12
<1>17. ParsePf(text) =
           [vpn |-> FirstOn(Only(text, Vpn)), lan |-> LastOn(Only(text, Dns)),
            wan |-> IF Only(text, Hop) # <<>> THEN LastOn(Only(text, Hop))
                    ELSE LastOn(Only(text, Wan)),
            dnsRdr |-> Only(text, Dns) # <<>>, bypassNat |-> Only(text, Wan) # <<>>,
            routeTo |-> Only(text, Hop) # <<>>]
    BY DEF ParsePf, Dns, Wan, Vpn, Hop
<1>18. (IF Only(text, Hop) # <<>> THEN LastOn(Only(text, Hop))
        ELSE LastOn(Only(text, Wan))) = s.wan
    BY <1>15, <1>16
<1> QED
    BY <1>13, <1>14, <1>15, <1>16, <1>17, <1>18 DEF text

(* A text without a DNS redirect shows none; one with nothing, nothing.    *)
LEMMA NothingIsParsed ==
    /\ ParsePf(<<>>) = [vpn |-> None, lan |-> None, wan |-> None, dnsRdr |-> FALSE,
                        bypassNat |-> FALSE, routeTo |-> FALSE]
    /\ \A text \in Seq(Line) : Range(text) \cap Ours = {} => ~ParsePf(text).dnsRdr
<1>1. \A T : Only(<<>>, T) = <<>>
    BY OnlyOfEmpty
<1>2. FirstOn(<<>>) = None /\ LastOn(<<>>) = None
    BY DEF FirstOn, LastOn
<1>3. ParsePf(<<>>) = [vpn |-> None, lan |-> None, wan |-> None, dnsRdr |-> FALSE,
                       bypassNat |-> FALSE, routeTo |-> FALSE]
    BY <1>1, <1>2 DEF ParsePf
<1>4. ASSUME NEW text \in Seq(Line), Range(text) \cap Ours = {}
      PROVE  ~ParsePf(text).dnsRdr
  <2> DEFINE Dns == Of({"rdr"}) \cap With("port 53")
  <2>1. Dns \subseteq Ours
    BY DEF Of, With, Ours, IsOurs
  <2>2. Range(text) \cap Dns = {}
    BY <1>4, <2>1
  <2> HIDE DEF Dns
  <2>3. Only(text, Dns) = <<>>
    BY <2>2, EdgesOf
  <2>4. ParsePf(text).dnsRdr = (Only(text, Dns) # <<>>)
    BY DEF ParsePf, Dns
  <2> QED
    BY <2>3, <2>4
<1> QED
    BY <1>3, <1>4

(* A text with the hooks shows them.                                       *)
LEMMA HooksAreSeen ==
    ASSUME NEW text, Hooks \subseteq Range(text)
    PROVE  HooksPresent(text)
<1>1. ASSUME NEW kind \in {"scrub-anchor", "nat-anchor", "rdr-anchor", "anchor"},
             NEW child \in BOOLEAN
      PROVE  \E line \in Range(text) : /\ line.first = kind
                                       /\ "com.tunshare" \in line.has
                                       /\ ("*" \in line.has) = child
  <2> DEFINE a == L(kind, {"com.tunshare"}, None)
             b == L(kind, {"com.tunshare", "*"}, None)
  <2>1. /\ a.first = kind /\ "com.tunshare" \in a.has /\ "*" \notin a.has
        /\ b.first = kind /\ "com.tunshare" \in b.has /\ "*" \in b.has
    BY DEF L
  <2>2. Hook(kind) = <<a, b>>
    BY DEF Hook
  <2> HIDE DEF a, b
  <2>3. Range(Hook(kind)) = {a, b}
    BY <2>2 DEF Range
  <2>4. Range(Hook(kind)) \subseteq Hooks
    <3> DEFINE x == Hook("nat-anchor")
               y == Hook("rdr-anchor")
    <3>1. x \in Seq(Ours) /\ y \in Seq(Ours)
      BY HookLines
    <3> HIDE DEF x, y
    <3>2. Range(x \o y) = Range(x) \cup Range(y)
      BY <3>1, RangeConcatenation
    <3>3. Range(NatHooks) = Range(Hook("nat-anchor")) \cup Range(Hook("rdr-anchor"))
      BY <3>2 DEF NatHooks, x, y
    <3> QED
      BY <3>3, OwnLines DEF ScrubHooks, FilterHooks
  <2>5. a \in Range(text) /\ b \in Range(text)
    BY <2>3, <2>4
  <2> QED
    BY <2>1, <2>5
<1> QED
    BY <1>1 DEF HooksPresent

(* A restore that is done is seen as one.                                  *)
LEMMA RestoreIsSeen ==
    ASSUME NEW s \in Settings, NEW rules \in Seq(Rule), Hooks \subseteq Range(rules)
    PROVE  LET live == Contract(Show(rules), Show(Rules(s)))
               bypassOn == s.wan # None
           IN  /\ ~Missing(live, bypassOn)
               /\ \A tableShown : (bypassOn => tableShown)
                      => Mismatches(TRUE, live, bypassOn, tableShown) = {}
               /\ live.vpn = s.vpn /\ live.lan = s.lan /\ live.wan = s.wan
<1> DEFINE text == Show(rules)
           live == Contract(text, Show(Rules(s)))
           bypass == s.wan # None
           own == ParsePf(Show(Rules(s)))
           old == ParsePf(<<>>)
<1>1. /\ s.vpn \in Interfaces /\ s.lan \in Interfaces
      /\ s.wan \in Interfaces \cup {None} /\ None \notin Interfaces
    BY RulesLines, PfMainAssumption
<1>2. own = [vpn |-> s.vpn, lan |-> s.lan, wan |-> s.wan, dnsRdr |-> TRUE,
             bypassNat |-> bypass, routeTo |-> bypass]
    BY RulesAreParsed
<1>3. old = [vpn |-> None, lan |-> None, wan |-> None, dnsRdr |-> FALSE,
             bypassNat |-> FALSE, routeTo |-> FALSE]
    BY NothingIsParsed
<1>4. HooksPresent(text)
  <2>1. rules \in Seq(Line)
    BY PlacesOfRules, SeqMonotonic
  <2>2. Range(text) = Range(rules) \cap Rule
    BY <2>1, ShowsRules
  <2>3. Hooks \subseteq Range(text)
    BY <2>2, HooksAreRules
  <2> QED
    BY <2>3, HooksAreSeen
<1> HIDE DEF text, own, old, bypass
<1>5. own.dnsRdr = TRUE
    BY <1>2
<1> DEFINE Either(mine, other) == IF mine = None THEN other ELSE mine
<1>6. live = [hooks |-> HooksPresent(text),
              vpn |-> Either(own.vpn, old.vpn), lan |-> Either(own.lan, old.lan),
              wan |-> Either(own.wan, old.wan), dnsRdr |-> own.dnsRdr \/ old.dnsRdr,
              bypassNat |-> own.bypassNat \/ old.bypassNat,
              routeTo |-> own.routeTo \/ old.routeTo]
    BY <1>5 DEF Contract, own, old
<1>7. bypass \in BOOLEAN /\ (bypass <=> s.wan # None)
    BY DEF bypass
<1>8. /\ live.vpn = s.vpn /\ live.lan = s.lan /\ live.wan = s.wan
      /\ live.hooks /\ live.dnsRdr
      /\ live.bypassNat <=> bypass
      /\ live.routeTo <=> bypass
  <2> HIDE DEF live
  <2>1. /\ own.vpn = s.vpn /\ own.lan = s.lan /\ own.wan = s.wan
        /\ own.bypassNat = bypass /\ own.routeTo = bypass
    BY <1>2
  <2>2. old.wan = None /\ old.bypassNat = FALSE /\ old.routeTo = FALSE
    BY <1>3
  <2>3. /\ live.vpn = Either(own.vpn, old.vpn) /\ live.lan = Either(own.lan, old.lan)
        /\ live.wan = Either(own.wan, old.wan) /\ live.hooks = HooksPresent(text)
    BY <1>6
  <2>4. /\ live.dnsRdr = (own.dnsRdr \/ old.dnsRdr)
        /\ live.bypassNat = (own.bypassNat \/ old.bypassNat)
        /\ live.routeTo = (own.routeTo \/ old.routeTo)
    BY <1>6
  <2>5. live.vpn = s.vpn /\ live.lan = s.lan /\ live.wan = s.wan
    BY <1>1, <2>1, <2>2, <2>3
  <2>6. live.dnsRdr /\ live.bypassNat = bypass /\ live.routeTo = bypass
    BY <1>5, <1>7, <2>1, <2>2, <2>4
  <2> QED
    BY <1>4, <1>7, <2>3, <2>5, <2>6
<1> HIDE DEF live
<1>9. ~Missing(live, bypass)
    BY <1>8 DEF Missing
<1>10. ASSUME NEW tableShown, bypass => tableShown
       PROVE  Mismatches(TRUE, live, bypass, tableShown) = {}
  <2>1. SharingState(TRUE, live.dnsRdr) = "Running"
    BY <1>8 DEF SharingState
  <2> DEFINE Bad(m) == CASE m = "no hooks"        -> ~live.hooks
                         [] m = "no bypass rules" -> bypass /\ live.hooks
                                                     /\ Missing(live, TRUE)
                         [] m = "no uplink"       -> bypass /\ live.wan = None
                         [] m = "no table"        -> bypass /\ ~tableShown
             All == {"no hooks", "no bypass rules", "no uplink", "no table"}
  <2>2. bypass => ~Missing(live, TRUE)
    BY <1>9
  <2>3. ASSUME NEW m \in All PROVE ~Bad(m)
    <3>1. CASE m = "no hooks"
      BY <1>8, <3>1
    <3>2. CASE m = "no bypass rules"
      BY <2>2, <3>2
    <3>3. CASE m = "no uplink"
      BY <1>7, <1>8, <3>3
    <3>4. CASE m = "no table"
      BY <1>10, <3>4
    <3> QED
      BY <3>1, <3>2, <3>3, <3>4
  <2>4. Mismatches(TRUE, live, bypass, tableShown) = {m \in All : Bad(m)}
    BY <2>1 DEF Mismatches
  <2> HIDE DEF Bad, All
  <2> QED
    BY <2>3, <2>4
<1> QED
    BY <1>8, <1>9, <1>10 DEF live, text, bypass

(* After a cleanup that is done nothing is seen.                           *)
LEMMA CleanupIsSeen ==
    ASSUME NEW rules \in Seq(Rule), Range(rules) \cap Ours = {}
    PROVE  SharingState(FALSE, Contract(Show(rules), Show(<<>>)).dnsRdr) = "Stopped"
<1> DEFINE text == Show(rules)
           none == <<>>
           live == Contract(text, Show(none))
<1>1. none \in Seq(Line) /\ Range(none) = {}
    BY EmptySeq DEF Range
<1>2. rules \in Seq(Line)
    BY PlacesOfRules, SeqMonotonic
<1>3. Show(none) \in Seq(Line) /\ Range(Show(none)) \cap Ours = {}
  <2> HIDE DEF none
  <2>1. Show(none) \in Seq(Line) /\ Range(Show(none)) = Range(none) \cap Rule
    BY <1>1, ShowsRules
  <2> QED
    BY <1>1, <2>1
<1>4. text \in Seq(Line) /\ Range(text) \cap Ours = {}
    BY <1>2, ShowsRules
<1> HIDE DEF text, none
<1>5. ~ParsePf(Show(none)).dnsRdr /\ ~ParsePf(text).dnsRdr
    BY <1>3, <1>4, NothingIsParsed
<1> DEFINE own == ParsePf(Show(none))
           old == ParsePf(IF own.dnsRdr THEN <<>> ELSE text)
<1>6. live.dnsRdr = (own.dnsRdr \/ old.dnsRdr)
    BY DEF Contract
<1>7. old = ParsePf(text)
    BY <1>5
<1> HIDE DEF own, old, live
<1>8. live.dnsRdr = FALSE
    BY <1>5, <1>6, <1>7 DEF own
<1> QED
    BY <1>8 DEF SharingState, live, text, none

(* A restore that says it worked, and that nothing ran beside, is seen as  *)
(* one: nothing is missing, and the interfaces are those it was for.       *)
(* After such a cleanup nothing of tunshare is left (inspect_live,         *)
(* mismatches, sharing_state).                                             *)
THEOREM ResultSeen == Spec => []ResultIsSeen
<1>1. ASSUME TypeInv, LastInv, last # None, last.kind = "restore"
      PROVE  LET bypassOn == last.set.wan # None
             IN  /\ ~Missing(Live, bypassOn)
                 /\ Mismatches(TRUE, Live, bypassOn, TableShown) = {}
                 /\ Live.vpn = last.set.vpn /\ Live.lan = last.set.lan
                 /\ Live.wan = last.set.wan
  <2> DEFINE s == last.set
  <2>1. /\ s \in Settings /\ body = Rules(s) /\ Hooks \subseteq Range(main)
        /\ main \in Seq(Rule)
    BY <1>1 DEF LastInv, Fit, Done, TypeInv
  <2>2. s.wan # None => TableShown
    <3> DEFINE table == L("table", {"<bypass>"}, None)
    <3>1. s.wan # None => table \in Range(body)
      BY <2>1, RulesLines
    <3>2. table.first = "table"
      BY DEF L
    <3> QED
      BY <3>1, <3>2 DEF TableShown
  <2>3. Live = Contract(Show(main), Show(Rules(s)))
    BY <2>1 DEF Live
  <2> HIDE DEF s
  <2>4. /\ ~Missing(Live, s.wan # None)
        /\ Mismatches(TRUE, Live, s.wan # None, TableShown) = {}
        /\ Live.vpn = s.vpn /\ Live.lan = s.lan /\ Live.wan = s.wan
    BY <2>1, <2>2, <2>3, RestoreIsSeen
  <2> QED
    BY <2>4 DEF s
<1>2. ASSUME TypeInv, LastInv, last # None, last.kind # "restore"
      PROVE  /\ ~\E line \in Range(main \o body) : IsOurs(line)
             /\ bodyFile = None /\ mainFile = None
             /\ SharingState(FALSE, Live.dnsRdr) = "Stopped"
  <2>1. last.kind = "cleanup"
    BY <1>2 DEF LastInv, Task
  <2>2. /\ body = <<>> /\ Range(main) \cap Ours = {} /\ main \in Seq(Rule)
        /\ bodyFile = None /\ mainFile = None
    BY <1>2, <2>1 DEF LastInv, Done, TypeInv
  <2>3. main \o body = main
    BY <2>2, ConcatEmptySeq
  <2>4. ~\E line \in Range(main) : IsOurs(line)
    <3>1. Range(main) \subseteq Line
      BY <2>2, RangeOfSeq, PlacesOfRules
    <3> QED
      BY <2>2, <3>1 DEF Ours
  <2>5. Live = Contract(Show(main), Show(<<>>))
    BY <2>2 DEF Live
  <2>6. SharingState(FALSE, Live.dnsRdr) = "Stopped"
    BY <2>2, <2>5, CleanupIsSeen
  <2> QED
    BY <2>2, <2>3, <2>4, <2>6
<1>3. TypeInv /\ LastInv => ResultIsSeen
    BY <1>1, <1>2, Zenon DEF ResultIsSeen
<1> QED
    BY <1>3, TypeCorrect, CalmHolds, PTL
=============================================================================
