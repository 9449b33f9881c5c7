---------------------------- MODULE PanelTitleProofs ----------------------------
(***************************************************************************)
(* PanelTitle for every number of records, hooks, restarts and proposals:  *)
(* a rename survives the restarts, an inherited name stays out, and a      *)
(* titled panel is not asked about too soon.                               *)
(***************************************************************************)
EXTENDS PanelTitle, FiniteSetTheorems, SequenceTheorems, TLAPS

Shape == TypeOK /\ Len(file) <= MaxRecords

(* The session came out of a /clear.                                       *)
FromClear == log # <<>> /\ log[1] = "clear"

(* Its hook is the first of all; a life that reads the transcript again    *)
(* hears it first.  So once a prompt was read no suppression is left.      *)
History ==
    /\ \A j \in 2..Len(log) : log[j] # "clear"
    /\ FromClear => boot >= 1 \/ heard >= 1 \/ Prompts(Len(file)) = 0
    /\ Prompts(read) > 0 => panel.there /\ panel.supp = "off" /\ (FromClear => heard >= 1)

(* The last rename stands as soon as this life has read it.                *)
LastRename(i) ==
    Prompts(i) > 0 /\ file[i].kind = "custom" /\ Namings(i) = {i}
RenameRead ==
    \A i \in DOMAIN file :
      ~late /\ LastRename(i) /\ read >= i => panel.title = file[i].name /\ panel.renamed

(* The last request is no newer than the last evaluation.                  *)
Spaced ==
    \A i \in DOMAIN asked :
      /\ asked[i].turns <= turnCount
      /\ \A j \in DOMAIN state.lastEval :
           /\ asked[i].turns <= state.lastEval[j].turns
           /\ state.lastEval[j].aged => asked[i].aged

(* In the first life, as long as the old names are only repeated before    *)
(* the first prompt: nothing else happens before the hook is heard, and    *)
(* from then to the first prompt the custom-title is suppressed, unless    *)
(* the ai-title had come first under another name.                         *)
OnlyInherited == \A i \in DOMAIN file : file[i].name \in Inherited => Prompts(i) = 0
Before ==
    /\ panel.title \in {Placeholder, Old} \/ (panel.title = OldAi /\ panel.ai = OldAi)
    /\ Prompts(Len(file)) = 0
    /\ ~state.timer /\ calls.first = 0 /\ calls.again = 0
Slipped == panel.ai = OldAi /\ OldAi # Old
After ==
    /\ panel.title # OldAi
    /\ panel.title = Old => Slipped
    /\ IF panel.there
       THEN Prompts(Len(file)) = 0 =>
                \/ panel.supp \in {"any", Old}
                \/ Slipped /\ (panel.supp = OldAi \/ panel.renamed)
       ELSE pendingClear
NamesOut ==
    /\ life = 0 => read = Len(file)
    /\ ~panel.there => panel.title \notin Inherited
    /\ life = 0 /\ FromClear /\ OnlyInherited => IF heard = 0 THEN Before ELSE After

Inv == Shape /\ History /\ RenameRead /\ Spaced /\ NamesOut

----------------------------------------------------------------------------
(* Counting prompts.                                                       *)

PromptsOf(f, n) == Cardinality({i \in 1..n : f[i].kind = "prompt"})

LEMMA PromptsFacts ==
    ASSUME NEW f, NEW n \in Nat
    PROVE  /\ PromptsOf(f, n) \in 0..n
           /\ PromptsOf(f, n) = 0 <=> \A i \in 1..n : f[i].kind # "prompt"
<1> DEFINE S == {i \in 1..n : f[i].kind = "prompt"}
<1>1. IsFiniteSet(1..n) /\ Cardinality(1..n) = n
  BY FS_Interval
<1>2. S \subseteq 1..n
  OBVIOUS
<1>3. IsFiniteSet(S) /\ Cardinality(S) <= n
  BY <1>1, <1>2, FS_Subset
<1>4. Cardinality(S) \in Nat /\ (Cardinality(S) = 0 <=> S = {})
  BY <1>3, FS_CardinalityType, FS_EmptySet
<1>5. S = {} <=> \A i \in 1..n : f[i].kind # "prompt"
  OBVIOUS
<1> QED
  BY <1>3, <1>4, <1>5 DEF PromptsOf

LEMMA PromptsGrow ==
    ASSUME NEW f, NEW n \in Nat, NEW m \in Nat, n <= m
    PROVE  PromptsOf(f, n) <= PromptsOf(f, m)
<1> DEFINE S == {i \in 1..n : f[i].kind = "prompt"}
           T == {i \in 1..m : f[i].kind = "prompt"}
<1>1. S \subseteq T /\ T \subseteq 1..m
  OBVIOUS
<1>2. IsFiniteSet(T)
  <2>1. IsFiniteSet(1..m)
    BY FS_Interval
  <2> HIDE DEF T
  <2> QED
    BY <1>1, <2>1, FS_Subset
<1>3. Cardinality(S) <= Cardinality(T)
  BY <1>1, <1>2, FS_Subset
<1> QED
  BY <1>3 DEF PromptsOf

LEMMA PromptsKept ==
    ASSUME NEW f \in Seq(Records), NEW r \in Records, NEW n \in 0..Len(f)
    PROVE  PromptsOf(Append(f, r), n) = PromptsOf(f, n)
<1>1. \A i \in 1..n : Append(f, r)[i] = f[i]
  BY AppendProperties
<1>2. {i \in 1..n : Append(f, r)[i].kind = "prompt"} = {i \in 1..n : f[i].kind = "prompt"}
  BY <1>1
<1> QED
  BY <1>2 DEF PromptsOf

(* The transcript with one more record.                                    *)
LEMMA FileAppend ==
    ASSUME file \in Seq(Records), NEW r \in Records, file' = Append(file, r)
    PROVE  /\ file' \in Seq(Records) /\ Len(file) \in Nat /\ Len(file') = Len(file) + 1
           /\ \A i \in 1..Len(file) : file'[i] = file[i]
           /\ file'[Len(file) + 1] = r
           /\ \A n \in 0..Len(file) : Prompts(n)' = Prompts(n) /\ Prompts(n) \in 0..n
           /\ Prompts(Len(file))' \in 0..(Len(file) + 1)
           /\ Prompts(Len(file)) <= Prompts(Len(file))'
           /\ Prompts(Len(file))' = 0 <=> Prompts(Len(file)) = 0 /\ r.kind # "prompt"
<1> DEFINE f == Append(file, r)
           m == Len(file) + 1
<1>1. /\ f \in Seq(Records) /\ Len(file) \in Nat /\ Len(f) = m
      /\ \A i \in 1..Len(file) : f[i] = file[i]
      /\ f[m] = r
  BY AppendProperties
<1>2. \A n \in 0..Len(file) : PromptsOf(f, n) = PromptsOf(file, n) /\ PromptsOf(file, n) \in 0..n
  BY <1>1, PromptsKept, PromptsFacts
<1> HIDE DEF f
<1>3. PromptsOf(f, m) \in 0..m /\ (PromptsOf(f, m) = 0 <=> \A i \in 1..m : f[i].kind # "prompt")
  BY <1>1, PromptsFacts
<1>4. PromptsOf(file, Len(file)) = 0 <=> \A i \in 1..Len(file) : file[i].kind # "prompt"
  BY <1>1, PromptsFacts
<1>5. PromptsOf(file, Len(file)) <= PromptsOf(f, m)
  <2>1. Len(file) \in 0..Len(file) /\ m \in Nat /\ Len(file) <= m
    BY <1>1
  <2>2. PromptsOf(f, Len(file)) <= PromptsOf(f, m)
    BY <1>1, <2>1, PromptsGrow
  <2> QED
    BY <1>2, <2>1, <2>2
<1>6. PromptsOf(f, m) = 0 <=> PromptsOf(file, Len(file)) = 0 /\ r.kind # "prompt"
  <2>1. \A i \in 1..m : i \in 1..Len(file) \/ i = m
    BY <1>1
  <2>2. m \in 1..m /\ \A i \in 1..Len(file) : i \in 1..m
    BY <1>1
  <2> HIDE DEF m
  <2> QED
    BY <1>1, <1>3, <1>4, <2>1, <2>2
<1>7. \A n : Prompts(n) = PromptsOf(file, n) /\ Prompts(n)' = PromptsOf(f, n)
  BY DEF Prompts, PromptsOf, f
<1>8. file' = f
  BY DEF f
<1>9. /\ \A n \in 0..Len(file) : Prompts(n)' = Prompts(n) /\ Prompts(n) \in 0..n
  BY <1>2, <1>7
<1>10. Prompts(Len(file))' = PromptsOf(f, m) /\ Prompts(Len(file)) = PromptsOf(file, Len(file))
  BY <1>1, <1>8 DEF Prompts, PromptsOf
<1> QED
  BY <1>1, <1>3, <1>5, <1>6, <1>8, <1>9, <1>10

LEMMA PromptsParts ==
    ASSUME NEW n \in Nat
    PROVE  /\ Prompts(n) \in 0..n
           /\ Prompts(n) = 0 <=> \A i \in 1..n : file[i].kind # "prompt"
           /\ \A m \in Nat : n <= m => Prompts(n) <= Prompts(m)
<1>1. \A m : Prompts(m) = PromptsOf(file, m)
  BY DEF Prompts, PromptsOf
<1> QED
  BY <1>1, PromptsFacts, PromptsGrow

----------------------------------------------------------------------------
(* The titler.                                                             *)

TitlerTyped ==
    /\ state \in PanelState /\ client \in {"unbuilt", "loading", "ready"}
    /\ calls \in [{"first", "again"} -> Nat] /\ asked \in Evals

(* It evaluates without asking, or it asks.                                *)
Calm == asked' = asked /\ calls' = calls /\ state'.lastEval \in {state.lastEval, Baseline}
Asks(reason) ==
    /\ asked' = Baseline /\ state'.lastEval = Baseline
    /\ calls' = [calls EXCEPT !.first = @ + 1]
    /\ hasCustomTitle => state.lastEval # <<>>
    /\ shouldFire(state, reason)

LEMMA StateParts ==
    ASSUME NEW s \in PanelState
    PROVE  /\ s.exists \in BOOLEAN /\ s.timer \in BOOLEAN /\ s.cool \in BOOLEAN
           /\ s.inflight \in BOOLEAN /\ s.lastEval \in Evals
           /\ \A b \in BOOLEAN :
                /\ [s EXCEPT !.exists = b] \in PanelState
                /\ [s EXCEPT !.timer = b] \in PanelState
                /\ [s EXCEPT !.cool = b] \in PanelState
                /\ [s EXCEPT !.inflight = b] \in PanelState
           /\ \A e \in Evals :
                /\ [s EXCEPT !.lastEval = e] \in PanelState
                /\ [s EXCEPT !.inflight = TRUE, !.lastEval = e] \in PanelState
  BY DEF PanelState

LEMMA BaselineParts ==
    ASSUME Shape
    PROVE  /\ turnCount \in 0..MaxRecords /\ Baseline \in Evals
           /\ DOMAIN Baseline = {1} /\ Baseline[1].turns = turnCount /\ ~Baseline[1].aged
<1>1. read \in 0..Len(file) /\ Len(file) \in Nat /\ Len(file) <= MaxRecords /\ MaxRecords \in Nat
  BY BoundsAssumption DEF Shape, TypeOK
<1>2. turnCount \in 0..MaxRecords
  <2>1. turnCount \in 0..read
    BY <1>1, PromptsParts DEF turnCount
  <2> QED
    BY <1>1, <2>1
<1> DEFINE e == [turns |-> turnCount, aged |-> FALSE]
<1>3. e \in [turns : 0..MaxRecords, aged : BOOLEAN] /\ e.turns = turnCount /\ ~e.aged
  BY <1>2
<1>4. Baseline = <<e>>
  BY DEF Baseline
<1> HIDE DEF e
<1>5. Baseline \in Evals
  BY <1>3, <1>4 DEF Evals
<1>6. DOMAIN Baseline = {1} /\ Baseline[1] = e
  BY <1>4
<1> QED
  BY <1>2, <1>3, <1>5, <1>6

LEMMA EvalParts ==
    ASSUME NEW e \in Evals
    PROVE  /\ DOMAIN e \subseteq {1}
           /\ \A i \in DOMAIN e : e[i] \in [turns : 0..MaxRecords, aged : BOOLEAN]
           /\ e = <<>> <=> DOMAIN e = {}
<1>1. CASE e = <<>>
  BY <1>1
<1>2. CASE e # <<>>
  <2>1. PICK x \in [turns : 0..MaxRecords, aged : BOOLEAN] : e = <<x>>
    BY <1>2 DEF Evals
  <2>2. DOMAIN e = {1} /\ e[1] = x
    BY <2>1
  <2> QED
    BY <1>2, <2>2
<1> QED
  BY <1>1, <1>2

LEMMA AgedParts ==
    ASSUME NEW e \in Evals
    PROVE  /\ Aged(e) \in Evals /\ DOMAIN Aged(e) = DOMAIN e
           /\ \A i \in DOMAIN e : Aged(e)[i].turns = e[i].turns /\ Aged(e)[i].aged
<1>1. CASE e = <<>>
  <2>1. Aged(e) = <<>>
    BY <1>1 DEF Aged
  <2> QED
    BY <1>1, <2>1 DEF Evals
<1>2. CASE e # <<>>
  <2>1. PICK x \in [turns : 0..MaxRecords, aged : BOOLEAN] : e = <<x>>
    BY <1>2 DEF Evals
  <2> DEFINE y == [x EXCEPT !.aged = TRUE]
  <2>2. y \in [turns : 0..MaxRecords, aged : BOOLEAN] /\ y.turns = x.turns /\ y.aged = TRUE
    BY <2>1
  <2>3. DOMAIN e = {1} /\ e[1] = x
    BY <2>1
  <2>4. Aged(e) = [i \in {1} |-> y]
    BY <2>3 DEF Aged
  <2> HIDE DEF y
  <2>5. Aged(e) = <<y>>
    BY <2>4
  <2> QED
    BY <2>2, <2>3, <2>4, <2>5 DEF Evals
<1> QED
  BY <1>1, <1>2

LEMMA EvaluateParts ==
    ASSUME Shape, NEW s \in PanelState, s.lastEval = state.lastEval,
           NEW reason \in {"user_text", "stop", "subagent_start"}, evaluate(s, reason)
    PROVE  TitlerTyped' /\ (Calm \/ Asks(reason))
<1>1. Baseline \in Evals /\ TitlerTyped
  BY BaselineParts DEF Shape, TypeOK, TitlerTyped
<1>2. CASE Seed(s)
  <2>1. state' = [s EXCEPT !.lastEval = Baseline] /\ client' = client /\ calls' = calls /\ asked' = asked
    BY <1>2 DEF Seed
  <2>2. state' \in PanelState /\ state'.lastEval = Baseline
    BY <1>1, <2>1, StateParts DEF PanelState
  <2> QED
    BY <1>1, <2>1, <2>2 DEF TitlerTyped, Calm
<1>3. CASE /\ Ask(s) /\ shouldFire(s, reason)
           /\ ~(s.lastEval = <<>> /\ hasCustomTitle)
  <2>1. /\ state' = [s EXCEPT !.inflight = TRUE, !.lastEval = Baseline]
        /\ calls' = [calls EXCEPT !.first = @ + 1] /\ asked' = Baseline /\ client' = client
    BY <1>3 DEF Ask
  <2>2. state' \in PanelState /\ state'.lastEval = Baseline
    BY <1>1, <2>1, StateParts DEF PanelState
  <2>3. calls' \in [{"first", "again"} -> Nat]
    BY <1>1, <2>1 DEF TitlerTyped
  <2>4. shouldFire(state, reason) /\ (hasCustomTitle => state.lastEval # <<>>)
    BY <1>3 DEF shouldFire
  <2> QED
    BY <1>1, <2>1, <2>2, <2>3, <2>4 DEF TitlerTyped, Asks
<1>4. CASE state' = s /\ client' \in {client, "loading"} /\ UNCHANGED <<calls, asked>>
  BY <1>1, <1>4 DEF TitlerTyped, Calm
<1> QED
  BY <1>2, <1>3, <1>4 DEF evaluate

LEMMA DebounceParts ==
    ASSUME Shape, Debounce PROVE TitlerTyped' /\ Calm
<1>1. TitlerTyped /\ state \in PanelState
  BY DEF Shape, TypeOK, TitlerTyped
<1>2. /\ client' = client /\ calls' = calls /\ asked' = asked
      /\ \/ state' = state
         \/ state' = [ensureState EXCEPT !.timer = ensureState.timer \/ ~state.cool]
  BY DEF Debounce
<1>3. ensureState \in PanelState /\ ensureState.lastEval = state.lastEval
  BY <1>1, StateParts DEF ensureState, PanelState
<1>4. state' \in PanelState /\ state'.lastEval = state.lastEval
  <2>1. (ensureState.timer \/ ~state.cool) \in BOOLEAN
    OBVIOUS
  <2> DEFINE b == ensureState.timer \/ ~state.cool
  <2> HIDE DEF b
  <2>2. b \in BOOLEAN => [ensureState EXCEPT !.timer = b] \in PanelState
                       /\ [ensureState EXCEPT !.timer = b].lastEval = ensureState.lastEval
    BY <1>3 DEF PanelState
  <2> QED
    BY <1>1, <1>2, <1>3, <2>1, <2>2 DEF b
<1> QED
  BY <1>1, <1>2, <1>4 DEF TitlerTyped, Calm

LEMMA AtOnceParts ==
    ASSUME Shape, NEW reason \in {"stop", "subagent_start"}, AtOnce(reason)
    PROVE  TitlerTyped' /\ (Calm \/ Asks(reason))
<1>1. TitlerTyped /\ state \in PanelState
  BY DEF Shape, TypeOK, TitlerTyped
<1>2. ensureState \in PanelState /\ ensureState.lastEval = state.lastEval
  BY <1>1, StateParts DEF ensureState, PanelState
<1>3. CASE UNCHANGED titler
  BY <1>1, <1>3 DEF titler, TitlerTyped, Calm
<1>4. CASE state' = ensureState /\ UNCHANGED <<client, calls, asked>>
  BY <1>1, <1>2, <1>4 DEF TitlerTyped, Calm
<1>5. CASE evaluate([ensureState EXCEPT !.timer = FALSE], reason)
  <2> DEFINE s == [ensureState EXCEPT !.timer = FALSE]
  <2>1. s \in PanelState /\ s.lastEval = state.lastEval
    BY <1>2 DEF PanelState
  <2> HIDE DEF s
  <2>2. evaluate(s, reason)
    BY <1>5 DEF s
  <2> QED
    BY <2>1, <2>2, EvaluateParts
<1> QED
  BY <1>3, <1>4, <1>5 DEF AtOnce

LEMMA SpacedCalm ==
    ASSUME Inv, turnCount <= turnCount', turnCount' \in Nat, asked' = asked,
           state'.lastEval \in {state.lastEval, Baseline, <<>>}
    PROVE  Spaced'
<1> SUFFICES ASSUME NEW i \in DOMAIN asked
             PROVE  /\ asked[i].turns <= turnCount'
                    /\ \A j \in DOMAIN state'.lastEval :
                         /\ asked[i].turns <= state'.lastEval[j].turns
                         /\ state'.lastEval[j].aged => asked[i].aged
  BY DEF Spaced
<1>1. turnCount \in Nat /\ asked[i].turns \in Nat /\ asked[i].turns <= turnCount
  <2>1. asked \in Evals /\ Shape
    BY DEF Inv, Shape, TypeOK
  <2> QED
    BY <2>1, BoundsAssumption, EvalParts, BaselineParts DEF Inv, Spaced
<1>2. CASE state'.lastEval = state.lastEval
  BY <1>1, <1>2 DEF Inv, Spaced
<1>3. CASE state'.lastEval = Baseline
  BY <1>1, <1>3, BaselineParts DEF Inv
<1>4. CASE state'.lastEval = <<>>
  BY <1>1, <1>4
<1> QED
  BY <1>2, <1>3, <1>4

LEMMA SpacedAsked ==
    ASSUME Inv, turnCount' = turnCount, asked' = Baseline, state'.lastEval = Baseline
    PROVE  Spaced'
  BY BaselineParts DEF Inv, Spaced

----------------------------------------------------------------------------
(* Names out of the transcript.                                            *)

LEMMA RecordParts ==
    ASSUME NEW r \in Records
    PROVE  /\ r.kind \in {"prompt", "custom", "ai", "marker"}
           /\ r.kind = "prompt" => r.name = Typed
           /\ r.kind = "custom" => r.name \in {Old, Mine}
           /\ r.kind = "ai" => r.name = OldAi
           /\ r.kind = "marker" => r.name \in Proposals
           /\ r.name \in Titles \ {Placeholder} /\ r.name \notin {"off", "any", "none"}
  BY TitlesAssumption DEF Records, Titles, Inherited

LEMMA EnsuredParts ==
    ASSUME panel \in Panel
    PROVE  /\ Ensured(panel) \in Panel /\ Ensured(panel).there
           /\ Ensured(panel).title = panel.title /\ Ensured(panel).renamed = panel.renamed
           /\ Ensured(panel).ai = panel.ai
           /\ panel.there => Ensured(panel) = panel
           /\ ~panel.there => Ensured(panel).supp = IF pendingClear THEN "any" ELSE "off"
<1>1. CASE panel.there
  BY <1>1 DEF Ensured
<1>2. CASE ~panel.there
  <2> DEFINE s == IF pendingClear THEN "any" ELSE "off"
  <2>1. Ensured(panel) = [panel EXCEPT !.there = TRUE, !.supp = s]
    BY <1>2 DEF Ensured
  <2>2. s \in {"any", "off"}
    OBVIOUS
  <2> HIDE DEF s
  <2>3. [panel EXCEPT !.there = TRUE, !.supp = s] \in Panel
    BY <2>2 DEF Panel
  <2>4. /\ Ensured(panel).there = TRUE /\ Ensured(panel).supp = s
        /\ Ensured(panel).title = panel.title /\ Ensured(panel).renamed = panel.renamed
        /\ Ensured(panel).ai = panel.ai
    BY <2>1 DEF Panel
  <2> QED
    BY <1>2, <2>1, <2>3, <2>4 DEF s
<1> QED
  BY <1>1, <1>2

LEMMA AppliedParts ==
    ASSUME NEW p \in Panel, NEW r \in Records
    PROVE  LET q == Applied(p, r)
           IN  /\ q \in Panel /\ q.there = p.there
               /\ r.kind = "prompt" =>
                    /\ q.supp = "off" /\ q.renamed = p.renamed
                    /\ q.title = IF p.title = Placeholder THEN Typed ELSE p.title
               /\ r.kind = "custom" =>
                    /\ p.supp = "any" => q.supp = r.name /\ q.title = p.title
                    /\ p.supp = r.name => q = p
                    /\ p.supp \notin {"any", r.name} =>
                         q.supp = "off" /\ q.title = r.name /\ q.renamed
               /\ r.kind = "ai" =>
                    /\ q.supp = p.supp /\ q.renamed = p.renamed
                    /\ \/ (q.title = p.title /\ q.ai = p.ai)
                       \/ (q.title = r.name /\ q.ai = r.name)
                    /\ p.renamed \/ p.supp # "off" => q.title = p.title /\ q.ai = p.ai
               /\ r.kind # "ai" => q.ai = p.ai
               /\ r.kind = "marker" =>
                    q.supp = p.supp /\ q.renamed = p.renamed /\ q.title = r.name
<1> DEFINE q == Applied(p, r)
<1>1. CASE r.kind = "prompt"
  <2> DEFINE n == IF p.title = Placeholder THEN Typed ELSE p.title
  <2>1. q = [p EXCEPT !.supp = "off", !.title = n]
    BY <1>1 DEF Applied, Prompted
  <2>2. n \in Titles
    BY DEF Panel, Titles
  <2> HIDE DEF n, q
  <2>3. /\ q \in Panel /\ q.there = p.there /\ q.supp = "off" /\ q.renamed = p.renamed
        /\ q.title = n /\ q.ai = p.ai
    BY <2>1, <2>2 DEF Panel
  <2> QED
    BY <1>1, <2>3 DEF q, n
<1>2. CASE r.kind = "custom"
  <2>1. r.name \in Titles /\ r.name # "any" /\ q = Renamed(p, r.name)
    BY <1>2, RecordParts DEF Applied
  <2> HIDE DEF q
  <2>2. CASE p.supp = "any"
    <3>1. q = [p EXCEPT !.supp = r.name]
      BY <2>1, <2>2 DEF Renamed
    <3>2. /\ q \in Panel /\ q.there = p.there /\ q.supp = r.name /\ q.title = p.title
          /\ q.ai = p.ai
      BY <2>1, <3>1 DEF Panel
    <3> QED
      BY <1>2, <2>1, <2>2, <3>2 DEF q
  <2>3. CASE p.supp = r.name
    <3>1. q = p
      BY <2>1, <2>3 DEF Renamed
    <3> QED
      BY <1>2, <2>1, <2>3, <3>1 DEF q
  <2>4. CASE p.supp \notin {"any", r.name}
    <3>1. q = [p EXCEPT !.supp = "off", !.title = r.name, !.renamed = TRUE]
      BY <2>1, <2>4 DEF Renamed
    <3>2. /\ q \in Panel /\ q.there = p.there /\ q.supp = "off" /\ q.title = r.name /\ q.renamed = TRUE
          /\ q.ai = p.ai
      BY <2>1, <3>1 DEF Panel
    <3> QED
      BY <1>2, <2>4, <3>2 DEF q
  <2> QED
    BY <2>2, <2>3, <2>4
<1>3. CASE r.kind = "ai"
  <2>1. r.name = OldAi /\ r.name \in Titles /\ q = AiNamed(p, r.name)
    BY <1>3, RecordParts DEF Applied
  <2> HIDE DEF q
  <2>2. CASE p.renamed \/ p.supp # "off" \/ p.ai = r.name
    <3>1. q = p
      BY <2>1, <2>2 DEF AiNamed
    <3> QED
      BY <1>3, <3>1 DEF q
  <2>3. CASE ~(p.renamed \/ p.supp # "off" \/ p.ai = r.name)
    <3>1. q = [p EXCEPT !.ai = r.name, !.title = r.name]
      BY <2>1, <2>3 DEF AiNamed
    <3>2. /\ q \in Panel /\ q.there = p.there /\ q.supp = p.supp /\ q.renamed = p.renamed
          /\ q.title = r.name /\ q.ai = r.name
      BY <2>1, <3>1 DEF Panel
    <3> QED
      BY <1>3, <2>3, <3>2 DEF q
  <2> QED
    BY <2>2, <2>3
<1>4. CASE r.kind = "marker"
  <2>1. r.name \in Titles /\ q = [p EXCEPT !.title = r.name]
    BY <1>4, RecordParts DEF Applied
  <2> HIDE DEF q
  <2>2. /\ q \in Panel /\ q.there = p.there /\ q.supp = p.supp /\ q.renamed = p.renamed
        /\ q.title = r.name /\ q.ai = p.ai
    BY <2>1 DEF Panel
  <2> QED
    BY <1>4, <2>2 DEF q
<1> QED
  BY <1>1, <1>2, <1>3, <1>4, RecordParts

(* A record is read, the one just written or one read before.              *)
Reads(r) ==
    /\ Take(r) /\ heard >= boot /\ read' = read + 1
    /\ file' \in Seq(Records) /\ Len(file') <= MaxRecords /\ read' \in 1..Len(file')
    /\ file'[read'] = r
    /\ \A j \in 1..Len(file) : j \in 1..Len(file') /\ file'[j] = file[j]
    /\ \A n \in 0..read : Prompts(n)' = Prompts(n)
    /\ r.kind = "prompt" /\ FromClear => heard >= 1
    /\ FromClear => boot >= 1 \/ heard >= 1 \/ Prompts(Len(file))' = 0

LEMMA ReadCounts ==
    ASSUME Inv, NEW r \in Records, Reads(r)
    PROVE  /\ turnCount \in Nat /\ turnCount' \in Nat /\ turnCount <= turnCount'
           /\ turnCount = Prompts(read)
           /\ turnCount' = 0 <=> Prompts(read) = 0 /\ r.kind # "prompt"
<1>1. read \in Nat /\ read' = read + 1 /\ read' \in Nat
  BY DEF Reads, Inv, Shape, TypeOK
<1>2. \A n : Prompts(n) = PromptsOf(file, n) /\ Prompts(n)' = PromptsOf(file', n)
  BY DEF Prompts, PromptsOf
<1>3. turnCount = PromptsOf(file, read) /\ turnCount' = PromptsOf(file', read')
  BY DEF turnCount, Prompts, PromptsOf
<1>4. PromptsOf(file', read) = PromptsOf(file, read)
  BY <1>1, <1>2 DEF Reads
<1>5. /\ PromptsOf(file', read) <= PromptsOf(file', read')
      /\ PromptsOf(file', read) \in Nat /\ PromptsOf(file', read') \in Nat
      /\ PromptsOf(file', read) = 0 <=> \A i \in 1..read : file'[i].kind # "prompt"
      /\ PromptsOf(file', read') = 0 <=> \A i \in 1..read' : file'[i].kind # "prompt"
  BY <1>1, PromptsFacts, PromptsGrow
<1>6. \A i : i \in 1..read' <=> i \in 1..read \/ i = read'
  BY <1>1
<1>7. file'[read'] = r
  BY DEF Reads
<1> QED
  BY <1>2, <1>3, <1>4, <1>5, <1>6, <1>7

LEMMA ReadTyped ==
    ASSUME Inv, NEW r \in Records, Reads(r)
    PROVE  /\ Shape' /\ panel' = Applied(Ensured(panel), r) /\ panel'.there
           /\ Ensured(panel) \in Panel /\ Calm
           /\ UNCHANGED <<log, heard, boot, late, life>>
           /\ pendingClear' = (pendingClear /\ panel.there)
<1>1. Shape /\ TypeOK
  BY DEF Inv, Shape
<1>2. /\ panel' = Applied(Ensured(panel), r) /\ pendingClear' = (pendingClear /\ panel.there)
      /\ UNCHANGED <<log, heard, boot, pref, disabled, late, life>>
      /\ Debounce \/ UNCHANGED titler
  BY DEF Reads, Take
<1>3. Ensured(panel) \in Panel /\ panel' \in Panel /\ panel'.there
  BY <1>1, <1>2, EnsuredParts, AppliedParts DEF TypeOK
<1>4. TitlerTyped' /\ Calm
  <2>1. CASE Debounce
    BY <1>1, <2>1, DebounceParts
  <2>2. CASE UNCHANGED titler
    BY <1>1, <2>2 DEF titler, TypeOK, TitlerTyped, Calm
  <2> QED
    BY <1>2, <2>1, <2>2
<1>5. read' \in 0..Len(file') /\ file' \in Seq(Records) /\ Len(file') <= MaxRecords
  BY DEF Reads
<1>6. Shape'
  BY <1>1, <1>2, <1>3, <1>4, <1>5 DEF Shape, TypeOK, TitlerTyped
<1> QED
  BY <1>2, <1>3, <1>4, <1>6

LEMMA ReadHistory ==
    ASSUME Inv, NEW r \in Records, Reads(r)
    PROVE  History'
<1> DEFINE P == Ensured(panel)
<1>1. /\ panel' = Applied(P, r) /\ panel'.there /\ P \in Panel
      /\ UNCHANGED <<log, heard, boot>>
  BY ReadTyped
<1>2. panel \in Panel
  BY DEF Inv, Shape, TypeOK
<1>3. ASSUME turnCount' > 0 PROVE panel'.supp = "off" /\ (FromClear => heard >= 1)
  <2>1. CASE r.kind = "prompt"
    <3>1. panel'.supp = "off"
      BY <1>1, <2>1, AppliedParts
    <3> QED
      BY <2>1, <3>1 DEF Reads
  <2>2. CASE r.kind # "prompt"
    <3>1. Prompts(read) > 0
      BY <1>3, <2>2, ReadCounts
    <3>2. panel.there /\ panel.supp = "off" /\ (FromClear => heard >= 1)
      BY <3>1 DEF Inv, History
    <3>3. P = panel
      BY <1>2, <3>2, EnsuredParts
    <3>4. r.name \notin {"off", "any"}
      BY RecordParts
    <3>5. panel'.supp = "off"
      BY <1>1, <2>2, <3>2, <3>3, <3>4, AppliedParts, RecordParts
    <3> QED
      BY <3>2, <3>5
  <2> QED
    BY <2>1, <2>2
<1>4. \A j \in 2..Len(log) : log[j] # "clear"
  BY DEF Inv, History
<1>5. FromClear => boot >= 1 \/ heard >= 1 \/ Prompts(Len(file))' = 0
  BY DEF Reads
<1>6. Prompts(read)' = turnCount'
  BY DEF turnCount, Prompts
<1> QED
  BY <1>1, <1>3, <1>4, <1>5, <1>6 DEF History, FromClear

LEMMA ReadRename ==
    ASSUME Inv, NEW r \in Records, Reads(r)
    PROVE  RenameRead'
<1> DEFINE P == Ensured(panel)
<1>1. /\ panel' = Applied(P, r) /\ P \in Panel /\ late' = late
      /\ panel \in Panel /\ file \in Seq(Records) /\ read \in 0..Len(file)
  BY ReadTyped DEF Inv, Shape, TypeOK
<1>2. /\ read' = read + 1 /\ file' \in Seq(Records) /\ file'[read'] = r /\ read' \in 1..Len(file')
      /\ \A j \in 1..Len(file) : j \in 1..Len(file') /\ file'[j] = file[j]
      /\ \A n \in 0..read : Prompts(n)' = Prompts(n)
  BY DEF Reads
<1> SUFFICES ASSUME NEW i \in DOMAIN file', ~late, read' >= i,
                    Prompts(i)' > 0, file'[i].kind = "custom", Namings(i)' = {i}
             PROVE  panel'.title = file'[i].name /\ panel'.renamed
  BY <1>1 DEF RenameRead, LastRename
<1>3. i \in Nat \ {0} /\ Len(file') \in Nat /\ Len(file) \in Nat
  BY <1>1, <1>2
<1>4. ASSUME Prompts(read) > 0 PROVE P = panel /\ panel.supp = "off"
  BY <1>1, <1>4, EnsuredParts DEF Inv, History
<1>5. CASE i = read'
  <2>1. r.kind = "custom"
    BY <1>2, <1>5
  <2>2. Prompts(i)' = turnCount'
    BY <1>5 DEF turnCount, Prompts
  <2>3. Prompts(read) > 0
    BY <2>1, <2>2, ReadCounts
  <2>4. r.name \notin {"off", "any"}
    BY RecordParts
  <2> QED
    BY <1>1, <1>2, <1>4, <1>5, <2>1, <2>3, <2>4, AppliedParts
<1>6. CASE i # read'
  <2>1. i \in 0..read /\ i \in 1..Len(file)
    BY <1>1, <1>2, <1>3, <1>6
  <2>2. Prompts(i) > 0 /\ file[i].kind = "custom" /\ file'[i] = file[i]
    BY <1>2, <2>1
  <2>3. Namings(i) = {i}
    <3>1. Namings(i) \subseteq {j \in i..Len(file') : file'[j].kind \in {"custom", "marker"}}
      <4> SUFFICES ASSUME NEW j \in Namings(i)
                   PROVE  j \in i..Len(file') /\ file'[j].kind \in {"custom", "marker"}
        OBVIOUS
      <4>1. j \in i..Len(file) /\ file[j].kind \in {"custom", "marker"}
        BY DEF Namings
      <4>2. j \in 1..Len(file)
        BY <1>3, <4>1
      <4> QED
        BY <1>2, <1>3, <4>1, <4>2
    <3>2. Namings(i)' = {j \in i..Len(file') : file'[j].kind \in {"custom", "marker"}}
      BY DEF Namings
    <3>3. i \in Namings(i)
      BY <2>1, <2>2 DEF Namings
    <3> QED
      BY <3>1, <3>2, <3>3
  <2>4. panel.title = file[i].name /\ panel.renamed
    BY <1>1, <2>1, <2>2, <2>3 DEF Inv, RenameRead, LastRename
  <2>5. Prompts(read) > 0
    <3>1. read \in Nat /\ i <= read
      BY <1>1, <2>1
    <3>2. Prompts(i) <= Prompts(read) /\ Prompts(i) \in Nat /\ Prompts(read) \in Nat
      BY <1>3, <3>1, PromptsParts
    <3> QED
      BY <2>2, <3>2
  <2>6. r.kind \notin {"custom", "marker"}
    <3> SUFFICES ASSUME r.kind \in {"custom", "marker"} PROVE FALSE
      OBVIOUS
    <3>1. read' \in i..Len(file') /\ file'[read'].kind \in {"custom", "marker"}
      BY <1>2, <1>3
    <3>2. read' \in Namings(i)'
      BY <3>1 DEF Namings
    <3> QED
      BY <1>6, <3>2
  <2>7. panel.title # Placeholder
    <3>1. file[i] \in Records
      BY <1>1, <2>1, ElementOfSeq
    <3> QED
      BY <2>4, <3>1, RecordParts
  <2>8. r.kind \in {"prompt", "ai"}
    BY <2>6, RecordParts
  <2>9. panel'.title = panel.title /\ panel'.renamed
    <3>1. panel' = Applied(panel, r)
      BY <1>1, <1>4, <2>5
    <3> DEFINE q == Applied(panel, r)
    <3>2. CASE r.kind = "prompt"
      <4>1. q.title = panel.title /\ q.renamed = panel.renamed
        BY <1>1, <2>7, <3>2, AppliedParts
      <4> HIDE DEF q
      <4> QED
        BY <2>4, <3>1, <4>1 DEF q
    <3>3. CASE r.kind = "ai"
      <4>1. q.title = panel.title /\ q.renamed = panel.renamed
        BY <1>1, <2>4, <3>3, AppliedParts
      <4> HIDE DEF q
      <4> QED
        BY <2>4, <3>1, <4>1 DEF q
    <3> QED
      BY <2>8, <3>2, <3>3
  <2> QED
    BY <2>2, <2>4, <2>9
<1> QED
  BY <1>5, <1>6

LEMMA ReadSpaced ==
    ASSUME Inv, NEW r \in Records, Reads(r)
    PROVE  Spaced'
  BY ReadTyped, ReadCounts, SpacedCalm DEF Calm

LEMMA WriteReads ==
    ASSUME Inv, NEW r \in Records, Write(r)
    PROVE  Reads(r)
<1>1. /\ read = Len(file) /\ heard >= boot /\ Len(file) < MaxRecords
      /\ r.name \notin Inherited => heard = Len(log)
      /\ file' = Append(file, r) /\ read' = read + 1 /\ Take(r)
  BY DEF Write
<1>2. /\ file' \in Seq(Records) /\ Len(file) \in Nat /\ Len(file') = Len(file) + 1
      /\ \A i \in 1..Len(file) : file'[i] = file[i]
      /\ file'[Len(file) + 1] = r
      /\ \A n \in 0..Len(file) : Prompts(n)' = Prompts(n)
      /\ Prompts(Len(file))' = 0 <=> Prompts(Len(file)) = 0 /\ r.kind # "prompt"
  BY <1>1, FileAppend DEF Inv, Shape, TypeOK
<1>3. Len(file') <= MaxRecords /\ read' \in 1..Len(file')
  BY <1>1, <1>2, BoundsAssumption
<1>4. r.kind = "prompt" /\ FromClear => heard >= 1
  <2>1. ASSUME r.kind = "prompt" PROVE r.name \notin Inherited
    BY <2>1, RecordParts, TitlesAssumption DEF Inherited
  <2>2. FromClear => Len(log) >= 1
    BY DEF FromClear, Inv, Shape, TypeOK
  <2> QED
    BY <1>1, <2>1, <2>2
<1>5. \A j \in 1..Len(file) : j \in 1..Len(file')
  BY <1>2
<1>6. FromClear => boot >= 1 \/ heard >= 1 \/ Prompts(Len(file))' = 0
  BY <1>2, <1>4 DEF Inv, History
<1> QED
  BY <1>1, <1>2, <1>3, <1>4, <1>5, <1>6 DEF Reads

LEMMA WriteNames ==
    ASSUME Inv, NEW r \in Records, Write(r)
    PROVE  NamesOut'
<1> DEFINE P == Ensured(panel)
<1>1. /\ read = Len(file) /\ (r.name \notin Inherited => heard = Len(log))
      /\ r.kind = "custom" /\ r.name = Mine => Prompts(Len(file)) > 0
      /\ file' = Append(file, r) /\ read' = read + 1
      /\ r.kind \notin {"prompt", "marker"} => UNCHANGED titler
  BY DEF Write, Take
<1>2. /\ panel' = Applied(P, r) /\ panel'.there /\ P \in Panel
      /\ UNCHANGED <<log, heard, life>>
  BY WriteReads, ReadTyped
<1>3. /\ P.title = panel.title /\ P.ai = panel.ai /\ P.renamed = panel.renamed
      /\ panel.there => P = panel
      /\ ~panel.there => P.supp = IF pendingClear THEN "any" ELSE "off"
  BY EnsuredParts DEF Inv, Shape, TypeOK
<1>4. /\ Len(file) \in Nat /\ Len(file') = Len(file) + 1 /\ file'[Len(file) + 1] = r
      /\ \A i \in 1..Len(file) : file'[i] = file[i]
      /\ \A n \in 0..Len(file) : Prompts(n)' = Prompts(n)
      /\ Prompts(Len(file)) \in Nat /\ Prompts(Len(file))' \in Nat
      /\ Prompts(Len(file))' = 0 <=> Prompts(Len(file)) = 0 /\ r.kind # "prompt"
      /\ file \in Seq(Records) /\ file' \in Seq(Records)
  <2>1. Len(file) \in 0..Len(file)
    BY DEF Inv, Shape, TypeOK
  <2> QED
    BY <1>1, <2>1, FileAppend DEF Inv, Shape, TypeOK
<1>5. ASSUME OnlyInherited'
      PROVE  OnlyInherited /\ (r.name \in Inherited => Prompts(Len(file)) = 0 /\ r.kind # "prompt")
  <2>1. ASSUME NEW i \in DOMAIN file, file[i].name \in Inherited PROVE Prompts(i) = 0
    <3>1. i \in 1..Len(file) /\ i \in 0..Len(file) /\ i \in 1..Len(file')
      BY <1>4
    <3>2. file'[i].name \in Inherited /\ i \in DOMAIN file'
      BY <1>4, <2>1, <3>1
    <3>3. Prompts(i)' = 0
      BY <1>5, <3>2 DEF OnlyInherited
    <3> QED
      BY <1>4, <3>1, <3>3
  <2>2. ASSUME r.name \in Inherited PROVE Prompts(Len(file))' = 0
    <3>1. Len(file') \in DOMAIN file' /\ file'[Len(file')].name \in Inherited
      BY <1>4, <2>2
    <3> QED
      BY <1>5, <3>1 DEF OnlyInherited, Prompts
  <2> QED
    BY <1>4, <2>1, <2>2 DEF OnlyInherited
<1>6. /\ r.kind \in {"prompt", "marker"} => r.name \notin Inherited
      /\ r.kind = "ai" => r.name = OldAi
      /\ r.kind = "custom" => r.name \in {Old, Mine}
      /\ r.kind \in {"prompt", "custom", "ai", "marker"}
      /\ Typed \notin Inherited /\ Mine \notin Inherited /\ Placeholder \notin Inherited
      /\ Inherited = {Old, OldAi} /\ {"off", "any"} \cap Inherited = {}
      /\ r.name # "off"
  BY RecordParts, TitlesAssumption DEF Inherited
<1>7. ASSUME life = 0, FromClear, OnlyInherited', heard = 0 PROVE Before'
  <2>1. Before /\ r.name \in Inherited
    <3>1. Len(log) # 0
      BY <1>7 DEF FromClear, Inv, Shape, TypeOK
    <3> QED
      BY <1>1, <1>5, <1>7, <3>1 DEF Inv, NamesOut
  <2>2. r.kind \in {"custom", "ai"} /\ Prompts(Len(file))' = 0
    BY <1>4, <1>5, <1>6, <1>7, <2>1
  <2>3. UNCHANGED titler
    BY <1>1, <2>2
  <2>4. /\ r.kind = "custom" => panel'.title \in {P.title, Old} /\ panel'.ai = P.ai
        /\ r.kind = "ai" => \/ (panel'.title = P.title /\ panel'.ai = P.ai)
                           \/ (panel'.title = OldAi /\ panel'.ai = OldAi)
    <3>1. r.kind = "custom" => r.name = Old
      BY <1>6, <2>1
    <3> QED
      BY <1>2, <1>6, <3>1, AppliedParts
  <2>5. panel'.title \in {Placeholder, Old} \/ (panel'.title = OldAi /\ panel'.ai = OldAi)
    BY <1>3, <2>1, <2>2, <2>4 DEF Before
  <2> QED
    BY <2>1, <2>2, <2>3, <2>5 DEF Before, titler
<1>8. ASSUME life = 0, FromClear, OnlyInherited', heard # 0 PROVE After'
  <2>1. After /\ P.title # OldAi
    BY <1>3, <1>5, <1>8 DEF Inv, NamesOut, After
  <2> DEFINE S == P.ai = OldAi /\ OldAi # Old
  <2>2. /\ P.title = Old => S
        /\ Prompts(Len(file)) = 0 =>
             P.supp \in {"any", Old} \/ (S /\ (P.supp = OldAi \/ P.renamed))
    BY <1>3, <2>1 DEF After, Slipped
  <2>3. ASSUME panel'.title # OldAi, panel'.title = Old => S,
               Prompts(Len(file))' = 0 =>
                 panel'.supp \in {"any", Old} \/ (S /\ (panel'.supp = OldAi \/ panel'.renamed)),
               panel'.ai = P.ai
        PROVE  After'
    BY <1>2, <2>3 DEF After, Slipped
  <2> HIDE DEF S
  <2>4. CASE r.kind = "prompt"
    <3>1. panel'.title \in {P.title, Typed} /\ panel'.ai = P.ai
      BY <1>2, <2>4, AppliedParts, RecordParts
    <3> QED
      BY <1>4, <1>6, <2>1, <2>2, <2>3, <2>4, <3>1
  <2>5. CASE r.kind = "marker"
    <3>1. /\ panel'.title = r.name /\ panel'.supp = P.supp /\ panel'.renamed = P.renamed
          /\ panel'.ai = P.ai
      BY <1>2, <2>5, AppliedParts
    <3> QED
      BY <1>4, <1>6, <2>2, <2>3, <2>5, <3>1
  <2>6. CASE r.kind = "ai"
    <3>1. Prompts(Len(file)) = 0
      BY <1>5, <1>6, <1>8, <2>6
    <3>2. P.supp # "off" \/ P.renamed
      BY <1>6, <2>2, <3>1
    <3>3. /\ panel'.title = P.title /\ panel'.supp = P.supp /\ panel'.renamed = P.renamed
          /\ panel'.ai = P.ai
      BY <1>2, <2>6, <3>2, AppliedParts
    <3> QED
      BY <2>1, <2>2, <2>3, <3>1, <3>3
  <2>7. CASE r.kind = "custom" /\ r.name = Old
    <3>1. Prompts(Len(file)) = 0
      BY <1>5, <1>6, <1>8, <2>7
    <3>2. panel'.ai = P.ai
      BY <1>2, <2>7, AppliedParts
    <3>3. CASE P.supp \in {"any", Old}
      <4>1. panel'.title = P.title /\ panel'.supp = Old
        BY <1>2, <2>7, <3>3, AppliedParts
      <4> QED
        BY <2>1, <2>2, <2>3, <3>2, <4>1
    <3>4. CASE P.supp \notin {"any", Old}
      <4>1. S
        BY <2>2, <3>1, <3>4
      <4>2. panel'.title = Old /\ panel'.renamed
        BY <1>2, <2>7, <3>4, AppliedParts
      <4>3. Old # OldAi
        BY <4>1 DEF S
      <4> QED
        BY <2>3, <3>2, <4>1, <4>2, <4>3
    <3> QED
      BY <3>3, <3>4
  <2>8. CASE r.kind = "custom" /\ r.name = Mine
    <3>1. Prompts(Len(file)) > 0 /\ Prompts(Len(file))' # 0
      BY <1>1, <1>4, <2>8
    <3>2. panel'.title \in {P.title, Mine} /\ panel'.ai = P.ai
      BY <1>2, <2>8, AppliedParts
    <3> QED
      BY <1>6, <2>1, <2>2, <2>3, <3>1, <3>2
  <2> QED
    BY <1>6, <2>4, <2>5, <2>6, <2>7, <2>8
<1>9. read' = Len(file')
  BY <1>1, <1>4
<1> QED
  BY <1>2, <1>7, <1>8, <1>9 DEF NamesOut, FromClear

LEMMA WriteInv ==
    ASSUME Inv, NEW r \in Records, Write(r) PROVE Inv'
  BY WriteReads, WriteNames, ReadTyped, ReadHistory, ReadRename, ReadSpaced DEF Inv

LEMMA RereadInv ==
    ASSUME Inv, Reread PROVE Inv'
<1> DEFINE r == file[read + 1]
<1>1. /\ read < Len(file) /\ heard >= boot /\ read' = read + 1 /\ Take(r) /\ file' = file
  BY DEF Reread
<1>2. /\ file \in Seq(Records) /\ read \in 0..Len(file) /\ Len(file) \in Nat
      /\ Len(file) <= MaxRecords
  BY DEF Inv, Shape, TypeOK
<1>3. r \in Records /\ read' \in 1..Len(file)
  <2>1. read + 1 \in 1..Len(file)
    BY <1>1, <1>2
  <2> QED
    BY <1>1, <1>2, <2>1, ElementOfSeq
<1>4. \A n \in 0..read : Prompts(n)' = Prompts(n)
  BY <1>1 DEF Prompts
<1>5. FromClear => boot >= 1 \/ heard >= 1 \/ Prompts(Len(file))' = 0
  <2>1. Prompts(Len(file))' = Prompts(Len(file))
    BY <1>1 DEF Prompts
  <2> QED
    BY <2>1 DEF Inv, History
<1>6. r.kind = "prompt" /\ FromClear => heard >= 1
  <2>1. r.kind = "prompt" => Prompts(Len(file)) # 0
    <3>1. read + 1 \in 1..Len(file)
      BY <1>1, <1>2
    <3> QED
      BY <1>2, <3>1, PromptsParts
  <2>2. FromClear => boot >= 1 \/ heard >= 1 \/ Prompts(Len(file)) = 0
    BY DEF Inv, History
  <2>3. boot \in Nat /\ heard \in Nat
    BY DEF Inv, Shape, TypeOK
  <2> QED
    BY <1>1, <2>1, <2>2, <2>3
<1>7. Reads(r)
  BY <1>1, <1>2, <1>3, <1>4, <1>5, <1>6 DEF Reads
<1> HIDE DEF r
<1>8. life # 0
  BY <1>1, <1>2 DEF Inv, NamesOut
<1>9. NamesOut'
  <2>1. panel'.there /\ life' = life
    BY <1>3, <1>7, ReadTyped
  <2> QED
    BY <1>8, <2>1 DEF NamesOut
<1> QED
  BY <1>3, <1>7, <1>9, ReadTyped, ReadHistory, ReadRename, ReadSpaced DEF Inv

----------------------------------------------------------------------------
(* The other actions.                                                      *)

SamePanel ==
    /\ panel'.there = panel.there /\ panel'.supp = panel.supp
    /\ panel'.title = panel.title /\ panel'.renamed = panel.renamed
    /\ panel'.ai = panel.ai
Idle == ~state.timer /\ calls.first = 0 /\ calls.again = 0

(* Nothing is read, and no name changes.                                   *)
LEMMA QuietInv ==
    ASSUME Inv, UNCHANGED <<files, pendingClear, life, late>>, SamePanel, Idle => Idle',
           Shape', Spaced'
    PROVE  Inv'
<1>1. file' = file /\ read' = read /\ log' = log /\ heard' = heard /\ boot' = boot
  BY DEF files
<1>2. \A n : Prompts(n)' = Prompts(n) /\ Namings(n)' = Namings(n)
  BY <1>1 DEF Prompts, Namings
<1>3. Prompts(read)' = Prompts(read) /\ Prompts(Len(file))' = Prompts(Len(file))
  BY <1>1 DEF Prompts
<1>4. FromClear' = FromClear /\ OnlyInherited' = OnlyInherited
  BY <1>1, <1>2 DEF FromClear, OnlyInherited
<1>5. History'
  BY <1>1, <1>3, <1>4 DEF Inv, History, SamePanel
<1>6. RenameRead'
  BY <1>1, <1>2 DEF Inv, RenameRead, LastRename, SamePanel
<1>7. NamesOut'
  <2>1. Before => Before'
    BY <1>3 DEF Before, SamePanel, Idle
  <2>2. After => After'
    BY <1>3 DEF After, Slipped, SamePanel
  <2> QED
    BY <1>1, <1>4, <2>1, <2>2 DEF Inv, NamesOut, SamePanel
<1> QED
  BY <1>5, <1>6, <1>7 DEF Inv

LEMMA SameCount ==
    ASSUME Inv, UNCHANGED files
    PROVE  turnCount' = turnCount /\ turnCount \in Nat /\ turnCount <= turnCount'
<1>1. turnCount \in Nat
  BY BaselineParts, BoundsAssumption DEF Inv
<1>2. turnCount' = turnCount
  BY DEF files, turnCount, Prompts
<1> QED
  BY <1>1, <1>2

LEMMA TimerFiresInv ==
    ASSUME Inv, TimerFires PROVE Inv'
<1> DEFINE s == [state EXCEPT !.timer = FALSE]
<1>1. /\ state.timer /\ evaluate(s, "user_text")
      /\ UNCHANGED <<files, panel, pendingClear, pref, disabled, late, life>>
  BY DEF TimerFires
<1>2. Shape /\ s \in PanelState /\ s.lastEval = state.lastEval
  BY DEF Inv, Shape, TypeOK, PanelState
<1> HIDE DEF s
<1>3. TitlerTyped' /\ (Calm \/ Asks("user_text"))
  BY <1>1, <1>2, EvaluateParts
<1>4. Shape'
  BY <1>1, <1>2, <1>3 DEF Shape, TypeOK, TitlerTyped, files
<1>5. Spaced'
  BY <1>1, <1>3, SameCount, SpacedCalm, SpacedAsked DEF Calm, Asks
<1> QED
  BY <1>1, <1>4, <1>5, QuietInv DEF SamePanel, Idle

(* A request ends without a proposal.                                      *)
LEMMA EndsInv ==
    ASSUME Inv, NEW k \in {"first", "again"}, Kept(k) \/ Fails(k) \/ FailsForGood(k)
    PROVE  Inv'
<1>1. /\ calls[k] > 0 /\ calls' = [calls EXCEPT ![k] = @ - 1]
      /\ UNCHANGED <<files, pendingClear, pref, client, asked, life, panel, late>>
      /\ disabled' \in {disabled, TRUE}
      /\ \/ state' = [state EXCEPT !.inflight = FALSE]
         \/ state' = [[state EXCEPT !.cool = state.exists] EXCEPT !.inflight = FALSE]
  BY DEF Kept, Fails, FailsForGood, Ends
<1>2. TypeOK /\ Shape
  BY DEF Inv, Shape
<1>3. state' \in PanelState /\ state'.lastEval = state.lastEval
  BY <1>1, <1>2 DEF TypeOK, PanelState
<1>4. calls' \in [{"first", "again"} -> Nat]
  BY <1>1, <1>2 DEF TypeOK
<1>5. Shape'
  BY <1>1, <1>2, <1>3, <1>4 DEF Shape, TypeOK, files
<1>6. Spaced'
  BY <1>1, <1>3, SameCount, SpacedCalm
<1>7. ~Idle
  BY <1>1 DEF Idle
<1> QED
  BY <1>1, <1>5, <1>6, <1>7, QuietInv DEF SamePanel

LEMMA ProposedInv ==
    ASSUME Inv, NEW k \in {"first", "again"}, NEW n \in Proposals, Proposed(k, n) PROVE Inv'
<1>1. /\ calls[k] > 0 /\ calls' = [calls EXCEPT ![k] = @ - 1]
      /\ UNCHANGED <<files, pendingClear, pref, client, asked, life, disabled>>
      /\ state' = [state EXCEPT !.inflight = FALSE]
      /\ panel' = IF panel.there THEN [panel EXCEPT !.title = n] ELSE panel
      /\ late' = (late \/ panel.renamed)
  BY DEF Proposed, Ends
<1>2. TypeOK /\ Shape
  BY DEF Inv, Shape
<1>3. state' \in PanelState /\ state'.lastEval = state.lastEval
  BY <1>1, <1>2 DEF TypeOK, PanelState
<1>4. calls' \in [{"first", "again"} -> Nat]
  BY <1>1, <1>2 DEF TypeOK
<1>5. /\ panel' \in Panel /\ panel'.there = panel.there /\ panel'.supp = panel.supp
      /\ panel'.title \in {n, panel.title} /\ panel'.renamed = panel.renamed
      /\ panel'.ai = panel.ai /\ (~panel.there => panel' = panel)
  BY <1>1, <1>2 DEF TypeOK, Panel, Titles
<1>6. Shape'
  BY <1>1, <1>2, <1>3, <1>4, <1>5 DEF Shape, TypeOK, files
<1>7. Spaced'
  BY <1>1, <1>3, SameCount, SpacedCalm
<1>8. file' = file /\ read' = read /\ log' = log /\ heard' = heard /\ boot' = boot
  BY <1>1 DEF files
<1>9. \A i : Prompts(i)' = Prompts(i) /\ Namings(i)' = Namings(i)
  BY <1>8 DEF Prompts, Namings
<1>10. Prompts(read)' = Prompts(read) /\ Prompts(Len(file))' = Prompts(Len(file))
  BY <1>8 DEF Prompts
<1>11. FromClear' = FromClear /\ OnlyInherited' = OnlyInherited
  BY <1>8, <1>9 DEF FromClear, OnlyInherited
<1>12. History'
  BY <1>5, <1>8, <1>10, <1>11 DEF Inv, History
<1>13. RenameRead'
  <2> SUFFICES ASSUME NEW i \in DOMAIN file, ~late', LastRename(i), read >= i PROVE FALSE
    BY <1>8, <1>9 DEF RenameRead, LastRename
  <2>1. ~late /\ ~panel.renamed
    BY <1>1
  <2> QED
    BY <2>1 DEF Inv, RenameRead
<1>14. NamesOut'
  <2>1. n \notin Inherited /\ Inherited = {Old, OldAi}
    BY TitlesAssumption DEF Inherited
  <2>2. ~Before
    BY <1>1 DEF Before
  <2>3. After => After'
    BY <1>1, <1>5, <1>10, <2>1 DEF After, Slipped
  <2> QED
    BY <1>1, <1>5, <1>8, <1>11, <2>1, <2>2, <2>3 DEF Inv, NamesOut
<1> QED
  BY <1>6, <1>7, <1>12, <1>13, <1>14 DEF Inv

LEMMA TitlerRestInv ==
    ASSUME Inv, Retries \/ CoolEnds \/ Age \/ ClientLoads PROVE Inv'
<1>1. TypeOK /\ Shape
  BY DEF Inv, Shape
<1>2. CASE Retries
  <2>1. /\ calls.first > 0 /\ calls' = [first |-> calls.first - 1, again |-> calls.again + 1]
        /\ UNCHANGED <<files, panel, pendingClear, pref, state, client, disabled, asked, late, life>>
    BY <1>2 DEF Retries
  <2>2. calls' \in [{"first", "again"} -> Nat]
    <3>1. calls.first \in Nat /\ calls.again \in Nat
      BY <1>1 DEF TypeOK
    <3>2. calls.first - 1 \in Nat /\ calls.again + 1 \in Nat
      BY <2>1, <3>1
    <3> DEFINE x == calls.first - 1
               y == calls.again + 1
    <3> HIDE DEF x, y
    <3>3. x \in Nat /\ y \in Nat /\ calls' = [first |-> x, again |-> y]
      BY <2>1, <3>2 DEF x, y
    <3>4. calls' \in [first : Nat, again : Nat]
      BY <3>3
    <3> QED
      BY <3>4
  <2>3. Shape'
    BY <1>1, <2>1, <2>2 DEF Shape, TypeOK, files
  <2> QED
    BY <2>1, <2>3, SameCount, SpacedCalm, QuietInv DEF SamePanel, Idle
<1>3. CASE CoolEnds
  <2>1. /\ state' = [state EXCEPT !.cool = FALSE]
        /\ UNCHANGED <<files, panel, pendingClear, pref, client, calls, asked, disabled, late, life>>
    BY <1>3 DEF CoolEnds
  <2>2. state' \in PanelState /\ state'.lastEval = state.lastEval /\ state'.timer = state.timer
    BY <1>1, <2>1 DEF TypeOK, PanelState
  <2>3. Shape'
    BY <1>1, <2>1, <2>2 DEF Shape, TypeOK, files
  <2> QED
    BY <2>1, <2>2, <2>3, SameCount, SpacedCalm, QuietInv DEF SamePanel, Idle
<1>4. CASE Age
  <2> DEFINE e == Aged(state.lastEval)
  <2>1. /\ state' = [state EXCEPT !.lastEval = e] /\ asked' = Aged(asked)
        /\ UNCHANGED <<files, panel, pendingClear, pref, client, calls, disabled, late, life>>
    BY <1>4 DEF Age
  <2>2. state.lastEval \in Evals /\ asked \in Evals
    BY <1>1 DEF TypeOK, PanelState
  <2>3. /\ e \in Evals /\ DOMAIN e = DOMAIN state.lastEval
        /\ \A i \in DOMAIN e : e[i].turns = state.lastEval[i].turns
    BY <2>2, AgedParts
  <2>4. /\ asked' \in Evals /\ DOMAIN asked' = DOMAIN asked
        /\ \A i \in DOMAIN asked : asked'[i].turns = asked[i].turns /\ asked'[i].aged
    BY <2>1, <2>2, AgedParts
  <2> HIDE DEF e
  <2>5. state' \in PanelState /\ state'.lastEval = e /\ state'.timer = state.timer
    BY <1>1, <2>1, <2>3 DEF TypeOK, PanelState
  <2>6. Shape'
    BY <1>1, <2>1, <2>4, <2>5 DEF Shape, TypeOK, files
  <2>7. Spaced'
    <3>1. turnCount' = turnCount
      BY <2>1, SameCount
    <3> QED
      BY <2>3, <2>4, <2>5, <3>1 DEF Inv, Spaced
  <2> QED
    BY <2>1, <2>5, <2>6, <2>7, QuietInv DEF SamePanel, Idle
<1>5. CASE ClientLoads
  <2>1. /\ client' = "ready"
        /\ UNCHANGED <<files, panel, pendingClear, pref, state, calls, asked, disabled, late, life>>
    BY <1>5 DEF ClientLoads
  <2>2. Shape'
    BY <1>1, <2>1 DEF Shape, TypeOK, files
  <2> QED
    BY <2>1, <2>2, SameCount, SpacedCalm, QuietInv DEF SamePanel, Idle
<1> QED
  BY <1>2, <1>3, <1>4, <1>5

LEMMA UserInv ==
    ASSUME Inv, Bin \/ Unbin \/ TogglePref PROVE Inv'
<1>1. TypeOK /\ Shape
  BY DEF Inv, Shape
<1>2. CASE Bin
  <2>1. /\ panel' = [panel EXCEPT !.binned = TRUE]
        /\ UNCHANGED <<files, pendingClear, pref, titler, disabled, late, life>>
    BY <1>2 DEF Bin
  <2>2. panel' \in Panel /\ SamePanel
    BY <1>1, <2>1 DEF TypeOK, Panel, SamePanel
  <2>3. Shape'
    BY <1>1, <2>1, <2>2 DEF Shape, TypeOK, files, titler
  <2> QED
    BY <2>1, <2>2, <2>3, SameCount, SpacedCalm, QuietInv DEF Idle, titler
<1>3. CASE Unbin
  <2>1. /\ panel' = [panel EXCEPT !.binned = FALSE]
        /\ UNCHANGED <<files, pendingClear, pref, titler, disabled, late, life>>
    BY <1>3 DEF Unbin
  <2>2. panel' \in Panel /\ SamePanel
    BY <1>1, <2>1 DEF TypeOK, Panel, SamePanel
  <2>3. Shape'
    BY <1>1, <2>1, <2>2 DEF Shape, TypeOK, files, titler
  <2> QED
    BY <2>1, <2>2, <2>3, SameCount, SpacedCalm, QuietInv DEF Idle, titler
<1>4. CASE TogglePref
  <2>1. /\ pref' = ~pref
        /\ UNCHANGED <<files, panel, pendingClear, titler, disabled, late, life>>
    BY <1>4 DEF TogglePref
  <2>2. pref' \in BOOLEAN
    BY <1>1, <2>1 DEF TypeOK
  <2>3. Shape'
    BY <1>1, <2>1, <2>2 DEF Shape, TypeOK, files, titler
  <2> QED
    BY <2>1, <2>3, SameCount, SpacedCalm, QuietInv DEF SamePanel, Idle, titler
<1> QED
  BY <1>2, <1>3, <1>4

LEMMA WriteHookInv ==
    ASSUME Inv, NEW h \in Hooks, WriteHook(h) PROVE Inv'
<1>1. /\ h # "clear" /\ log' = Append(log, h)
      /\ UNCHANGED <<file, read, heard, boot, panel, pendingClear, pref, titler, disabled, late, life>>
  BY DEF WriteHook
<1>2. TypeOK /\ Shape
  BY DEF Inv, Shape
<1>3. /\ log' \in Seq(Hooks) /\ Len(log) \in Nat /\ Len(log') = Len(log) + 1
      /\ \A i \in 1..Len(log) : log'[i] = log[i]
      /\ log'[Len(log) + 1] = h
  BY <1>1, <1>2, AppendProperties DEF TypeOK
<1>4. Shape'
  BY <1>1, <1>2, <1>3 DEF Shape, TypeOK, titler
<1>5. FromClear' <=> FromClear
  <2>1. CASE log = <<>>
    BY <1>1, <1>3, <2>1 DEF FromClear
  <2>2. CASE log # <<>>
    <3>1. 1 \in 1..Len(log) /\ log' # <<>>
      BY <1>2, <1>3, <2>2, EmptySeq DEF TypeOK
    <3> QED
      BY <1>3, <2>2, <3>1 DEF FromClear
  <2> QED
    BY <2>1, <2>2
<1>6. \A j \in 2..Len(log') : log'[j] # "clear"
  <2> SUFFICES ASSUME NEW j \in 2..Len(log') PROVE log'[j] # "clear"
    OBVIOUS
  <2>1. j = Len(log) + 1 \/ (j \in 1..Len(log) /\ j \in 2..Len(log))
    BY <1>3
  <2> QED
    BY <1>1, <1>3, <2>1 DEF Inv, History
<1>7. \A n : Prompts(n)' = Prompts(n) /\ Namings(n)' = Namings(n)
  BY <1>1 DEF Prompts, Namings
<1>8. Prompts(read)' = Prompts(read) /\ Prompts(Len(file))' = Prompts(Len(file)) /\ turnCount' = turnCount
  BY <1>1 DEF Prompts, turnCount
<1>9. History'
  BY <1>1, <1>5, <1>6, <1>8 DEF Inv, History
<1>10. RenameRead'
  BY <1>1, <1>7 DEF Inv, RenameRead, LastRename
<1>11. Spaced'
  BY <1>1, <1>8 DEF Inv, Spaced, titler
<1>12. NamesOut'
  <2>1. OnlyInherited' = OnlyInherited
    BY <1>1, <1>7 DEF OnlyInherited
  <2>2. (Before => Before') /\ (After => After')
    BY <1>1, <1>8 DEF Before, After, Slipped, titler
  <2> QED
    BY <1>1, <1>5, <2>1, <2>2 DEF Inv, NamesOut
<1> QED
  BY <1>4, <1>9, <1>10, <1>11, <1>12 DEF Inv

LEMMA ClearedParts ==
    ASSUME NEW p \in Panel
    PROVE  LET q == Cleared(p)
           IN  /\ q \in Panel /\ q.there = p.there /\ q.title = Placeholder /\ q.ai = p.ai
               /\ q.supp = IF p.title = Placeholder THEN "any" ELSE p.title
<1> DEFINE q == Cleared(p)
<1>1. CASE p.title = Placeholder
  <2>1. q = [p EXCEPT !.supp = "any"]
    BY <1>1 DEF Cleared
  <2> HIDE DEF q
  <2>2. q \in Panel /\ q.there = p.there /\ q.title = Placeholder /\ q.supp = "any" /\ q.ai = p.ai
    BY <1>1, <2>1 DEF Panel
  <2> QED
    BY <1>1, <2>2 DEF q
<1>2. CASE p.title # Placeholder
  <2>1. q = [p EXCEPT !.supp = p.title, !.title = Placeholder]
    BY <1>2 DEF Cleared
  <2> HIDE DEF q
  <2>2. Placeholder \in Titles /\ p.title \in Titles
    BY DEF Titles, Panel
  <2>3. q \in Panel /\ q.there = p.there /\ q.title = Placeholder /\ q.supp = p.title /\ q.ai = p.ai
    BY <2>1, <2>2 DEF Panel
  <2> QED
    BY <1>2, <2>3 DEF q
<1> QED
  BY <1>1, <1>2

LEMMA HearClearInv ==
    ASSUME Inv, Hear, log[heard + 1] = "clear" PROVE Inv'
<1>1. /\ heard < Len(log) /\ heard' = heard + 1
      /\ panel' = IF panel.there THEN Cleared(panel) ELSE panel
      /\ pendingClear' = (pendingClear \/ ~panel.there)
      /\ UNCHANGED <<file, read, log, boot, pref, titler, disabled, late, life>>
  BY DEF Hear
<1>2. TypeOK /\ Shape /\ panel \in Panel
  BY DEF Inv, Shape, TypeOK
<1>3. heard = 0 /\ FromClear
  <2>1. heard \in Nat /\ Len(log) \in Nat
    BY <1>2 DEF TypeOK
  <2>2. heard = 0
    <3> SUFFICES ASSUME heard # 0 PROVE FALSE
      OBVIOUS
    <3>1. heard + 1 \in 2..Len(log)
      BY <1>1, <2>1
    <3> QED
      BY <3>1 DEF Inv, History
  <2>3. log[1] = "clear" /\ log # <<>>
    BY <1>1, <2>2
  <2> QED
    BY <2>2, <2>3 DEF FromClear
<1>4. Prompts(read) \in Nat /\ ~(Prompts(read) > 0)
  <2>1. Prompts(read) \in Nat
    BY <1>2, PromptsParts DEF TypeOK
  <2>2. Prompts(read) > 0 => heard >= 1
    BY <1>3 DEF Inv, History
  <2> QED
    BY <1>3, <2>1, <2>2
<1>5. panel' \in Panel /\ panel'.there = panel.there
  BY <1>1, <1>2, ClearedParts
<1>6. Shape'
  <2>1. heard' \in 0..Len(log) /\ pendingClear' \in BOOLEAN
    BY <1>1, <1>2 DEF TypeOK
  <2> QED
    BY <1>1, <1>2, <1>5, <2>1 DEF Shape, TypeOK, titler
<1>7. \A n : Prompts(n)' = Prompts(n) /\ Namings(n)' = Namings(n)
  BY <1>1 DEF Prompts, Namings
<1>8. /\ Prompts(read)' = Prompts(read) /\ Prompts(Len(file))' = Prompts(Len(file))
      /\ turnCount' = turnCount /\ FromClear' = FromClear
  BY <1>1 DEF Prompts, turnCount, FromClear
<1>9. History'
  BY <1>1, <1>3, <1>4, <1>8 DEF Inv, History
<1>10. RenameRead'
  <2> SUFFICES ASSUME NEW i \in DOMAIN file, Prompts(i) > 0, read >= i PROVE FALSE
    BY <1>1, <1>7 DEF RenameRead, LastRename
  <2>1. i \in Nat /\ read \in Nat /\ i <= read
    BY <1>2 DEF TypeOK
  <2>2. Prompts(i) <= Prompts(read) /\ Prompts(i) \in Nat
    BY <2>1, PromptsParts
  <2> QED
    BY <1>4, <2>2
<1>11. Spaced'
  BY <1>1, <1>8 DEF Inv, Spaced, titler
<1>12. NamesOut'
  <2>1. OnlyInherited' = OnlyInherited
    BY <1>1, <1>7 DEF OnlyInherited
  <2>2. Placeholder \notin Inherited /\ Inherited = {Old, OldAi}
    BY TitlesAssumption DEF Inherited
  <2>3. ~panel.there => panel'.title \notin Inherited
    BY <1>1 DEF Inv, NamesOut
  <2>4. ASSUME life = 0, OnlyInherited PROVE After'
    <3>1. Before
      BY <1>3, <2>4 DEF Inv, NamesOut
    <3>2. CASE panel.there
      <4>1. panel' = Cleared(panel)
        BY <1>1, <3>2
      <4>2. /\ panel'.title = Placeholder /\ panel'.there /\ panel'.ai = panel.ai
            /\ panel'.supp = IF panel.title = Placeholder THEN "any" ELSE panel.title
        BY <1>2, <3>2, <4>1, ClearedParts
      <4>3. \/ panel'.supp \in {"any", Old}
            \/ panel'.supp = OldAi /\ panel'.ai = OldAi /\ OldAi # Old
        BY <3>1, <4>2 DEF Before
      <4> QED
        BY <2>2, <4>2, <4>3 DEF After, Slipped
    <3>3. CASE ~panel.there
      <4>1. panel'.title \notin {Old, OldAi} /\ ~panel'.there /\ pendingClear'
        BY <1>1, <2>2, <2>3, <3>3
      <4> QED
        BY <4>1 DEF After
    <3> QED
      BY <3>2, <3>3
  <2>5. heard' # 0
    BY <1>1, <1>3
  <2> QED
    BY <1>1, <1>5, <1>8, <2>1, <2>3, <2>4, <2>5 DEF Inv, NamesOut
<1> QED
  BY <1>6, <1>9, <1>10, <1>11, <1>12 DEF Inv

LEMMA HearOtherInv ==
    ASSUME Inv, Hear, log[heard + 1] # "clear" PROVE Inv'
<1>1. /\ heard < Len(log) /\ heard' = heard + 1 /\ AtOnce(log[heard + 1])
      /\ UNCHANGED <<file, read, log, boot, panel, pendingClear, pref, disabled, late, life>>
  BY DEF Hear
<1>2. TypeOK /\ Shape
  BY DEF Inv, Shape
<1>3. heard + 1 \in 1..Len(log) /\ heard \in Nat
  BY <1>1, <1>2 DEF TypeOK
<1>4. log[heard + 1] \in {"stop", "subagent_start"}
  <2>1. log[heard + 1] \in Hooks
    BY <1>2, <1>3, ElementOfSeq DEF TypeOK
  <2> QED
    BY <2>1 DEF Hooks
<1>5. TitlerTyped' /\ (Calm \/ Asks(log[heard + 1]))
  BY <1>1, <1>2, <1>4, AtOnceParts
<1>6. Shape'
  <2>1. heard' \in 0..Len(log)
    BY <1>1, <1>3
  <2> QED
    BY <1>1, <1>2, <1>5, <2>1 DEF Shape, TypeOK, TitlerTyped
<1>7. \A n : Prompts(n)' = Prompts(n) /\ Namings(n)' = Namings(n)
  BY <1>1 DEF Prompts, Namings
<1>8. /\ Prompts(read)' = Prompts(read) /\ Prompts(Len(file))' = Prompts(Len(file))
      /\ turnCount' = turnCount /\ FromClear' = FromClear
  BY <1>1 DEF Prompts, turnCount, FromClear
<1>9. turnCount \in Nat
  BY <1>2, BaselineParts, BoundsAssumption
<1>10. Spaced'
  BY <1>5, <1>8, <1>9, SpacedCalm, SpacedAsked DEF Calm, Asks
<1>11. FromClear => heard # 0
  BY DEF FromClear
<1>12. History'
  BY <1>1, <1>3, <1>8 DEF Inv, History
<1>13. RenameRead'
  BY <1>1, <1>7 DEF Inv, RenameRead, LastRename
<1>14. NamesOut'
  <2>1. OnlyInherited' = OnlyInherited
    BY <1>1, <1>7 DEF OnlyInherited
  <2>2. After => After'
    BY <1>1, <1>8 DEF After, Slipped
  <2>3. heard' # 0
    BY <1>1, <1>3
  <2> QED
    BY <1>1, <1>8, <1>11, <2>1, <2>2, <2>3 DEF Inv, NamesOut
<1> QED
  BY <1>6, <1>10, <1>12, <1>13, <1>14 DEF Inv

LEMMA RebuildInv ==
    ASSUME Inv, Rebuild PROVE Inv'
<1>1. /\ life < MaxRestarts /\ life' = life + 1 /\ read' = 0
      /\ panel' = Unborn /\ state' = NoState /\ asked' = <<>>
      /\ UNCHANGED <<file, log, heard, boot, pendingClear, pref, client, calls, disabled, late>>
  BY DEF Rebuild
<1>2. TypeOK /\ Shape
  BY DEF Inv, Shape
<1>3. panel' \in Panel /\ ~panel'.there /\ panel'.title = Placeholder
  BY <1>1 DEF Unborn, Panel, Titles
<1>4. state' \in PanelState /\ asked' \in Evals
  BY <1>1 DEF NoState, PanelState, Evals
<1>5. life' \in 0..MaxRestarts /\ life' # 0 /\ Len(file) \in Nat
  BY <1>1, <1>2, BoundsAssumption DEF TypeOK
<1>6. Shape'
  <2>1. read' \in 0..Len(file)
    BY <1>1, <1>5
  <2>2. TypeOK'
    BY <1>1, <1>2, <1>3, <1>4, <1>5, <2>1 DEF TypeOK
  <2> QED
    BY <1>1, <1>2, <2>2 DEF Shape
<1>7. Prompts(read)' = 0 /\ Prompts(Len(file))' = Prompts(Len(file))
  <2>1. PromptsOf(file', 0) \in 0..0
    BY PromptsFacts
  <2>2. Prompts(read)' = PromptsOf(file', 0)
    BY <1>1 DEF Prompts, PromptsOf
  <2> QED
    BY <1>1, <2>1, <2>2 DEF Prompts
<1>8. History'
  BY <1>1, <1>7 DEF Inv, History, FromClear
<1>9. RenameRead'
  <2>1. \A i \in DOMAIN file : ~(0 >= i)
    BY <1>2, <1>5 DEF TypeOK
  <2> QED
    BY <1>1, <2>1 DEF RenameRead
<1>10. Spaced'
  BY <1>1 DEF Spaced
<1>11. Placeholder \notin Inherited
  BY TitlesAssumption DEF Inherited
<1>12. NamesOut'
  BY <1>3, <1>5, <1>11 DEF NamesOut
<1> QED
  BY <1>6, <1>8, <1>9, <1>10, <1>12 DEF Inv

LEMMA RestartInv ==
    ASSUME Inv, Restart PROVE Inv'
<1>1. /\ life < MaxRestarts /\ life' = life + 1
      /\ read' = 0 /\ heard' = 0 /\ boot' = Len(log)
      /\ panel' = [panel EXCEPT !.supp = "off"] /\ pendingClear' = FALSE
      /\ state' = NoState /\ client' \in {"unbuilt", "ready"} /\ disabled' = FALSE
      /\ calls' = [first |-> 0, again |-> 0] /\ asked' = <<>>
      /\ file' = file /\ log' = log /\ pref' = pref /\ late' = late
  BY DEF Restart
<1>2. TypeOK /\ Shape
  BY DEF Inv, Shape
<1>3. panel' \in Panel /\ panel'.there = panel.there /\ panel'.title = panel.title
  BY <1>1, <1>2 DEF TypeOK, Panel
<1>4. state' \in PanelState /\ state'.lastEval = <<>>
  BY <1>1 DEF NoState, PanelState, Evals
<1>5. calls' \in [{"first", "again"} -> Nat]
  <2>1. calls' \in [first : Nat, again : Nat]
    BY <1>1
  <2> QED
    BY <2>1
<1>6. asked' \in Evals /\ life' \in 0..MaxRestarts /\ life' # 0
  BY <1>1, <1>2, BoundsAssumption DEF Evals, TypeOK
<1>8. Len(file) \in Nat /\ Len(log) \in Nat
  BY <1>2 DEF TypeOK
<1>7. Shape'
  <2>1. read' \in 0..Len(file) /\ heard' \in 0..Len(log) /\ boot' \in 0..Len(log)
    BY <1>1, <1>8
  <2>2. client' \in {"unbuilt", "loading", "ready"}
    BY <1>1
  <2>3. TypeOK'
    BY <1>1, <1>2, <1>3, <1>4, <1>5, <1>6, <2>1, <2>2 DEF TypeOK
  <2> QED
    BY <1>1, <1>2, <2>3 DEF Shape
<1>9. Prompts(read)' = 0
  <2>1. PromptsOf(file', 0) \in 0..0
    BY PromptsFacts
  <2>2. Prompts(read)' = PromptsOf(file', 0)
    BY <1>1 DEF Prompts, PromptsOf
  <2> QED
    BY <2>1, <2>2
<1>10. History'
  <2>1. FromClear => Len(log) >= 1
    BY <1>2, <1>8, EmptySeq DEF FromClear, TypeOK
  <2> QED
    BY <1>1, <1>9, <2>1 DEF Inv, History, FromClear
<1>11. RenameRead'
  <2>1. \A i \in DOMAIN file : ~(0 >= i)
    BY <1>2, <1>8 DEF TypeOK
  <2> QED
    BY <1>1, <2>1 DEF RenameRead
<1>12. Spaced'
  BY <1>1 DEF Spaced
<1>13. NamesOut'
  BY <1>3, <1>6 DEF Inv, NamesOut
<1> QED
  BY <1>7, <1>10, <1>11, <1>12, <1>13 DEF Inv

----------------------------------------------------------------------------
(* The invariant holds.                                                    *)

LEMMA InitInv == Init => Inv
<1> SUFFICES ASSUME Init PROVE Inv
  OBVIOUS
<1>1. /\ file = <<>> /\ read = 0 /\ log \in {<<>>, <<"clear">>} /\ heard = 0 /\ boot = 0
      /\ panel = Unborn /\ pendingClear = FALSE /\ pref = TRUE /\ state = NoState
      /\ client \in {"unbuilt", "ready"} /\ disabled = FALSE
      /\ calls = [first |-> 0, again |-> 0] /\ asked = <<>> /\ late = FALSE /\ life = 0
  BY DEF Init
<1>2. /\ file \in Seq(Records) /\ Len(file) = 0 /\ DOMAIN file = {}
  BY <1>1
<1>3. log \in Seq(Hooks) /\ Len(log) \in {0, 1}
  <2>1. "clear" \in Hooks
    BY DEF Hooks
  <2>2. CASE log = <<>>
    BY <2>2
  <2>3. CASE log = <<"clear">>
    BY <2>1, <2>3
  <2> QED
    BY <1>1, <2>2, <2>3
<1>4. panel \in Panel /\ panel.title = Placeholder /\ ~panel.there
  BY <1>1 DEF Unborn, Panel, Titles
<1>5. state \in PanelState /\ state.lastEval = <<>> /\ ~state.timer
  BY <1>1 DEF NoState, PanelState, Evals
<1>6. calls \in [{"first", "again"} -> Nat]
  <2>1. calls \in [first : Nat, again : Nat]
    BY <1>1
  <2> QED
    BY <2>1
<1>7. Shape
  <2>1. asked \in Evals
    BY <1>1 DEF Evals
  <2>2. read \in 0..Len(file) /\ heard \in 0..Len(log) /\ boot \in 0..Len(log)
    BY <1>1, <1>2, <1>3
  <2>3. life \in 0..MaxRestarts /\ client \in {"unbuilt", "loading", "ready"}
    BY <1>1, BoundsAssumption
  <2>4. TypeOK
    BY <1>1, <1>2, <1>3, <1>4, <1>5, <1>6, <2>1, <2>2, <2>3 DEF TypeOK
  <2> QED
    BY <1>2, <2>4, BoundsAssumption DEF Shape
<1>8. Prompts(0) = 0
  BY PromptsParts
<1>9. History
  BY <1>1, <1>2, <1>3, <1>8 DEF History
<1>10. RenameRead /\ Spaced
  BY <1>1, <1>2 DEF RenameRead, Spaced
<1>11. NamesOut
  BY <1>1, <1>2, <1>4, <1>5, <1>8, TitlesAssumption DEF NamesOut, Before, Inherited
<1> QED
  BY <1>7, <1>9, <1>10, <1>11 DEF Inv

LEMMA NextInv ==
    ASSUME Inv, [Next]_vars PROVE Inv'
<1>1. CASE \E r \in Records : Write(r)
  BY <1>1, WriteInv
<1>2. CASE \E h \in Hooks : WriteHook(h)
  BY <1>2, WriteHookInv
<1>3. CASE Reread \/ Hear \/ TimerFires
  BY <1>3, RereadInv, HearClearInv, HearOtherInv, TimerFiresInv
<1>4. CASE \E k \in {"first", "again"} :
             Kept(k) \/ Fails(k) \/ FailsForGood(k) \/ \E n \in Proposals : Proposed(k, n)
  BY <1>4, EndsInv, ProposedInv
<1>5. CASE Retries \/ CoolEnds \/ Age \/ ClientLoads
  BY <1>5, TitlerRestInv
<1>6. CASE Bin \/ Unbin \/ TogglePref
  BY <1>6, UserInv
<1>7. CASE Rebuild \/ Restart
  BY <1>7, RebuildInv, RestartInv
<1>8. CASE UNCHANGED vars
  <2>1. /\ UNCHANGED <<files, panel, pendingClear, pref, titler, disabled, late, life>>
    BY <1>8 DEF vars
  <2>2. Shape'
    BY <2>1 DEF Inv, Shape, TypeOK, files, titler
  <2> QED
    BY <2>1, <2>2, SameCount, SpacedCalm, QuietInv DEF SamePanel, Idle, titler
<1> QED
  BY <1>1, <1>2, <1>3, <1>4, <1>5, <1>6, <1>7, <1>8 DEF Next

(* Every reachable state satisfies the invariant.                          *)
THEOREM TitleInvariant == Spec => []Inv
<1>1. Inv /\ [Next]_vars => Inv'
  BY NextInv
<1> QED
  BY <1>1, InitInv, PTL DEF Spec

----------------------------------------------------------------------------
(* What it gives.                                                          *)

(* The panel's row, the titler's state and the readers' offsets have their *)
(* types.                                                                  *)
THEOREM TypeCorrect == Spec => []TypeOK
<1>1. Inv => TypeOK
  BY DEF Inv, Shape
<1> QED
  BY <1>1, TitleInvariant, PTL

(* The last rename the user made after the first prompt is the title, and  *)
(* marked as a rename, whenever both files are read to their ends: no      *)
(* restart, replayed hook, repeated name or late ai-title takes it back,   *)
(* only a proposal that was under way may.                                 *)
THEOREM RenameStands == Spec => []RenameSurvives
<1>1. Inv => RenameSurvives
  <2> SUFFICES ASSUME Inv, NEW i \in DOMAIN file, read = Len(file), ~late,
                      Prompts(i) > 0, file[i].kind = "custom", Namings(i) = {i}
               PROVE  panel.title = file[i].name /\ panel.renamed
    BY DEF RenameSurvives
  <2>1. read >= i
    BY DEF Inv, Shape, TypeOK
  <2> QED
    BY <2>1 DEF Inv, RenameRead, LastRename
<1> QED
  BY <1>1, TitleInvariant, PTL

(* The names of the cleared session, as long as they are only repeated     *)
(* before the first prompt, are not the title once the hook of the /clear  *)
(* is heard, in the life that saw the /clear; but for the custom-title of  *)
(* one whose ai-title, another name, had been on the panel before.         *)
THEOREM InheritedNameIsSuppressed == Spec => []InheritedNameStaysOut
<1>1. Inv => InheritedNameStaysOut
  <2> SUFFICES ASSUME Inv, life = 0, "clear" \in {log[i] : i \in 1..heard}, OnlyInherited
               PROVE  /\ panel.title # OldAi
                      /\ panel.title = Old => panel.ai = OldAi /\ OldAi # Old
    BY DEF InheritedNameStaysOut, OnlyInherited
  <2>1. PICK i \in 1..heard : log[i] = "clear"
    OBVIOUS
  <2>2. i \in 1..Len(log) /\ heard \in Nat /\ heard # 0
    BY DEF Inv, Shape, TypeOK
  <2>3. i = 1
    BY <2>1, <2>2 DEF Inv, History
  <2>4. FromClear
    BY <2>1, <2>2, <2>3 DEF FromClear
  <2> QED
    BY <2>2, <2>4 DEF Inv, NamesOut, After, Slipped
<1> QED
  BY <1>1, TitleInvariant, PTL

(* A titled panel is asked about again only after a new prompt, and after  *)
(* RECHECK_AFTER_TURNS of them or RECHECK_AFTER_MS since the last request, *)
(* until the server or the panel begins anew.                              *)
THEOREM RechecksAreSpaced == Spec => RecheckIsSpaced
<1> DEFINE Space == \A i \in DOMAIN asked :
                      (calls'.first > calls.first /\ panel.title # Placeholder)
                      => /\ turnCount > asked[i].turns
                         /\ turnCount - asked[i].turns >= RecheckTurns \/ asked[i].aged
<1>1. ASSUME Inv, [Next]_vars PROVE [Space]_vars
  <2> SUFFICES ASSUME calls'.first > calls.first, panel.title # Placeholder, NEW i \in DOMAIN asked
               PROVE  /\ turnCount > asked[i].turns
                      /\ turnCount - asked[i].turns >= RecheckTurns \/ asked[i].aged
    OBVIOUS
  <2>1. TypeOK /\ Shape /\ calls.first \in Nat /\ calls.again \in Nat
    BY <1>1 DEF Inv, Shape, TypeOK
  <2>2. \E reason : Asks(reason)
    <3>1. CASE \E r \in Records : Write(r)
      <4>1. PICK r \in Records : Reads(r)
        BY <1>1, <3>1, WriteReads
      <4>2. Calm
        BY <1>1, <4>1, ReadTyped
      <4> QED
        BY <2>1, <4>2 DEF Calm
    <3>2. CASE Reread
      <4>1. Debounce \/ UNCHANGED titler
        BY <3>2 DEF Reread, Take
      <4> QED
        BY <2>1, <4>1 DEF Debounce, titler
    <3>3. CASE Hear
      <4>1. CASE log[heard + 1] = "clear"
        BY <2>1, <3>3, <4>1 DEF Hear, titler
      <4>2. CASE log[heard + 1] # "clear"
        <5>1. heard < Len(log) /\ AtOnce(log[heard + 1])
          BY <3>3, <4>2 DEF Hear
        <5>2. heard + 1 \in 1..Len(log) /\ log \in Seq(Hooks)
          BY <2>1, <5>1 DEF TypeOK
        <5>3. log[heard + 1] \in {"stop", "subagent_start"}
          BY <4>2, <5>2, ElementOfSeq DEF Hooks
        <5>4. Calm \/ Asks(log[heard + 1])
          BY <2>1, <5>1, <5>3, AtOnceParts
        <5> QED
          BY <2>1, <5>4 DEF Calm
      <4> QED
        BY <4>1, <4>2
    <3>4. CASE TimerFires
      <4> DEFINE s == [state EXCEPT !.timer = FALSE]
      <4>1. evaluate(s, "user_text") /\ s \in PanelState /\ s.lastEval = state.lastEval
        BY <2>1, <3>4 DEF TimerFires, TypeOK, PanelState
      <4> HIDE DEF s
      <4>2. Calm \/ Asks("user_text")
        BY <2>1, <4>1, EvaluateParts
      <4> QED
        BY <2>1, <4>2 DEF Calm
    <3>5. CASE \E k \in {"first", "again"} :
                 Kept(k) \/ Fails(k) \/ FailsForGood(k) \/ \E n \in Proposals : Proposed(k, n)
      <4>1. PICK k \in {"first", "again"} : calls' = [calls EXCEPT ![k] = @ - 1]
        BY <3>5 DEF Kept, Fails, FailsForGood, Proposed, Ends
      <4>2. calls \in [{"first", "again"} -> Nat]
        BY <2>1 DEF TypeOK
      <4> QED
        BY <2>1, <4>1, <4>2
    <3>6. CASE Retries
      BY <2>1, <3>6 DEF Retries
    <3>7. CASE CoolEnds \/ Age \/ ClientLoads
      BY <2>1, <3>7 DEF CoolEnds, Age, ClientLoads
    <3>8. CASE Bin \/ Unbin \/ TogglePref
      BY <2>1, <3>8 DEF Bin, Unbin, TogglePref, titler
    <3>9. CASE Rebuild \/ Restart
      BY <2>1, <3>9 DEF Rebuild, Restart
    <3>10. CASE \E h \in Hooks : WriteHook(h)
      BY <2>1, <3>10 DEF WriteHook, titler
    <3>11. CASE UNCHANGED vars
      BY <2>1, <3>11 DEF vars, titler
    <3> QED
      BY <1>1, <3>1, <3>2, <3>3, <3>4, <3>5, <3>6, <3>7, <3>8, <3>9, <3>10, <3>11 DEF Next
  <2>3. PICK reason : shouldFire(state, reason)
    BY <2>2 DEF Asks
  <2>4. PICK j \in DOMAIN state.lastEval :
           /\ turnCount > state.lastEval[j].turns
           /\ turnCount - state.lastEval[j].turns >= RecheckTurns \/ state.lastEval[j].aged
    BY <2>3 DEF shouldFire, hasCustomTitle
  <2>5. /\ asked[i].turns <= state.lastEval[j].turns
        /\ state.lastEval[j].aged => asked[i].aged
    BY <1>1, <2>4 DEF Inv, Spaced
  <2>6. /\ turnCount \in Nat /\ asked[i].turns \in Nat /\ state.lastEval[j].turns \in Nat
        /\ RecheckTurns \in Nat
    <3>1. asked \in Evals /\ state.lastEval \in Evals /\ MaxRecords \in Nat
      BY <2>1, BoundsAssumption DEF TypeOK, PanelState
    <3> QED
      BY <2>1, <2>4, <3>1, BaselineParts, EvalParts, TurnsAssumption
  <2> QED
    BY <2>4, <2>5, <2>6
<1> QED
  BY <1>1, TitleInvariant, PTL DEF Spec, RecheckIsSpaced
=============================================================================
