------------------------------ MODULE PanelTitle ------------------------------
(***************************************************************************)
(* What a session is called: the title of one parent panel, as the         *)
(* transcript names it (server/src/session.ts), as a /clear takes a name   *)
(* back (armClearTitleSuppression), and as the titler asks a model for one *)
(* (server/src/titler.ts).                                                 *)
(*                                                                         *)
(* Two files feed it, the transcript and the hook sidecar, each read in    *)
(* order and neither in step with the other.  A restart keeps the panel's  *)
(* row and reads both files again from the first line: all of the hooks    *)
(* first, then the transcript.  A rebuild forgets the row and reads the    *)
(* transcript alone.                                                       *)
(*                                                                         *)
(* The lag of the readers is left to TranscriptTail and HookTail: a record *)
(* is read as it is written, but for the hooks, that may come late.  A     *)
(* panel that is reaped or purged for good is left to PanelLifecycle, the  *)
(* eviction of its oldest events to long transcripts.                      *)
(***************************************************************************)
EXTENDS Integers, Sequences, FiniteSets

CONSTANTS
    Placeholder,    \* the short id a panel is born with
    Typed,          \* the first line of a prompt
    Old,            \* the name the user gave the session that was cleared
    OldAi,          \* the one Claude Code gave it before, the same or another
    Mine,           \* a name the user gives
    Proposals,      \* what the titler's model proposes, KEEP aside
    RecheckTurns,   \* RECHECK_AFTER_TURNS
    MaxRecords,     \* bound of the model: records of the transcript
    MaxHooks,       \* bound of the model: hook records
    MaxRestarts     \* bound of the model: restarts and rebuilds

ASSUME TurnsAssumption == RecheckTurns \in Nat \ {0}
ASSUME BoundsAssumption == {MaxRecords, MaxHooks, MaxRestarts} \subseteq Nat
\* Who gave a name is told from the name
ASSUME TitlesAssumption ==
    /\ Placeholder \notin {Typed, Old, OldAi, Mine} \cup Proposals
    /\ {Old, OldAi} \cap ({Typed, Mine} \cup Proposals) = {}
    /\ {"off", "any", "none"} \cap ({Placeholder, Typed, Old, OldAi, Mine} \cup Proposals) = {}

VARIABLES
    file,           \* the transcript
    read,           \* records of it read in this life
    log,            \* the session's hook records
    heard,          \* records of it read in this life
    boot,           \* how many of them the boot reads before the transcript
    panel,          \* the panel, as the server holds it
    pendingClear,   \* pendingClearTitleSuppression has the session
    pref,           \* display.autoTitle
    state,          \* the titler's PanelState, or NoState
    client,         \* the model's client: unbuilt, loading, ready
    disabled,       \* permanentlyDisabled
    calls,          \* requests on the way, by attempt
    asked,          \* the last request since then, for the properties
    late,           \* a proposal was applied to a renamed panel
    life            \* restarts and rebuilds so far

files == <<file, read, log, heard, boot>>
titler == <<state, client, calls, asked>>
vars == <<files, panel, pendingClear, pref, titler, disabled, late, life>>

Inherited == {Old, OldAi}
Titles == {Placeholder, Typed, Mine} \cup Inherited \cup Proposals
Records == [kind : {"prompt"}, name : {Typed}] \cup [kind : {"custom"}, name : {Old, Mine}]
           \cup [kind : {"ai"}, name : {OldAi}] \cup [kind : {"marker"}, name : Proposals]
Hooks == {"clear", "stop", "subagent_start"}
Panel == [there : BOOLEAN, title : Titles, renamed : BOOLEAN, ai : {"none", OldAi},
          supp : Titles \cup {"off", "any"}, binned : BOOLEAN]
Evals == {<<>>} \cup {<<e>> : e \in [turns : 0..MaxRecords, aged : BOOLEAN]}
PanelState == [exists : BOOLEAN, timer : BOOLEAN, cool : BOOLEAN, inflight : BOOLEAN, lastEval : Evals]
NoState == [exists |-> FALSE, timer |-> FALSE, cool |-> FALSE, inflight |-> FALSE, lastEval |-> <<>>]
Unborn == [there |-> FALSE, title |-> Placeholder, renamed |-> FALSE, ai |-> "none",
           supp |-> "off", binned |-> FALSE]

Prompts(n) == Cardinality({i \in 1..n : file[i].kind = "prompt"})
turnCount == Prompts(read)      \* the events of the panel are what this life has read

Init ==
    /\ file = <<>> /\ read = 0
    /\ log \in {<<>>, <<"clear">>} /\ heard = 0 /\ boot = 0
    /\ panel = Unborn /\ pendingClear = FALSE
    /\ pref = TRUE
    /\ state = NoState
    /\ client \in {"unbuilt", "ready"}      \* ready: the CLI's, built when it is needed
    /\ disabled = FALSE
    /\ calls = [first |-> 0, again |-> 0]
    /\ asked = <<>>
    /\ late = FALSE
    /\ life = 0

-----------------------------------------------------------------------------
(* Names out of the transcript *)

\* ensurePanel
Ensured(p) == IF p.there THEN p
              ELSE [p EXCEPT !.there = TRUE, !.supp = IF pendingClear THEN "any" ELSE "off"]

\* maybeUpdateTitle for a prompt: it ends the suppression and names the unnamed
PromptedSuppressed(p) ==                                               \* mutant
    IF p.title = Placeholder THEN [p EXCEPT !.title = Typed] ELSE p
Prompted(p) ==
    [p EXCEPT !.supp = "off", !.title = IF p.title = Placeholder THEN Typed ELSE p.title]

\* maybeUpdateTitle for a custom-title: the first one under suppression is
\* remembered, its repeats are dropped, another is the user's /rename
Renamed(p, n) ==
    IF p.supp = "any" THEN [p EXCEPT !.supp = n]
    ELSE IF p.supp = n THEN p
    ELSE [p EXCEPT !.supp = "off", !.title = n, !.renamed = TRUE]

\* maybeProposeAutoTitle for an ai-title
AiNamed(p, n) ==
    IF p.renamed \/ p.supp # "off" \/ p.ai = n THEN p ELSE [p EXCEPT !.ai = n, !.title = n]

Applied(p, r) ==
    CASE r.kind = "prompt" -> Prompted(p)
      [] r.kind = "custom" -> Renamed(p, r.name)
      [] r.kind = "ai"     -> AiNamed(p, r.name)
      [] r.kind = "marker" -> [p EXCEPT !.title = r.name]

ClearedForwards(p) == [p EXCEPT !.supp = "any"]                       \* mutant
\* armClearTitleSuppression: a name that came before the hook is taken back
Cleared(p) ==
    IF p.title = Placeholder THEN [p EXCEPT !.supp = "any"]
    ELSE [p EXCEPT !.supp = p.title, !.title = Placeholder]

-----------------------------------------------------------------------------
(* The titler *)

hasCustomTitle == panel.title # Placeholder
Baseline == <<[turns |-> turnCount, aged |-> FALSE]>>

shouldFire(s, reason) ==
    /\ ~panel.renamed
    /\ IF hasCustomTitle
       THEN \E i \in DOMAIN s.lastEval :
                /\ turnCount > s.lastEval[i].turns
                /\ turnCount - s.lastEval[i].turns >= RecheckTurns \/ s.lastEval[i].aged
       ELSE turnCount >= IF reason = "subagent_start" THEN 1 ELSE 2

\* evaluate with the panel's state as scheduling left it
Seed(s) ==
    /\ state' = [s EXCEPT !.lastEval = Baseline]
    /\ UNCHANGED <<client, calls, asked>>

AskForgetfully(s) ==                                                   \* mutant
    /\ state' = [s EXCEPT !.inflight = TRUE]
    /\ calls' = [calls EXCEPT !.first = @ + 1]
    /\ asked' = Baseline
    /\ UNCHANGED client

Ask(s) ==
    /\ state' = [s EXCEPT !.inflight = TRUE, !.lastEval = Baseline]
    /\ calls' = [calls EXCEPT !.first = @ + 1]
    /\ asked' = Baseline
    /\ UNCHANGED client

evaluate(s, reason) ==
    LET able == ~disabled /\ ~s.inflight /\ panel.there /\ ~panel.binned /\ pref
        fresh == s.lastEval = <<>> /\ hasCustomTitle
        fires == able /\ ~fresh /\ shouldFire(s, reason)
    IN  \/ able /\ fresh /\ Seed(s)
        \/ fires /\ client = "ready" /\ Ask(s)
        \/ /\ fires /\ client # "ready"         \* the SDK is imported; this call is skipped
           /\ client' = "loading" /\ state' = s /\ UNCHANGED <<calls, asked>>
        \/ ~(able /\ fresh) /\ ~fires /\ state' = s /\ UNCHANGED <<client, calls, asked>>

\* scheduleEvaluation, for the debounced reasons and for the immediate ones
ensureState == [state EXCEPT !.exists = TRUE]

DebounceCancelling ==                                                  \* mutant
    /\ state' = IF disabled \/ ~pref THEN state ELSE [ensureState EXCEPT !.timer = ~state.cool]
    /\ UNCHANGED <<client, calls, asked>>

Debounce ==
    /\ state' = IF disabled \/ ~pref THEN state ELSE [ensureState EXCEPT !.timer = @ \/ ~state.cool]
    /\ UNCHANGED <<client, calls, asked>>

AtOnce(reason) ==
    IF disabled \/ ~pref THEN UNCHANGED titler
    ELSE IF state.cool THEN state' = ensureState /\ UNCHANGED <<client, calls, asked>>
    ELSE evaluate([ensureState EXCEPT !.timer = FALSE], reason)

TimerFires ==
    /\ state.timer
    /\ evaluate([state EXCEPT !.timer = FALSE], "user_text")
    /\ UNCHANGED <<files, panel, pendingClear, pref, disabled, late, life>>

\* A request ends: what evaluate does after its await, whatever state there is now
Ends(k, s) ==
    /\ calls[k] > 0
    /\ calls' = [calls EXCEPT ![k] = @ - 1]
    /\ state' = [s EXCEPT !.inflight = FALSE]
    /\ UNCHANGED <<files, pendingClear, pref, client, asked, life>>

Proposed(k, n) ==
    /\ Ends(k, state)
    /\ panel' = IF panel.there THEN [panel EXCEPT !.title = n] ELSE panel
    /\ late' = (late \/ panel.renamed)
    /\ UNCHANGED disabled

Kept(k) == Ends(k, state) /\ UNCHANGED <<panel, disabled, late>>

\* 429, 5xx and the rest: two minutes of backoff
Fails(k) == Ends(k, [state EXCEPT !.cool = state.exists]) /\ UNCHANGED <<panel, disabled, late>>

\* 401, or no claude binary
FailsForGood(k) == Ends(k, state) /\ disabled' = TRUE /\ UNCHANGED <<panel, late>>

\* A network error is tried once more
Retries ==
    /\ calls.first > 0
    /\ calls' = [first |-> calls.first - 1, again |-> calls.again + 1]
    /\ UNCHANGED <<files, panel, pendingClear, pref, state, client, disabled, asked, late, life>>

\* Time passes: the backoff, RECHECK_AFTER_MS, the import of the SDK
CoolEnds ==
    /\ state.cool
    /\ state' = [state EXCEPT !.cool = FALSE]
    /\ UNCHANGED <<files, panel, pendingClear, pref, client, calls, asked, disabled, late, life>>

Aged(e) == [i \in DOMAIN e |-> [e[i] EXCEPT !.aged = TRUE]]
Age ==
    /\ Aged(state.lastEval) # state.lastEval
    /\ state' = [state EXCEPT !.lastEval = Aged(state.lastEval)]
    /\ asked' = Aged(asked)
    /\ UNCHANGED <<files, panel, pendingClear, pref, client, calls, disabled, late, life>>

ClientLoads ==
    /\ client = "loading"
    /\ client' = "ready"
    /\ UNCHANGED <<files, panel, pendingClear, pref, state, calls, asked, disabled, late, life>>

-----------------------------------------------------------------------------
(* The files, and the rest of the server *)

\* ingest: the record is applied, then the titler told
Take(r) ==
    /\ panel' = Applied(Ensured(panel), r)
    /\ pendingClear' = (pendingClear /\ panel.there)
    /\ IF r.kind \in {"prompt", "marker"} THEN Debounce ELSE UNCHANGED titler
    /\ UNCHANGED <<log, heard, boot, pref, disabled, late, life>>

\* Claude Code repeats an inherited name at once or whenever it likes; the user
\* types when the hooks are heard, and renames what is theirs
Write(r) ==
    /\ read = Len(file) /\ heard >= boot
    /\ Len(file) < MaxRecords
    /\ r.name \notin Inherited => heard = Len(log)
    /\ r.kind = "custom" /\ r.name = Mine => Prompts(Len(file)) > 0
    /\ file' = Append(file, r)
    /\ read' = read + 1
    /\ Take(r)

\* After a restart, when the hooks are heard
Reread ==
    /\ read < Len(file) /\ heard >= boot
    /\ read' = read + 1
    /\ Take(file[read + 1])
    /\ UNCHANGED file

WriteHook(h) ==
    /\ Len(log) < MaxHooks
    /\ h # "clear"
    /\ log' = Append(log, h)
    /\ UNCHANGED <<file, read, heard, boot, panel, pendingClear, pref, titler, disabled, late, life>>

\* applyHookEvent, for the live record as for the replayed one
Hear ==
    /\ heard < Len(log)
    /\ heard' = heard + 1
    /\ IF log[heard + 1] = "clear"
       THEN /\ panel' = IF panel.there THEN Cleared(panel) ELSE panel
            /\ pendingClear' = (pendingClear \/ ~panel.there)
            /\ UNCHANGED titler
       ELSE AtOnce(log[heard + 1]) /\ UNCHANGED <<panel, pendingClear>>
    /\ UNCHANGED <<file, read, log, boot, pref, disabled, late, life>>

\* The user's bin tells the clients; the titler, not told, keeps its state
Bin ==
    /\ panel.there /\ ~panel.binned
    /\ panel' = [panel EXCEPT !.binned = TRUE]
    /\ UNCHANGED <<files, pendingClear, pref, titler, disabled, late, life>>

Unbin ==
    /\ panel.binned
    /\ panel' = [panel EXCEPT !.binned = FALSE]
    /\ UNCHANGED <<files, pendingClear, pref, titler, disabled, late, life>>

TogglePref ==
    /\ pref' = ~pref
    /\ UNCHANGED <<files, panel, pendingClear, titler, disabled, late, life>>

\* rebuildPanel: its panel_remove disposes of the titler's state, a request on
\* its way or not, and the hooks are not heard again
Rebuild ==
    /\ panel.there
    /\ life < MaxRestarts
    /\ life' = life + 1
    /\ read' = 0
    /\ panel' = Unborn
    /\ state' = NoState
    /\ asked' = <<>>
    /\ UNCHANGED <<file, log, heard, boot, pendingClear, pref, client, calls, disabled, late>>

\* The row keeps the title, the rename and the ai-title; offsets are wiped
Restart ==
    /\ life < MaxRestarts
    /\ life' = life + 1
    /\ read' = 0 /\ heard' = 0 /\ boot' = Len(log)
    /\ panel' = [panel EXCEPT !.supp = "off"]
    /\ pendingClear' = FALSE
    /\ state' = NoState
    /\ client' \in {"unbuilt", "ready"}
    /\ disabled' = FALSE
    /\ calls' = [first |-> 0, again |-> 0]
    /\ asked' = <<>>
    /\ UNCHANGED <<file, log, pref, late>>

Next ==
    \/ \E r \in Records : Write(r)
    \/ \E h \in Hooks : WriteHook(h)
    \/ Reread \/ Hear \/ TimerFires
    \/ \E k \in {"first", "again"} :
        Kept(k) \/ Fails(k) \/ FailsForGood(k) \/ \E n \in Proposals : Proposed(k, n)
    \/ Retries \/ CoolEnds \/ Age \/ ClientLoads
    \/ Bin \/ Unbin \/ TogglePref \/ Rebuild \/ Restart

Spec == Init /\ [][Next]_vars

\* Timers fire
FairSpec == Spec /\ WF_vars(TimerFires)

-----------------------------------------------------------------------------
(* Correctness *)

\* The variables hold what the server can hold.
TypeOK ==
    /\ file \in Seq(Records) /\ read \in 0..Len(file)
    /\ log \in Seq(Hooks) /\ heard \in 0..Len(log) /\ boot \in 0..Len(log)
    /\ panel \in Panel /\ pendingClear \in BOOLEAN /\ pref \in BOOLEAN
    /\ state \in PanelState /\ client \in {"unbuilt", "loading", "ready"}
    /\ disabled \in BOOLEAN /\ calls \in [{"first", "again"} -> Nat]
    /\ asked \in Evals /\ late \in BOOLEAN /\ life \in 0..MaxRestarts

\* The last word on the title, once all is read: a custom-title after the first
\* prompt stands, whatever restarts and replayed hooks did to it in between,
\* unless a proposal overtook the rename (maybeUpdateTitle "always wins").
Namings(from) == {i \in from..Len(file) : file[i].kind \in {"custom", "marker"}}
RenameSurvives ==
    \A i \in DOMAIN file :
        (/\ read = Len(file) /\ heard = Len(log) /\ ~late
         /\ Prompts(i) > 0 /\ file[i].kind = "custom" /\ Namings(i) = {i})
        => panel.title = file[i].name /\ panel.renamed

\* A titled panel is asked about again only RecheckTurns prompts after the last
\* time, or when that is RECHECK_AFTER_MS ago and there is a new prompt, however
\* requests fail, the panel is binned and restored, or titles change, until the
\* server or the panel begins anew (titler.ts "Eligibility").
RecheckIsSpaced ==
    [][\A i \in DOMAIN asked :
        (calls'.first > calls.first /\ panel.title # Placeholder)
        => /\ turnCount > asked[i].turns
           /\ turnCount - asked[i].turns >= RecheckTurns \/ asked[i].aged]_vars

\* A recheck that is due when a timer runs is made: no burst of text, failure or
\* backoff in between loses the timer, unless titling becomes impossible.  Who
\* named the panel does not matter: titler.ts rechecks what Claude Code named,
\* though docs/assertions.md says it never does.
Able == pref /\ ~disabled /\ client = "ready" /\ panel.there /\ ~panel.binned
Due == hasCustomTitle /\ state.lastEval # <<>> /\ shouldFire(state, "user_text")
DueRecheckIsMade ==
    (state.timer /\ Due /\ Able /\ ~state.inflight) ~> (state.inflight \/ ~Due \/ ~Able)

\* The names of the cleared session stay out of the new one: as long as they are
\* only repeated before the first prompt, the panel has neither once the hook is
\* heard, whichever comes first (docs/assertions.md, /clear suppression), but for
\* one order: the ai-title before the hook and another custom-title after it,
\* which passes for the user's /rename.  Also it does after a restart or a
\* rebuild: see the README.
InheritedNameStaysOut ==
    (/\ life = 0
     /\ "clear" \in {log[i] : i \in 1..heard}
     /\ \A i \in DOMAIN file : file[i].name \in Inherited => Prompts(i) = 0)
    => /\ panel.title # OldAi
       /\ panel.title = Old => panel.ai = OldAi /\ OldAi # Old
=============================================================================
