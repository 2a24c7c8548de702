--------------------------- MODULE DiagnosticProofs ---------------------------
(***************************************************************************)
(* Types, the content of the verdict cache, silence for closed documents,  *)
(* the end of stale notices and the text whose problems are shown, proved  *)
(* for any workspace and any bounds.  The first three hold for any set of  *)
(* faults; notices need that nothing is saved, the shown text a worker     *)
(* that is faster than the debounce, texts that can be indexed and no      *)
(* saves, mode switches and watched files, each of which breaks it.        *)
(* The layout follows the model: a lemma for each method of the manager,   *)
(* about any manager record, and a step for each handler.                  *)
(***************************************************************************)
EXTENDS DiagnosticManager, SequenceTheorems, TLAPS

Managers ==
  [state : [Docs -> States], staleTimers : SUBSET StaleTimers, runs : Seq(Runs),
   cache : [Docs -> Entries], shown : [Docs -> Shown]]

\* Cached verdicts are filed under their text, and so will be those on the way.
Filed(m) ==
  /\ \A u \in Docs : m.cache[u].text # NoText => m.cache[u].verdict.world[u] = m.cache[u].text
  /\ \A k \in DOMAIN m.runs : m.runs[k].world[m.runs[k].uri] = m.runs[k].text

\* The documents outside S are not shown any problem.
Clean(m, S) == ~disposed => \A u \in Docs \ S : m.shown[u] = Nothing

\* What every method preserves, called while the documents of S are open.
Good(m, S) == m \in Managers /\ Filed(m) /\ Clean(m, S)

IInv == EnvOK /\ Good(Here, open)

-------------------------------------------------------------------------------
(* Types of the values that methods store. *)

LEMMA NothingTyped == NoVerdict \in Verdicts /\ Nothing \in Shown /\ NoEntry \in Entries
  BY DEF NoVerdict, NoWorld, Verdicts, Contents, Nothing, Shown, NoEntry, Entries

LEMMA NoStateTyped == NoState \in States
  BY NothingTyped, DiagnosticAssumption DEF NoState, States, NoRun

LEMMA GetOrCreateTyped == ASSUME NEW st \in States PROVE GetOrCreate(st) \in States
  BY NoStateTyped DEF GetOrCreate, States

\* Each field of a document's state can be set on its own.
LEMMA StateSetTyped ==
  ASSUME NEW st \in States
  PROVE  /\ \A b \in BOOLEAN : [st EXCEPT !.timer = b] \in States
         /\ \A b \in BOOLEAN : [st EXCEPT !.inFlight = b] \in States
         /\ \A v \in 0..MaxVersion : [st EXCEPT !.version = v] \in States
         /\ \A i \in RunIds \cup {NoRun} : [st EXCEPT !.staleTimer = i] \in States
         /\ \A what \in Shown : [st EXCEPT !.lastDiagnostics = what] \in States
         /\ \A C \in SUBSET Docs : [st EXCEPT !.propagationChain = C] \in States
  BY DEF States

LEMMA LiveVersionTyped ==
  ASSUME EnvOK, NEW u \in Docs
  PROVE  session[u] \in Sessions /\ LiveVersion(u) \in 0..MaxVersion /\ text[u] \in Contents
  BY DEF EnvOK, LiveVersion

LEMMA WorldTyped ==
  ASSUME EnvOK, NEW u \in Docs
  PROVE  World(u) \in [Docs -> Contents] /\ World(u)[u] = text[u]
  <1>1. \A d \in Docs : text[d] \in Contents /\ NoText \in Contents
    BY DEF EnvOK, Contents
  <1> QED BY <1>1 DEF World

-------------------------------------------------------------------------------
(* Methods. *)

\* A publication concerns only an open document.
LEMMA PublishGood ==
  ASSUME NEW m, Good(m, open), NEW u \in Docs, NEW s, NEW what \in Shown
  PROVE  LET r == Publish(m, u, s, what) IN
         Good(r, open) /\ r.runs = m.runs /\ (disposed => r.shown = m.shown)
  <1> DEFINE st == m.state[u]
             nst == [st EXCEPT !.lastDiagnostics = IF st.exists THEN what ELSE @]
             r == [m EXCEPT !.shown[u] = what, !.state[u] = nst]
  <1>1. m \in Managers BY DEF Good
  <1>2. st \in States BY <1>1 DEF Managers
  <1>2a. nst \in States
    <2>1. CASE st.exists BY <1>2, <2>1, StateSetTyped
    <2>2. CASE ~st.exists
      <3>1. nst = st BY <1>2, <2>2 DEF States
      <3> QED BY <1>2, <3>1
    <2> QED BY <2>1, <2>2
  <1>3. CASE ~MayPublish(u, s) BY <1>3 DEF Publish
  <1>4. CASE MayPublish(u, s)
    <2>. ~disposed BY <1>4 DEF MayPublish
    <2>1. Publish(m, u, s, what) = r
      BY <1>1, <1>4 DEF Publish, Managers
    <2>2. r \in Managers /\ r.runs = m.runs /\ r.cache = m.cache
            /\ r.shown = [m.shown EXCEPT ![u] = what]
      BY <1>1, <1>2a DEF Managers
    <2>3. u \in open BY <1>4 DEF MayPublish
    <2>4. Filed(r) BY <2>2 DEF Filed, Good
    <2>5. Clean(r, open) BY <1>1, <2>2, <2>3 DEF Clean, Good, Managers
    <2> QED BY <2>1, <2>2, <2>4, <2>5 DEF Good
  <1> QED BY <1>3, <1>4

LEMMA ClearDebounceGood ==
  ASSUME NEW S, NEW m, Good(m, S), NEW u \in Docs
  PROVE  LET r == ClearDebounce(m, u) IN
         Good(r, S) /\ r.runs = m.runs /\ r.shown = m.shown /\ FreshRun(r) = FreshRun(m)
  <1> DEFINE nst == [m.state[u] EXCEPT !.timer = FALSE]
             r == [m EXCEPT !.state[u] = nst]
  <1>1. m \in Managers BY DEF Good
  <1>2. nst \in States
    <2>1. m.state[u] \in States /\ FALSE \in BOOLEAN /\ NoRun \in RunIds \cup {NoRun}
      BY <1>1 DEF Managers
    <2> QED BY <2>1, StateSetTyped
  <1>3. ClearDebounce(m, u) = r BY <1>1 DEF ClearDebounce, Managers
  <1>4. r \in Managers /\ r.runs = m.runs /\ r.cache = m.cache /\ r.shown = m.shown
    BY <1>1, <1>2 DEF Managers
  <1>5. FreshRun(r) = FreshRun(m)
    <2>1. r.staleTimers = m.staleTimers BY <1>1 DEF Managers
    <2>2. \A d \in Docs : r.state[d].staleTimer = m.state[d].staleTimer
      BY <1>1 DEF Managers, States
    <2> QED BY <1>4, <2>1, <2>2 DEF FreshRun
  <1> QED BY <1>3, <1>4, <1>5 DEF Good, Filed, Clean

LEMMA ClearStaleGood ==
  ASSUME NEW S, NEW m, Good(m, S), NEW r \in Runs
  PROVE  LET n == ClearStale(m, r) IN
         Good(n, S) /\ n.runs = m.runs /\ n.shown = m.shown /\ n.cache = m.cache
  <1> DEFINE u == r.uri
             nst == [m.state[u] EXCEPT !.staleTimer = NoRun]
             T == {t \in m.staleTimers : t.run # m.state[u].staleTimer}
             n == [m EXCEPT !.state[u] = nst, !.staleTimers = T]
  <1>1. m \in Managers /\ u \in Docs BY DEF Good, Runs
  <1>2. nst \in States
    <2>1. m.state[u] \in States /\ FALSE \in BOOLEAN /\ NoRun \in RunIds \cup {NoRun}
      BY <1>1 DEF Managers
    <2> QED BY <2>1, StateSetTyped
  <1>3. CASE r.orphan BY <1>3 DEF ClearStale
  <1>4. CASE ~r.orphan
    <2>1. ClearStale(m, r) = n BY <1>1, <1>4 DEF ClearStale, Managers
    <2>2. n \in Managers /\ n.runs = m.runs /\ n.cache = m.cache /\ n.shown = m.shown
      BY <1>1, <1>2 DEF Managers
    <2> QED BY <2>1, <2>2 DEF Good, Filed, Clean
  <1> QED BY <1>3, <1>4

\* Dropping states touches neither what is shown nor what is cached.
LEMMA DropStatesGood ==
  ASSUME NEW Live, NEW m, Good(m, Live), NEW S \in SUBSET Docs
  PROVE  LET n == DropStates(m, S) IN
         Good(n, Live) /\ n.shown = m.shown /\ n.cache = m.cache
  <1> DEFINE St == [d \in Docs |-> IF d \in S THEN NoState ELSE m.state[d]]
             Armed == {t \in m.staleTimers : \A d \in S : t.run # m.state[d].staleTimer}
             Timer(t) == IF t.uri \in S /\ ~t.orphan
                         THEN [t EXCEPT !.orphan = TRUE, !.last = m.state[t.uri].lastDiagnostics]
                         ELSE t
             T == {Timer(t) : t \in Armed}
             Run(k) == IF m.runs[k].uri \in S THEN [m.runs[k] EXCEPT !.orphan = TRUE]
                       ELSE m.runs[k]
             R == [k \in DOMAIN m.runs |-> Run(k)]
             n == [m EXCEPT !.state = St, !.staleTimers = T, !.runs = R]
  <1>1. m \in Managers BY DEF Good
  <1>2. DropStates(m, S) = n BY <1>1 DEF DropStates, Managers
  <1>3. St \in [Docs -> States] BY <1>1, NoStateTyped DEF Managers
  <1>4. T \in SUBSET StaleTimers
    <2> SUFFICES ASSUME NEW t \in Armed PROVE Timer(t) \in StaleTimers
      OBVIOUS
    <2>1. t \in StaleTimers BY <1>1 DEF Managers
    <2>2. t.uri \in Docs /\ m.state[t.uri] \in States BY <1>1, <2>1 DEF Managers, StaleTimers
    <2>3. m.state[t.uri].lastDiagnostics \in Shown BY <2>2 DEF States
    <2> QED BY <2>1, <2>3 DEF StaleTimers
  <1>5. \A k \in DOMAIN m.runs :
          /\ Run(k) \in Runs /\ Run(k).uri = m.runs[k].uri
          /\ Run(k).text = m.runs[k].text /\ Run(k).world = m.runs[k].world
    <2> SUFFICES ASSUME NEW k \in DOMAIN m.runs
                 PROVE  /\ Run(k) \in Runs /\ Run(k).uri = m.runs[k].uri
                        /\ Run(k).text = m.runs[k].text /\ Run(k).world = m.runs[k].world
      OBVIOUS
    <2>1. m.runs \in Seq(Runs) BY <1>1 DEF Managers
    <2>2. m.runs[k] \in Runs BY <2>1
    <2> QED BY <2>2 DEF Runs
  <1>6. R \in Seq(Runs) /\ DOMAIN R = DOMAIN m.runs
    <2>1. m.runs \in Seq(Runs) BY <1>1 DEF Managers
    <2>2. DOMAIN m.runs = 1..Len(m.runs) /\ Len(m.runs) \in Nat BY <2>1
    <2>3. R \in [1..Len(m.runs) -> Runs] BY <1>5, <2>2
    <2> QED BY <2>2, <2>3, SeqDef
  <1>7. n \in Managers /\ n.shown = m.shown /\ n.cache = m.cache /\ n.runs = R
    BY <1>1, <1>3, <1>4, <1>6 DEF Managers
  <1>8. Filed(n) BY <1>5, <1>6, <1>7 DEF Good, Filed
  <1>9. Clean(n, Live) BY <1>7 DEF Good, Clean
  <1> QED BY <1>2, <1>7, <1>8, <1>9 DEF Good

LEMMA ScheduleTyped ==
  ASSUME EnvOK, NEW m \in Managers, NEW u \in Docs, NEW C \in SUBSET Docs
  PROVE  LET n == Schedule(m, u, C) IN
         /\ n \in Managers /\ n.runs = m.runs /\ n.cache = m.cache /\ n.shown = m.shown
         /\ n.state[u] \in States
  <1> DEFINE st == GetOrCreate(m.state[u])
             nst == [st EXCEPT !.timer = TRUE, !.version = LiveVersion(u),
                               !.propagationChain = C]
             n == [m EXCEPT !.state[u] = nst]
  <1>1. st \in States BY GetOrCreateTyped DEF Managers
  <1>2. nst \in States BY <1>1, LiveVersionTyped DEF States
  <1>3. Schedule(m, u, C) = n BY DEF Schedule, Managers
  <1>4. n \in Managers /\ n.runs = m.runs /\ n.cache = m.cache /\ n.shown = m.shown
          /\ n.state[u] = nst
    BY <1>2 DEF Managers
  <1> QED BY <1>2, <1>3, <1>4

LEMMA ScheduleGood ==
  ASSUME EnvOK, NEW S, NEW m, Good(m, S), NEW u \in Docs, NEW C \in SUBSET Docs
  PROVE  LET n == Schedule(m, u, C) IN Good(n, S) /\ n.shown = m.shown
  BY ScheduleTyped DEF Good, Filed, Clean

\* A change is shown for an open document only, before the manager is disposed.
LEMMA OnDidChangeGood ==
  ASSUME EnvOK, NEW m, Good(m, open), NEW u \in Docs
  PROVE  LET n == OnDidChange(m, u) IN
         Good(n, open) /\ n.runs = m.runs /\ n.cache = m.cache
           /\ (disposed => n.shown = m.shown)
  <1> DEFINE what == [parse |-> text[u], pike |-> m.cache[u].verdict, notice |-> "none"]
             p == [m EXCEPT !.shown[u] = what]
  <1>1. m \in Managers BY DEF Good
  <1>2. CASE disposed \/ u \notin open BY <1>2 DEF OnDidChange
  <1>3. CASE ~disposed /\ u \in open
    <2>1. m.cache[u] \in Entries BY <1>1 DEF Managers
    <2>2. what \in Shown BY <2>1, LiveVersionTyped DEF Shown, Entries
    <2>3. p \in Managers /\ p.runs = m.runs /\ p.cache = m.cache
            /\ p.shown = [m.shown EXCEPT ![u] = what]
      BY <1>1, <2>2 DEF Managers
    <2>4. Filed(p) BY <2>3 DEF Good, Filed
    <2>5. Clean(p, open) BY <1>1, <1>3, <2>3 DEF Good, Clean, Managers
    <2>6. Good(p, open) BY <2>3, <2>4, <2>5 DEF Good
    <2>7. Good(Schedule(p, u, {}), open)
      BY <2>6, ScheduleGood
    <2>8. Schedule(p, u, {}).runs = m.runs /\ Schedule(p, u, {}).cache = m.cache
      BY <2>3, ScheduleTyped
    <2>9. OnDidChange(m, u) = IF mode = "realtime" THEN Schedule(p, u, {}) ELSE p
      BY <1>3 DEF OnDidChange
    <2> QED BY <1>3, <2>3, <2>6, <2>7, <2>8, <2>9
  <1> QED BY <1>2, <1>3 DEF EnvOK

\* Closing forgets the document's state and clears what is shown for it.
LEMMA OnDidCloseGood ==
  ASSUME EnvOK, NEW Live, NEW m, Good(m, Live), NEW u \in Docs
  PROVE  LET n == OnDidClose(m, u) IN
         Good(n, Live \ {u}) /\ Good(n, Live) /\ (disposed => n.shown = m.shown)
  <1> DEFINE d == DropStates(m, {u})
             n == [d EXCEPT !.shown[u] = Nothing]
  <1>1. CASE disposed
    <2>1. OnDidClose(m, u) = m BY <1>1 DEF OnDidClose
    <2> QED BY <1>1, <2>1 DEF Good, Clean
  <1>2. CASE ~disposed
    <2>1. Good(d, Live) BY DropStatesGood
    <2>2. d \in Managers BY <2>1 DEF Good
    <2>3. n \in Managers /\ n.runs = d.runs /\ n.cache = d.cache
            /\ n.shown = [d.shown EXCEPT ![u] = Nothing]
      BY <2>2, NothingTyped DEF Managers
    <2>4. Filed(n) BY <2>1, <2>3 DEF Good, Filed
    <2>5. Clean(n, Live \ {u}) /\ Clean(n, Live)
      BY <2>1, <2>2, <2>3 DEF Good, Clean, Managers
    <2>6. OnDidClose(m, u) = n BY <1>2 DEF OnDidClose
    <2> QED BY <1>2, <2>3, <2>4, <2>5, <2>6 DEF Good
  <1> QED BY <1>1, <1>2 DEF EnvOK

\* A run is recorded with the contents it asks about, the document's own included.
LEMMA RunDiagnoseGood ==
  ASSUME EnvOK, NEW m, Good(m, open), NEW u \in Docs, FreshRun(m) # {}
  PROVE  LET n == RunDiagnose(m, u) IN Good(n, open) /\ (disposed => n.shown = m.shown)
  <1> DEFINE s == session[u]
             id == CHOOSE i \in FreshRun(m) : TRUE
             cached == [parse |-> text[u], pike |-> m.cache[u].verdict, notice |-> "none"]
             unchecked == [parse |-> text[u], pike |-> NoVerdict, notice |-> "none"]
             nst == [GetOrCreate(m.state[u]) EXCEPT !.inFlight = TRUE, !.staleTimer = id,
                                                    !.lastDiagnostics = Nothing]
             timer == [run |-> id, uri |-> u, session |-> s, orphan |-> FALSE,
                       last |-> Nothing]
             run == [id |-> id, uri |-> u, session |-> s, text |-> text[u],
                     world |-> World(u), orphan |-> FALSE]
             n == [m EXCEPT !.state[u] = nst, !.staleTimers = @ \cup {timer},
                            !.runs = Append(@, run)]
  <1>1. m \in Managers /\ m.cache[u] \in Entries /\ m.state[u] \in States
    BY DEF Good, Managers
  <1>2. text[u] \in Contents /\ s \in Sessions BY LiveVersionTyped
  <1>3. cached \in Shown /\ unchecked \in Shown
    BY <1>1, <1>2, NothingTyped DEF Shown, Entries
  <1>4. id \in RunIds BY DEF FreshRun
  <1>5. n \in Managers /\ n.cache = m.cache /\ n.shown = m.shown
          /\ n.runs = Append(m.runs, run)
    <2>1. nst \in States
      BY <1>1, <1>4, GetOrCreateTyped, NothingTyped DEF States
    <2>2. timer \in StaleTimers BY <1>2, <1>4, NothingTyped DEF StaleTimers
    <2>3. run \in Runs BY <1>2, <1>4, WorldTyped DEF Runs
    <2>4. Append(m.runs, run) \in Seq(Runs) BY <1>1, <2>3 DEF Managers
    <2> QED BY <1>1, <2>1, <2>2, <2>4 DEF Managers
  <1>6. Good(n, open)
    <2>1. m.runs \in Seq(Runs) BY <1>1 DEF Managers
    <2>2. run.world[run.uri] = run.text BY WorldTyped
    <2>3. \A k \in DOMAIN n.runs :
            n.runs[k] = run \/ (k \in DOMAIN m.runs /\ n.runs[k] = m.runs[k])
      BY <1>5, <2>1
    <2>4. Filed(n) BY <1>5, <2>2, <2>3 DEF Good, Filed
    <2> QED BY <1>5, <2>4 DEF Good, Clean
  <1>7. CASE disposed \/ u \notin open BY <1>7 DEF RunDiagnose
  <1>8. CASE ~(disposed \/ u \notin open) /\ m.cache[u].text = text[u]
    <2>1. RunDiagnose(m, u) = Publish(m, u, s, cached) BY <1>8 DEF RunDiagnose
    <2> QED BY <1>3, <2>1, PublishGood
  <1>9. CASE ~(disposed \/ u \notin open) /\ m.cache[u].text # text[u] /\ text[u] \in RoxenTexts
    <2>1. RunDiagnose(m, u) = Publish(m, u, s, unchecked) BY <1>9 DEF RunDiagnose
    <2> QED BY <1>3, <2>1, PublishGood
  <1>10. CASE ~(disposed \/ u \notin open) /\ m.cache[u].text # text[u]
                /\ text[u] \notin RoxenTexts
    <2>1. RunDiagnose(m, u) = n BY <1>1, <1>10 DEF RunDiagnose, Managers
    <2> QED BY <1>5, <1>6, <2>1
  <1> QED BY <1>7, <1>8, <1>9, <1>10

\* Propagation evicts verdicts and schedules; it shows nothing.
LEMMA PropagateGood ==
  ASSUME EnvOK, NEW m, Good(m, open), NEW u \in Docs
  PROVE  LET n == PropagateToDependents(m, u) IN
         Good(n, open) /\ n.runs = m.runs /\ n.shown = m.shown
  <1> DEFINE chain == m.state[u].propagationChain \cup {u}
             S == (GetDependents(u) \cap open) \ chain
             C == [d \in Docs |-> IF d \in S THEN NoEntry ELSE m.cache[d]]
             St == [d \in Docs |-> IF d \in S THEN Schedule(m, d, chain).state[d]
                                   ELSE m.state[d]]
             n == [m EXCEPT !.cache = C, !.state = St]
  <1>1. m \in Managers BY DEF Good
  <1>2. chain \in SUBSET Docs
    <2>1. m.state[u] \in States BY <1>1 DEF Managers
    <2> QED BY <2>1 DEF States
  <1>3. PropagateToDependents(m, u) = n BY <1>1 DEF PropagateToDependents, Managers
  <1>4. St \in [Docs -> States]
    <2>1. \A d \in Docs : Schedule(m, d, chain).state[d] \in States
      BY <1>1, <1>2, ScheduleTyped
    <2> HIDE DEF chain
    <2> QED BY <1>1, <2>1 DEF Managers
  <1>5. C \in [Docs -> Entries] BY <1>1, NothingTyped DEF Managers
  <1> HIDE DEF C, St
  <1>6. n \in Managers /\ n.runs = m.runs /\ n.shown = m.shown /\ n.cache = C
    BY <1>1, <1>4, <1>5 DEF Managers
  <1>7. \A d \in Docs : C[d] = NoEntry \/ C[d] = m.cache[d] BY DEF C
  <1>8. Filed(n) BY <1>6, <1>7 DEF Good, Filed, NoEntry
  <1> QED BY <1>3, <1>6, <1>8 DEF Good, Clean

\* Where the i-th entry of a queue was before the k-th was taken out.
Was(i, k) == IF i < k THEN i ELSE i + 1

\* Taking an entry out leaves the others as they were, in their order.
LEMMA WithoutTyped ==
  ASSUME NEW R, NEW q \in Seq(R), NEW k \in 1..Len(q)
  PROVE  LET r == SubSeq(q, 1, k - 1) \o SubSeq(q, k + 1, Len(q)) IN
         /\ r \in Seq(R) /\ DOMAIN r = 1..Len(q) - 1
         /\ \A i \in DOMAIN r : Was(i, k) \in DOMAIN q /\ r[i] = q[Was(i, k)]
  <1> DEFINE a == SubSeq(q, 1, k - 1)
             b == SubSeq(q, k + 1, Len(q))
             r == a \o b
  <1>1. /\ a \in Seq(R) /\ Len(a) = k - 1
        /\ \A i \in 1..Len(a) : a[i] = q[i]
    BY SubSeqProperties
  <1>2. /\ b \in Seq(R) /\ Len(b) = Len(q) - k
        /\ \A i \in 1..Len(b) : b[i] = q[k + i]
    BY SubSeqProperties
  <1>3. /\ r \in Seq(R) /\ Len(r) = Len(a) + Len(b)
        /\ \A i \in 1..Len(r) : r[i] = IF i <= Len(a) THEN a[i] ELSE b[i - Len(a)]
    <2> HIDE DEF a, b
    <2>1. r \in Seq(R) BY <1>1, <1>2, ConcatProperties
    <2>2. Len(r) = Len(a) + Len(b) BY <1>1, <1>2, ConcatProperties
    <2>3. \A i \in 1..Len(a) + Len(b) : r[i] = IF i <= Len(a) THEN a[i] ELSE b[i - Len(a)]
      BY <1>1, <1>2, ConcatProperties
    <2> QED BY <2>1, <2>2, <2>3
  <1>4. Len(q) \in Nat /\ Len(r) = Len(q) - 1 /\ DOMAIN q = 1..Len(q)
    <2> HIDE DEF a, b, r
    <2> QED BY <1>1, <1>2, <1>3
  <1>5. \A i \in 1..Len(r) : Was(i, k) \in 1..Len(q) /\ r[i] = q[Was(i, k)]
    <2> SUFFICES ASSUME NEW i \in 1..Len(r)
                 PROVE  Was(i, k) \in 1..Len(q) /\ r[i] = q[Was(i, k)]
      OBVIOUS
    <2> HIDE DEF a, b, r
    <2>1. CASE i <= Len(a)
      <3>1. i \in 1..Len(a) /\ i \in 1..Len(q) /\ i < k BY <1>1, <2>1
      <3> QED BY <1>1, <1>3, <2>1, <3>1 DEF Was
    <2>2. CASE i > Len(a)
      <3>1. i - Len(a) \in 1..Len(b) /\ k + (i - Len(a)) = i + 1 /\ ~(i < k)
              /\ i + 1 \in 1..Len(q)
        BY <1>1, <1>2, <1>3, <1>4, <2>2
      <3>2. r[i] = q[i + 1] BY <1>1, <1>2, <1>3, <2>2, <3>1
      <3> QED BY <3>1, <3>2 DEF Was
    <2> QED BY <1>1, <2>1, <2>2
  <1>6. DOMAIN r = 1..Len(r)
    <2> HIDE DEF r
    <2> QED BY <1>3
  <1> QED BY <1>3, <1>4, <1>5, <1>6

LEMMA FinishGood ==
  ASSUME NEW S, NEW m, Good(m, S), NEW k \in DOMAIN m.runs
  PROVE  LET n == Finish(m, k) IN Good(n, S) /\ n.shown = m.shown
  <1> DEFINE r == m.runs[k]
             st == m.state[r.uri]
             nst == IF r.orphan THEN st
                    ELSE [st EXCEPT !.inFlight = FALSE, !.propagationChain = {}]
             R == SubSeq(m.runs, 1, k - 1) \o SubSeq(m.runs, k + 1, Len(m.runs))
             n == [m EXCEPT !.runs = R, !.state[r.uri] = nst]
  <1>1. m \in Managers /\ m.runs \in Seq(Runs) /\ k \in 1..Len(m.runs)
    BY DEF Good, Managers
  <1>2. r \in Runs /\ r.uri \in Docs
    <2>1. m.runs[k] \in Runs BY <1>1
    <2> QED BY <2>1 DEF Runs
  <1>3. st \in States BY <1>1, <1>2 DEF Managers
  <1>4. nst \in States BY <1>3 DEF States
  <1>5. R \in Seq(Runs) /\ \A i \in DOMAIN R : \E j \in DOMAIN m.runs : R[i] = m.runs[j]
    <2>1. /\ R \in Seq(Runs)
          /\ \A i \in DOMAIN R : Was(i, k) \in DOMAIN m.runs /\ R[i] = m.runs[Was(i, k)]
      BY <1>1, WithoutTyped
    <2> QED BY <2>1
  <1>6. Finish(m, k) = n BY <1>1 DEF Finish, Managers
  <1> HIDE DEF R, nst, r
  <1>7. n \in Managers /\ n.runs = R /\ n.shown = m.shown /\ n.cache = m.cache
    BY <1>1, <1>2, <1>4, <1>5 DEF Managers
  <1>8. Filed(n) BY <1>5, <1>7 DEF Good, Filed
  <1> QED BY <1>6, <1>7, <1>8 DEF Good, Clean

\* Refreshing importers is onDidChange for each of them, after an eviction.
LEMMA RefreshGood ==
  ASSUME EnvOK, NEW m, Good(m, open), NEW S \in SUBSET Docs
  PROVE  LET n == RefreshImporters(m, S) IN
         Good(n, open) /\ (disposed => n.shown = m.shown)
  <1> DEFINE C == [d \in Docs |-> IF d \in S THEN NoEntry ELSE m.cache[d]]
             c == [m EXCEPT !.cache = C]
             One(d) == IF d \in S THEN OnDidChange(c, d) ELSE c
             St == [d \in Docs |-> One(d).state[d]]
             Sh == [d \in Docs |-> One(d).shown[d]]
             n == [c EXCEPT !.state = St, !.shown = Sh]
  <1>1. m \in Managers BY DEF Good
  <1>2. C \in [Docs -> Entries] /\ \A d \in Docs : C[d] = NoEntry \/ C[d] = m.cache[d]
    BY <1>1, NothingTyped DEF Managers
  <1>3. RefreshImporters(m, S) = n BY <1>1 DEF RefreshImporters, Managers
  <1> HIDE DEF C
  <1>4. c \in Managers /\ c.runs = m.runs /\ c.shown = m.shown /\ c.cache = C
    BY <1>1, <1>2 DEF Managers
  <1>5. Good(c, open)
    <2>1. Filed(c) BY <1>2, <1>4 DEF Good, Filed, NoEntry
    <2> QED BY <1>4, <2>1 DEF Good, Clean
  <1> HIDE DEF c
  <1>6. \A d \in Docs : Good(One(d), open) /\ (disposed => One(d).shown = c.shown)
    BY <1>5, OnDidChangeGood
  <1>7. \A d \in Docs : One(d) \in Managers BY <1>6 DEF Good
  <1>8. \A d \in Docs : ~disposed /\ d \notin open => One(d).shown[d] = Nothing
    BY <1>6 DEF Good, Clean
  <1> HIDE DEF One
  <1>9. St \in [Docs -> States] /\ Sh \in [Docs -> Shown]
    <2> SUFFICES ASSUME NEW d \in Docs
                 PROVE  One(d).state[d] \in States /\ One(d).shown[d] \in Shown
      OBVIOUS
    <2> QED BY <1>7 DEF Managers
  <1>10. \A d \in Docs : Sh[d] = One(d).shown[d] OBVIOUS
  <1>11. disposed => Sh = m.shown
    <2> SUFFICES ASSUME disposed PROVE Sh = m.shown
      OBVIOUS
    <2>1. \A d \in Docs : Sh[d] = m.shown[d] BY <1>4, <1>6, <1>10
    <2>2. m.shown \in [Docs -> Shown] BY <1>1 DEF Managers
    <2> HIDE DEF Sh
    <2> QED BY <1>9, <2>1, <2>2
  <1> HIDE DEF St, Sh
  <1>12. n \in Managers /\ n.runs = c.runs /\ n.cache = c.cache /\ n.shown = Sh
    BY <1>4, <1>9 DEF Managers
  <1>13. Filed(n) BY <1>5, <1>12 DEF Good, Filed
  <1>14. Clean(n, open) BY <1>8, <1>10, <1>12 DEF Clean
  <1> QED BY <1>3, <1>11, <1>12, <1>13, <1>14 DEF Good

-------------------------------------------------------------------------------
(* Handlers. *)

\* What a handler owes: the invariant, and silence once the manager is disposed.
Step == IInv' /\ (disposed => shown' = shown)

LEMMA HereGood == ASSUME IInv PROVE EnvOK /\ Good(Here, open)
  BY DEF IInv

\* A handler whose methods end in a good record keeps the invariant.
LEMMA BecomeStep ==
  ASSUME IInv, EnvOK', NEW n, Good(n, open'), Become(n),
         disposed => n.shown = shown, disposed => disposed'
  PROVE  Step
  <1>1. n \in Managers /\ Filed(n) /\ Clean(n, open') BY DEF Good
  <1>2. /\ state' = n.state /\ staleTimers' = n.staleTimers /\ runs' = n.runs
        /\ cache' = n.cache /\ shown' = n.shown
    BY DEF Become
  <1>3. Here' \in Managers BY <1>1, <1>2 DEF Here, Managers
  <1>4. Filed(Here)'
    BY <1>1, <1>2 DEF Filed, Here
  <1>5. Clean(Here, open)'
    BY <1>1, <1>2 DEF Clean, Here, IInv, EnvOK
  <1> QED BY <1>2, <1>3, <1>4, <1>5 DEF Step, IInv, Good

\* A step of the editor or the index alone keeps it while no document closes.
LEMMA FrameStep ==
  ASSUME IInv, EnvOK', UNCHANGED <<manager, disposed>>, open \subseteq open'
  PROVE  Step
  <1>1. UNCHANGED <<state, staleTimers, runs, cache, shown>> BY DEF manager
  <1>2. Here' = Here BY <1>1 DEF Here
  <1>3. Good(Here, open)' BY <1>1, <1>2 DEF IInv, Good, Filed, Clean, Managers, Here
  <1> QED BY <1>1, <1>3 DEF Step, IInv

LEMMA EnvSame == ASSUME EnvOK, UNCHANGED env PROVE EnvOK'
  BY DEF EnvOK, env, editor, index

LEMMA InitInv == Init => IInv
  <1> SUFFICES ASSUME Init PROVE IInv
    OBVIOUS
  <1>1. EnvOK
    <2>1. session \in [Docs -> Sessions] /\ handlers \in [Docs -> Nat]
      BY DiagnosticAssumption DEF Init, Sessions
    <2>2. version \in [Docs -> [Sessions -> 0..MaxVersion]]
      <3>1. [s \in Sessions |-> 0] \in [Sessions -> 0..MaxVersion] BY DiagnosticAssumption
      <3> QED BY <3>1 DEF Init
    <2>3. text \in [Docs -> Contents] /\ entry \in [Docs -> {"none", "bare", "full"}]
      BY DEF Init, Contents
    <2>4. /\ open \subseteq Docs /\ queried \subseteq Docs /\ dependents \subseteq Imports
          /\ refreshing \in [Docs -> SUBSET Docs] /\ mode \in Modes /\ disposed \in BOOLEAN
      BY DEF Init, Modes
    <2> QED BY <2>1, <2>2, <2>3, <2>4 DEF EnvOK
  <1>2. Here \in Managers
    <2>1. runs \in Seq(Runs) BY DEF Init
    <2> QED BY <2>1, NothingTyped, NoStateTyped DEF Init, Here, Managers
  <1>3. Filed(Here) /\ Clean(Here, open)
    BY DEF Init, Here, Filed, Clean, NoEntry
  <1> QED BY <1>1, <1>2, <1>3 DEF IInv, Good

LEMMA OpenStep ==
  ASSUME IInv, NEW u \in Docs, NEW t \in Texts, Open(u, t)
  PROVE  Step
  <1>1. EnvOK BY HereGood
  <1>2. session[u] + 1 \in Sessions
    BY <1>1, DiagnosticAssumption DEF Open, EnvOK, Sessions
  <1>3. version' \in [Docs -> [Sessions -> 0..MaxVersion]]
    <2>1. version[u] \in [Sessions -> 0..MaxVersion] /\ 1 \in 0..MaxVersion
      BY <1>1, DiagnosticAssumption DEF EnvOK
    <2>2. [version[u] EXCEPT ![session[u] + 1] = 1] \in [Sessions -> 0..MaxVersion]
      BY <2>1
    <2>3. version' = [version EXCEPT ![u] = [version[u] EXCEPT ![session[u] + 1] = 1]]
      BY <1>1 DEF Open, EnvOK
    <2> QED BY <1>1, <2>2, <2>3 DEF EnvOK
  <1>4. session' \in [Docs -> Sessions] BY <1>1, <1>2 DEF Open, EnvOK
  <1>5. /\ text' \in [Docs -> Contents] /\ handlers' \in [Docs -> Nat]
        /\ entry' \in [Docs -> {"none", "bare", "full"}]
    BY <1>1 DEF Open, EnvOK, Contents
  <1>6. open' \subseteq Docs /\ dependents' \subseteq Imports BY <1>1 DEF Open, EnvOK
  <1>7. EnvOK'
    <2>1. UNCHANGED <<queried, refreshing, mode, disposed>> BY DEF Open
    <2> QED BY <1>1, <1>3, <1>4, <1>5, <1>6, <2>1 DEF EnvOK
  <1> QED BY <1>7, FrameStep DEF Open

LEMMA EditStep ==
  ASSUME IInv, NEW u \in Docs, NEW t \in Texts, Edit(u, t)
  PROVE  Step
  <1>1. EnvOK BY HereGood
  <1>2. session[u] \in Sessions /\ version[u][session[u]] + 1 \in 0..MaxVersion
    BY <1>1, DiagnosticAssumption DEF Edit, EnvOK, LiveVersion
  <1>3. version' \in [Docs -> [Sessions -> 0..MaxVersion]]
    <2> DEFINE next == version[u][session[u]] + 1
    <2>1. version[u] \in [Sessions -> 0..MaxVersion] BY <1>1 DEF EnvOK
    <2>2. [version[u] EXCEPT ![session[u]] = next] \in [Sessions -> 0..MaxVersion]
      <3>1. next \in 0..MaxVersion BY <1>2
      <3> HIDE DEF next
      <3> QED BY <2>1, <3>1
    <2>3. version' = [version EXCEPT ![u] = [version[u] EXCEPT ![session[u]] = next]]
      BY <1>1, <1>2, <2>1 DEF Edit, EnvOK
    <2> QED BY <1>1, <2>2, <2>3 DEF EnvOK
  <1>4. text' \in [Docs -> Contents] /\ handlers' \in [Docs -> Nat]
    BY <1>1 DEF Edit, EnvOK, Contents
  <1>5. EnvOK'
    BY <1>1, <1>3, <1>4 DEF Edit, EnvOK, UpsertBegins
  <1> QED BY <1>5, FrameStep DEF Edit

\* The index's edges are always among the imports.
LEMMA EdgesTyped == ASSUME NEW u PROVE Edges(u) \subseteq Imports
  BY DEF Edges

LEMMA ContentHandledStep ==
  ASSUME IInv, NEW u \in Docs, ContentHandled(u)
  PROVE  Step
  <1>1. EnvOK /\ Good(Here, open) BY HereGood
  <1>2. EnvOK'
    BY <1>1, EdgesTyped DEF ContentHandled, EnvOK, UpsertEnds, editor
  <1>3. open' = open /\ disposed' = disposed BY DEF ContentHandled, editor
  <1>4. Good(OnDidChange(Here, u), open') /\ (disposed => OnDidChange(Here, u).shown = shown)
    BY <1>1, <1>3, OnDidChangeGood DEF Here
  <1> QED BY <1>2, <1>3, <1>4, BecomeStep DEF ContentHandled

LEMMA ContentFailsStep ==
  ASSUME IInv, NEW u \in Docs, ContentFails(u)
  PROVE  Step
  <1>1. EnvOK BY HereGood
  <1>2. dependents' \subseteq Imports BY <1>1, EdgesTyped DEF ContentFails, EnvOK
  <1>3. handlers' \in [Docs -> Nat] BY <1>1 DEF ContentFails, EnvOK
  <1>4. EnvOK' BY <1>1, <1>2, <1>3 DEF ContentFails, EnvOK, editor
  <1> QED BY <1>4, FrameStep DEF ContentFails, editor

LEMMA QueryStep ==
  ASSUME IInv, NEW u \in Docs, QueryBegins(u) \/ QueryEnds(u)
  PROVE  Step
  <1>1. EnvOK BY HereGood
  <1>2. EnvOK'
    BY <1>1, EdgesTyped DEF QueryBegins, QueryEnds, EnvOK, UpsertBegins, UpsertEnds, editor
  <1> QED BY <1>2, FrameStep DEF QueryBegins, QueryEnds, editor

LEMMA IndexRefreshStep ==
  ASSUME IInv, NEW u \in Docs, IndexRefresh(u)
  PROVE  Step
  <1>1. EnvOK /\ Good(Here, open) BY HereGood
  <1>2. EnvOK' BY <1>1, EnvSame DEF IndexRefresh
  <1>3. open' = open /\ disposed' = disposed BY DEF IndexRefresh, env, editor
  <1>4. Good(OnDidChange(Here, u), open') /\ (disposed => OnDidChange(Here, u).shown = shown)
    BY <1>1, <1>3, OnDidChangeGood DEF Here
  <1> QED BY <1>2, <1>3, <1>4, BecomeStep DEF IndexRefresh

LEMMA SaveStep ==
  ASSUME IInv, NEW u \in Docs, Save(u)
  PROVE  Step
  <1> DEFINE m == ClearDebounce(Here, u)
             n == RunDiagnose(m, u)
  <1>1. EnvOK /\ Good(Here, open) BY HereGood
  <1>2. EnvOK' BY <1>1, EnvSame DEF Save
  <1>3. open' = open /\ disposed' = disposed BY DEF Save, env, editor
  <1>4. Good(m, open) /\ m.shown = shown /\ FreshRun(m) # {}
    BY <1>1, ClearDebounceGood DEF Save, RoomToRun, Here
  <1>5. Good(n, open') /\ (disposed => n.shown = shown)
    <2> HIDE DEF m
    <2> QED BY <1>1, <1>3, <1>4, RunDiagnoseGood
  <1>6. Become(n) BY DEF Save
  <1> HIDE DEF n
  <1> QED BY <1>2, <1>3, <1>5, <1>6, BecomeStep

\* Emptying one entry of the verdict cache.
LEMMA EvictGood ==
  ASSUME NEW S, NEW m, Good(m, S), NEW u \in Docs
  PROVE  LET n == [m EXCEPT !.cache[u] = NoEntry] IN Good(n, S) /\ n.shown = m.shown
  <1> DEFINE n == [m EXCEPT !.cache[u] = NoEntry]
  <1>1. m \in Managers BY DEF Good
  <1>2. n \in Managers /\ n.runs = m.runs /\ n.shown = m.shown
          /\ n.cache = [m.cache EXCEPT ![u] = NoEntry]
    BY <1>1, NothingTyped DEF Managers
  <1>3. \A d \in Docs : n.cache[d] = NoEntry \/ n.cache[d] = m.cache[d]
    BY <1>1, <1>2 DEF Managers
  <1>4. Filed(n) BY <1>2, <1>3 DEF Good, Filed, NoEntry
  <1> QED BY <1>2, <1>4 DEF Good, Clean

LEMMA RemoveFileTyped ==
  ASSUME EnvOK, NEW u \in Docs, RemoveFile(u)
  PROVE  entry' \in [Docs -> {"none", "bare", "full"}] /\ dependents' \subseteq Imports
  BY DEF RemoveFile, EnvOK

LEMMA CloseStep ==
  ASSUME IInv, NEW u \in Docs, Close(u)
  PROVE  Step
  <1> DEFINE m == [Here EXCEPT !.cache[u] = NoEntry]
             n == OnDidClose(m, u)
  <1>1. EnvOK /\ Good(Here, open) BY HereGood
  <1>2. EnvOK' BY <1>1, RemoveFileTyped DEF Close, EnvOK
  <1>3. open' = open \ {u} /\ disposed' = disposed BY DEF Close
  <1>4. Good(m, open) /\ m.shown = shown BY <1>1, EvictGood DEF Here
  <1>5. Good(n, open') /\ (disposed => n.shown = shown)
    <2> HIDE DEF m
    <2> QED BY <1>1, <1>3, <1>4, OnDidCloseGood
  <1>6. Become(n) BY DEF Close
  <1> HIDE DEF n
  <1> QED BY <1>2, <1>3, <1>5, <1>6, BecomeStep

LEMMA DebounceFiresStep ==
  ASSUME IInv, NEW u \in Docs, DebounceFires(u)
  PROVE  Step
  <1> DEFINE m == ClearDebounce(Here, u)
             n == IF LiveVersion(u) # state[u].version \/ state[u].inFlight THEN m
                  ELSE RunDiagnose(m, u)
  <1>1. EnvOK /\ Good(Here, open) BY HereGood
  <1>2. EnvOK' BY <1>1, EnvSame DEF DebounceFires
  <1>3. open' = open /\ disposed' = disposed BY DEF DebounceFires, env, editor
  <1>4. Good(m, open) /\ m.shown = shown /\ FreshRun(m) # {}
    BY <1>1, ClearDebounceGood DEF DebounceFires, RoomToRun, Here
  <1>5. Good(n, open') /\ (disposed => n.shown = shown)
    <2> HIDE DEF m
    <2>1. Good(RunDiagnose(m, u), open) /\ (disposed => RunDiagnose(m, u).shown = shown)
      BY <1>1, <1>4, RunDiagnoseGood
    <2> QED BY <1>3, <1>4, <2>1
  <1>6. Become(n) BY DEF DebounceFires
  <1> HIDE DEF n
  <1> QED BY <1>2, <1>3, <1>5, <1>6, BecomeStep

\* A timer that was leaked publishes through the same gate as any other.
LEMMA StaleFiresStep ==
  ASSUME IInv, NEW t \in staleTimers, StaleFires(t)
  PROVE  Step
  <1> DEFINE m == [Here EXCEPT !.staleTimers = @ \ {t}]
             last == IF t.orphan THEN t.last ELSE state[t.uri].lastDiagnostics
             what == [last EXCEPT !.notice = "stale"]
             n == Publish(m, t.uri, t.session, what)
  <1>1. EnvOK /\ Good(Here, open) BY HereGood
  <1>2. EnvOK' BY <1>1, EnvSame DEF StaleFires
  <1>3. open' = open /\ disposed' = disposed BY DEF StaleFires, env, editor
  <1>4. staleTimers \subseteq StaleTimers /\ state \in [Docs -> States]
    BY <1>1 DEF Good, Managers, Here
  <1>5. t \in StaleTimers /\ t.uri \in Docs BY <1>4 DEF StaleTimers
  <1>6. what \in Shown
    <2>1. state[t.uri] \in States BY <1>4, <1>5
    <2>2. last \in Shown BY <1>5, <2>1 DEF StaleTimers, States
    <2> HIDE DEF last
    <2> QED BY <2>2 DEF Shown
  <1>7. Good(m, open) /\ m.shown = shown
    <2>1. m \in Managers /\ m.runs = runs /\ m.cache = cache /\ m.shown = shown
      BY <1>1 DEF Good, Managers, Here
    <2> HIDE DEF m
    <2> QED BY <1>1, <2>1 DEF Good, Filed, Clean, Here
  <1>8. Good(n, open') /\ (disposed => n.shown = shown)
    <2> HIDE DEF m, what
    <2> QED BY <1>3, <1>5, <1>6, <1>7, PublishGood
  <1>9. Become(n) BY DEF StaleFires
  <1> HIDE DEF n
  <1> QED BY <1>2, <1>3, <1>8, <1>9, BecomeStep

LEMMA FailStep ==
  ASSUME IInv, NEW k \in DOMAIN runs, NEW notice \in {"none", "timeout"}, Fail(k, notice)
  PROVE  Step
  <1> DEFINE r == runs[k]
             what == [parse |-> r.text, pike |-> NoVerdict, notice |-> notice]
             m == ClearStale(Here, r)
             p == Publish(m, r.uri, r.session, what)
             n == Finish(p, k)
  <1>1. EnvOK /\ Good(Here, open) BY HereGood
  <1>2. EnvOK' BY <1>1, EnvSame DEF Fail
  <1>3. open' = open /\ disposed' = disposed BY DEF Fail, env, editor
  <1>4. r \in Runs
    <2>1. runs \in Seq(Runs) BY <1>1 DEF Good, Managers, Here
    <2> QED BY <2>1
  <1>5. r.uri \in Docs /\ what \in Shown BY <1>4, NothingTyped DEF Runs, Shown
  <1>6. Good(m, open) /\ m.shown = shown /\ m.runs = runs
    <2> HIDE DEF r
    <2> QED BY <1>1, <1>4, ClearStaleGood DEF Here
  <1>7. Good(p, open) /\ (disposed => p.shown = shown) /\ p.runs = runs
    <2> HIDE DEF m, what, r
    <2> QED BY <1>5, <1>6, PublishGood
  <1>8. Good(n, open') /\ (disposed => n.shown = shown)
    <2> HIDE DEF p
    <2> QED BY <1>3, <1>7, FinishGood
  <1>9. Become(n) BY DEF Fail
  <1> HIDE DEF n
  <1> QED BY <1>2, <1>3, <1>8, <1>9, BecomeStep

\* The verdict is cached under the text that the run had sent.
LEMMA AnswerStep ==
  ASSUME IInv, NEW how \in {"verdict", "backoff"}, Answer(how)
  PROVE  Step
  <1> DEFINE r == runs[1]
             v == [checked |-> how = "verdict", world |-> r.world]
             e == [text |-> r.text, verdict |-> v]
             what == [parse |-> r.text, pike |-> v, notice |-> "none"]
             c == ClearStale(Here, r)
             m == [c EXCEPT !.cache[r.uri] = e]
             p == Publish(m, r.uri, r.session, what)
             q == PropagateToDependents(p, r.uri)
             n == Finish(q, 1)
  <1>1. EnvOK /\ Good(Here, open) BY HereGood
  <1>2. EnvOK' BY <1>1, EnvSame DEF Answer
  <1>3. open' = open /\ disposed' = disposed BY DEF Answer, env, editor
  <1>4. 1 \in DOMAIN runs /\ r \in Runs
    <2>1. runs \in Seq(Runs) BY <1>1 DEF Good, Managers, Here
    <2> QED BY <2>1 DEF Answer
  <1>5. r.uri \in Docs /\ e \in Entries /\ what \in Shown
    BY <1>4 DEF Runs, Shown, Entries, Verdicts
  <1>6. e.verdict.world[r.uri] = e.text
    BY <1>1, <1>4 DEF Good, Filed, Here
  <1>7. Good(c, open) /\ c.shown = shown /\ c.runs = runs
    <2> HIDE DEF r
    <2> QED BY <1>1, <1>4, ClearStaleGood DEF Here
  <1> HIDE DEF c, r, v
  <1>8. Good(m, open) /\ m.shown = shown /\ m.runs = runs
    <2>1. c \in Managers BY <1>7 DEF Good
    <2> HIDE DEF e
    <2>2. m \in Managers /\ m.runs = runs /\ m.shown = shown
            /\ m.cache = [c.cache EXCEPT ![r.uri] = e]
      BY <1>5, <1>7, <2>1 DEF Managers
    <2>3. Filed(m) BY <1>6, <1>7, <2>1, <2>2 DEF Good, Filed, Managers
    <2> QED BY <1>7, <2>2, <2>3 DEF Good, Clean
  <1> HIDE DEF m, what
  <1>9. Good(p, open) /\ (disposed => p.shown = shown) /\ p.runs = runs
    BY <1>5, <1>8, PublishGood
  <1> HIDE DEF p
  <1>10. Good(q, open) /\ (disposed => q.shown = shown) /\ q.runs = runs
    BY <1>1, <1>5, <1>9, PropagateGood
  <1> HIDE DEF q
  <1>11. Good(n, open') /\ (disposed => n.shown = shown)
    BY <1>3, <1>4, <1>10, FinishGood
  <1>12. Become(n) BY DEF Answer, n, q, p, m, what, e, v, c, r
  <1> HIDE DEF n
  <1> QED BY <1>2, <1>3, <1>11, <1>12, BecomeStep

LEMMA SetDiagnosticModeStep ==
  ASSUME IInv, NEW m \in Modes, SetDiagnosticMode(m)
  PROVE  Step
  <1> DEFINE n == IF m = "realtime" THEN Here ELSE DropStates(Here, Docs)
  <1>1. EnvOK /\ Good(Here, open) BY HereGood
  <1>2. EnvOK' BY <1>1 DEF SetDiagnosticMode, EnvOK, editor, index
  <1>3. open' = open /\ disposed' = disposed BY DEF SetDiagnosticMode, editor
  <1>4. Good(n, open') /\ n.shown = shown
    <2>1. Good(DropStates(Here, Docs), open) /\ DropStates(Here, Docs).shown = Here.shown
      BY <1>1, DropStatesGood
    <2>2. Here.shown = shown BY DEF Here
    <2> QED BY <1>1, <1>3, <2>1, <2>2
  <1>5. Become(n) BY DEF SetDiagnosticMode
  <1> HIDE DEF n
  <1> QED BY <1>2, <1>3, <1>4, <1>5, BecomeStep

LEMMA DisposeStep ==
  ASSUME IInv, Dispose
  PROVE  Step
  <1> DEFINE n == DropStates(Here, Docs)
  <1>1. EnvOK /\ Good(Here, open) BY HereGood
  <1>2. EnvOK' BY <1>1 DEF Dispose, EnvOK, editor, index
  <1>3. open' = open /\ disposed' BY DEF Dispose, editor
  <1>4. Good(n, open') /\ n.shown = shown
    <2>1. Good(n, open) /\ n.shown = Here.shown
      BY <1>1, DropStatesGood
    <2>2. Here.shown = shown BY DEF Here
    <2> QED BY <1>3, <2>1, <2>2
  <1>5. Become(n) BY DEF Dispose
  <1> HIDE DEF n
  <1> QED BY <1>2, <1>3, <1>4, <1>5, BecomeStep

LEMMA FileChangedStep ==
  ASSUME IInv, NEW u \in Docs, FileChanged(u)
  PROVE  Step
  <1> DEFINE n == [Here EXCEPT !.cache[u] = NoEntry]
  <1>1. EnvOK /\ Good(Here, open) BY HereGood
  <1>2. refreshing' \in [Docs -> SUBSET Docs]
    BY <1>1 DEF FileChanged, EnvOK, GetDependents
  <1>3. EnvOK' BY <1>1, <1>2, RemoveFileTyped DEF FileChanged, EnvOK, editor
  <1>4. open' = open /\ disposed' = disposed BY DEF FileChanged, editor
  <1>5. Good(n, open') /\ n.shown = shown BY <1>1, <1>4, EvictGood DEF Here
  <1>6. Become(n) BY DEF FileChanged
  <1> HIDE DEF n
  <1> QED BY <1>3, <1>4, <1>5, <1>6, BecomeStep

LEMMA FileReindexedStep ==
  ASSUME IInv, NEW u \in Docs, FileReindexed(u)
  PROVE  Step
  <1> DEFINE n == RefreshImporters(Here, refreshing[u])
  <1>1. EnvOK /\ Good(Here, open) BY HereGood
  <1>2. refreshing' \in [Docs -> SUBSET Docs] /\ refreshing[u] \in SUBSET Docs
    BY <1>1 DEF FileReindexed, EnvOK
  <1>3. entry' \in [Docs -> {"none", "bare", "full"}] /\ dependents' \subseteq Imports
    BY <1>1, EdgesTyped DEF FileReindexed, UpsertEnds, EnvOK
  <1>4. EnvOK' BY <1>1, <1>2, <1>3 DEF FileReindexed, EnvOK, editor
  <1>5. open' = open /\ disposed' = disposed BY DEF FileReindexed, editor
  <1>6. Good(n, open') /\ (disposed => n.shown = shown)
    BY <1>1, <1>2, <1>5, RefreshGood DEF Here
  <1>7. Become(n) BY DEF FileReindexed
  <1> HIDE DEF n
  <1> QED BY <1>4, <1>5, <1>6, <1>7, BecomeStep

LEMMA FileDeletedStep ==
  ASSUME IInv, NEW u \in Docs, FileDeleted(u)
  PROVE  Step
  <1> DEFINE m == [Here EXCEPT !.cache[u] = NoEntry]
             p == OnDidClose(m, u)
             n == RefreshImporters(p, GetDependents(u))
  <1>1. EnvOK /\ Good(Here, open) BY HereGood
  <1>2. EnvOK' BY <1>1, RemoveFileTyped DEF FileDeleted, EnvOK, editor
  <1>3. open' = open /\ disposed' = disposed BY DEF FileDeleted, editor
  <1>4. Good(m, open) /\ m.shown = shown BY <1>1, EvictGood DEF Here
  <1> HIDE DEF m
  <1>5. Good(p, open) /\ (disposed => p.shown = shown)
    BY <1>1, <1>4, OnDidCloseGood
  <1> HIDE DEF p
  <1>6. GetDependents(u) \in SUBSET Docs BY DEF GetDependents
  <1>7. Good(n, open') /\ (disposed => n.shown = shown)
    BY <1>1, <1>3, <1>5, <1>6, RefreshGood
  <1>8. Become(n) BY DEF FileDeleted, n, p, m
  <1> HIDE DEF n
  <1> QED BY <1>2, <1>3, <1>7, <1>8, BecomeStep

-------------------------------------------------------------------------------
(* The specification. *)

LEMMA NextStep == IInv /\ [Next]_vars => Step
  <1> SUFFICES ASSUME IInv, [Next]_vars PROVE Step
    OBVIOUS
  <1>1. ASSUME NEW u \in Docs, NEW t \in Texts, Open(u, t) \/ Edit(u, t) PROVE Step
    BY <1>1, OpenStep, EditStep
  <1>2. ASSUME NEW u \in Docs,
               ContentHandled(u) \/ ContentFails(u) \/ QueryBegins(u) \/ QueryEnds(u)
                 \/ IndexRefresh(u)
        PROVE  Step
    BY <1>2, ContentHandledStep, ContentFailsStep, QueryStep, IndexRefreshStep
  <1>3. ASSUME NEW u \in Docs, Save(u) \/ Close(u) \/ DebounceFires(u) PROVE Step
    BY <1>3, SaveStep, CloseStep, DebounceFiresStep
  <1>4. ASSUME NEW u \in Docs, FileChanged(u) \/ FileReindexed(u) \/ FileDeleted(u)
        PROVE  Step
    BY <1>4, FileChangedStep, FileReindexedStep, FileDeletedStep
  <1>5. ASSUME NEW t \in staleTimers, StaleFires(t) PROVE Step
    BY <1>5, StaleFiresStep
  <1>6. ASSUME NEW how \in {"verdict", "backoff"}, Answer(how) PROVE Step
    BY <1>6, AnswerStep
  <1>7. ASSUME NEW k \in DOMAIN runs, NEW notice \in {"none", "timeout"}, Fail(k, notice)
        PROVE  Step
    BY <1>7, FailStep
  <1>8. ASSUME NEW m \in Modes \ {mode}, SetDiagnosticMode(m) PROVE Step
    BY <1>8, SetDiagnosticModeStep
  <1>9. CASE Dispose BY <1>9, DisposeStep
  <1>10. CASE UNCHANGED vars
    <2>1. EnvOK' BY <1>10, HereGood, EnvSame DEF vars, env
    <2> QED BY <1>10, <2>1, FrameStep DEF vars, editor
  <1> QED BY <1>1, <1>2, <1>3, <1>4, <1>5, <1>6, <1>7, <1>8, <1>9, <1>10 DEF Next

\* The inductive invariant holds in every reachable state, and no step sends a
\* diagnostic once the manager is disposed.
THEOREM Inductive == Spec => [](IInv)
  <1>1. IInv /\ [Next]_vars => IInv' BY NextStep DEF Step
  <1> QED BY InitInv, <1>1, PTL DEF Spec

\* Type correctness: every value of the manager, the editor and the index
\* stays in its declared set.
THEOREM TypeCorrect == Spec => []TypeOK
  <1>1. IInv => TypeOK BY DEF IInv, TypeOK, Good, Managers, ManagerOK
  <1> QED BY Inductive, <1>1, PTL

\* A closed document has no problems in the editor, whatever answers, timers
\* and refreshes arrive after the close: the gate of publishDiagnostics.
THEOREM ClosedStaysSilent == Spec => []ClosedShowsNothing
  <1>1. IInv => ClosedShowsNothing BY DEF IInv, Good, Clean, ClosedShowsNothing, Here
  <1> QED BY Inductive, <1>1, PTL

\* A verdict in the cache is always that of the content it is filed under,
\* though the document may have changed between request and answer.
THEOREM VerdictsFiled == Spec => []CachedVerdictIsOfItsText
  <1>1. IInv => CachedVerdictIsOfItsText
    BY DEF IInv, Good, Filed, CachedVerdictIsOfItsText, Here
  <1> QED BY Inductive, <1>1, PTL

\* After dispose() no callback still under way sends anything to the editor.
THEOREM SilentAfterDispose == Spec => NothingAfterDispose
  <1>1. IInv /\ [Next]_vars => [disposed => shown' = shown]_vars BY NextStep DEF Step
  <1> QED BY Inductive, <1>1, PTL DEF Spec, NothingAfterDispose

-------------------------------------------------------------------------------
(***************************************************************************)
(* Notices.  Why a notice that diagnostics are being updated is never left *)
(* behind: what `inFlight` and the armed timers say of the runs.           *)
(***************************************************************************)
Running(m, u) == \E k \in DOMAIN m.runs : m.runs[k].uri = u /\ ~m.runs[k].orphan

\* A document has at most one run that still knows its state, the one its state
\* tells of; an armed stale timer is that run's.
Tracked(m) ==
  /\ \A k, l \in DOMAIN m.runs :
       ~m.runs[k].orphan /\ ~m.runs[l].orphan /\ m.runs[k].uri = m.runs[l].uri => k = l
  /\ \A u \in Docs : m.state[u].inFlight => m.state[u].exists
  /\ \A u \in Docs : m.state[u].inFlight <=> Running(m, u)
  /\ \A t \in m.staleTimers :
       ~t.orphan /\ t.run = m.state[t.uri].staleTimer /\ m.state[t.uri].inFlight

\* The runs that keep their state are of open documents, the ones open now; a
\* notice comes with a run that will publish again.
Noticed(m, S) == ~disposed =>
  /\ \A k \in DOMAIN m.runs : ~m.runs[k].orphan =>
       m.runs[k].uri \in S /\ m.runs[k].session = session[m.runs[k].uri]
  /\ \A u \in Docs : m.shown[u].notice = "stale" =>
       \E k \in DOMAIN m.runs : m.runs[k].uri = u /\ m.runs[k].session = session[u]

NoticeInv == Tracked(Here) /\ Noticed(Here, open)

\* A method that neither starts nor ends a run, nor shows a notice.
Keeps(m, n) ==
  /\ n.runs = m.runs /\ n.staleTimers = m.staleTimers
  /\ \A d \in Docs :
       /\ n.state[d].inFlight = m.state[d].inFlight
       /\ m.state[d].exists => n.state[d].exists
       /\ m.state[d].inFlight => n.state[d].staleTimer = m.state[d].staleTimer
  /\ \A d \in Docs : n.shown[d].notice = "stale" => n.shown[d].notice = m.shown[d].notice

LEMMA KeepsTracked ==
  ASSUME NEW m \in Managers, NEW n, Tracked(m), Keeps(m, n)
  PROVE  Tracked(n)
  <1>1. \A u \in Docs : Running(n, u) <=> Running(m, u) BY DEF Keeps, Running
  <1>2. \A t \in m.staleTimers : t.uri \in Docs BY DEF Managers, StaleTimers
  <1> QED BY <1>1, <1>2 DEF Tracked, Keeps

LEMMA KeepsNoticed ==
  ASSUME NEW m, NEW n, NEW S, Noticed(m, S), Keeps(m, n)
  PROVE  Noticed(n, S)
  BY DEF Noticed, Keeps

LEMMA KeepsTrans ==
  ASSUME NEW m, NEW n, NEW p, Keeps(m, n), Keeps(n, p)
  PROVE  Keeps(m, p)
  BY DEF Keeps

\* A publication changes what is shown for one document, if the gate is open.
LEMMA PublishShape ==
  ASSUME NEW m \in Managers, NEW u \in Docs, NEW s, NEW what
  PROVE  LET n == Publish(m, u, s, what) IN
         /\ n.runs = m.runs /\ n.staleTimers = m.staleTimers
         /\ \A d \in Docs :
              /\ n.state[d].inFlight = m.state[d].inFlight
              /\ n.state[d].exists = m.state[d].exists
              /\ n.state[d].staleTimer = m.state[d].staleTimer
              /\ n.state[d].timer = m.state[d].timer
              /\ n.state[d].version = m.state[d].version
              /\ n.shown[d] = IF MayPublish(u, s) /\ d = u THEN what ELSE m.shown[d]
  <1> DEFINE st == m.state[u]
             nst == [st EXCEPT !.lastDiagnostics = IF st.exists THEN what ELSE @]
             r == [m EXCEPT !.shown[u] = what, !.state[u] = nst]
  <1>1. st \in States BY DEF Managers
  <1>2. /\ nst.inFlight = st.inFlight /\ nst.exists = st.exists
        /\ nst.staleTimer = st.staleTimer /\ nst.timer = st.timer
        /\ nst.version = st.version
    BY <1>1 DEF States
  <1>3. Publish(m, u, s, what) = IF MayPublish(u, s) THEN r ELSE m
    BY DEF Publish, Managers
  <1> HIDE DEF nst
  <1>4. /\ r.runs = m.runs /\ r.staleTimers = m.staleTimers
        /\ r.state = [m.state EXCEPT ![u] = nst] /\ r.shown = [m.shown EXCEPT ![u] = what]
    BY DEF Managers
  <1> HIDE DEF r
  <1>5. ASSUME NEW d \in Docs
        PROVE  /\ r.state[d] = IF d = u THEN nst ELSE m.state[d]
               /\ r.shown[d] = IF d = u THEN what ELSE m.shown[d]
    BY <1>4 DEF Managers
  <1>6. CASE ~MayPublish(u, s) BY <1>3, <1>6
  <1>7. CASE MayPublish(u, s) BY <1>2, <1>3, <1>4, <1>5, <1>7
  <1> QED BY <1>6, <1>7

LEMMA PublishKeeps ==
  ASSUME NEW m \in Managers, NEW u \in Docs, NEW s, NEW what, what.notice # "stale"
  PROVE  Keeps(m, Publish(m, u, s, what))
  BY PublishShape DEF Keeps

LEMMA ClearDebounceKeeps ==
  ASSUME NEW m \in Managers, NEW u \in Docs
  PROVE  Keeps(m, ClearDebounce(m, u))
  <1> DEFINE nst == [m.state[u] EXCEPT !.timer = FALSE]
             r == [m EXCEPT !.state[u] = nst]
  <1>1. m.state[u] \in States BY DEF Managers
  <1>2. /\ nst.inFlight = m.state[u].inFlight /\ nst.exists = m.state[u].exists
        /\ nst.staleTimer = m.state[u].staleTimer
    BY <1>1 DEF States
  <1>3. ClearDebounce(m, u) = r BY DEF ClearDebounce, Managers
  <1> HIDE DEF nst
  <1>4. /\ r.runs = m.runs /\ r.staleTimers = m.staleTimers
        /\ r.state = [m.state EXCEPT ![u] = nst] /\ r.shown = m.shown
    BY DEF Managers
  <1> HIDE DEF r
  <1> QED BY <1>2, <1>3, <1>4 DEF Keeps, Managers

LEMMA EvictKeeps ==
  ASSUME NEW m \in Managers, NEW u \in Docs
  PROVE  Keeps(m, [m EXCEPT !.cache[u] = NoEntry])
  BY DEF Keeps, Managers

\* A state is made when it is missing, and then nothing is in flight.
LEMMA ScheduleShape ==
  ASSUME NEW m \in Managers, NEW u \in Docs, NEW C,
         m.state[u].inFlight => m.state[u].exists
  PROVE  LET n == Schedule(m, u, C) IN
         /\ n.runs = m.runs /\ n.staleTimers = m.staleTimers /\ n.shown = m.shown
         /\ \A d \in Docs : d # u => n.state[d] = m.state[d]
         /\ n.state[u].timer /\ n.state[u].version = LiveVersion(u)
         /\ n.state[u].inFlight = m.state[u].inFlight /\ n.state[u].exists
         /\ m.state[u].exists => n.state[u].staleTimer = m.state[u].staleTimer
  <1> DEFINE st == GetOrCreate(m.state[u])
             nst == [st EXCEPT !.timer = TRUE, !.version = LiveVersion(u),
                               !.propagationChain = C]
             n == [m EXCEPT !.state[u] = nst]
  <1>1. m.state[u] \in States BY DEF Managers
  <1>2. st \in States BY <1>1, GetOrCreateTyped
  <1>3. /\ st.inFlight = m.state[u].inFlight /\ st.exists
        /\ m.state[u].exists => st.staleTimer = m.state[u].staleTimer
    <2>1. CASE m.state[u].exists BY <2>1 DEF GetOrCreate
    <2>2. CASE ~m.state[u].exists
      <3>1. st.exists /\ st.inFlight = FALSE BY <2>2 DEF GetOrCreate, NoState
      <3>2. m.state[u].inFlight = FALSE BY <1>1, <2>2 DEF States
      <3> QED BY <2>2, <3>1, <3>2
    <2> QED BY <2>1, <2>2
  <1>4. Schedule(m, u, C) = n BY DEF Schedule, Managers
  <1> HIDE DEF st
  <1>5. /\ nst.timer /\ nst.version = LiveVersion(u) /\ nst.inFlight = st.inFlight
        /\ nst.exists = st.exists /\ nst.staleTimer = st.staleTimer
    BY <1>2 DEF States
  <1> HIDE DEF nst
  <1>6. /\ n.runs = m.runs /\ n.staleTimers = m.staleTimers /\ n.shown = m.shown
        /\ n.state = [m.state EXCEPT ![u] = nst]
    BY DEF Managers
  <1> HIDE DEF n
  <1>7. n.state[u] = nst /\ \A d \in Docs : d # u => n.state[d] = m.state[d]
    BY <1>6 DEF Managers
  <1> QED BY <1>3, <1>4, <1>5, <1>6, <1>7

LEMMA OnDidChangeKeeps ==
  ASSUME EnvOK, NEW m, Good(m, open), Tracked(m), NEW u \in Docs
  PROVE  Keeps(m, OnDidChange(m, u))
  <1> DEFINE what == [parse |-> text[u], pike |-> m.cache[u].verdict, notice |-> "none"]
             p == [m EXCEPT !.shown[u] = what]
             q == Schedule(p, u, {})
  <1>1. m \in Managers BY DEF Good
  <1>2. m.cache[u] \in Entries BY <1>1 DEF Managers
  <1>3. what \in Shown /\ what.notice = "none" BY <1>2, LiveVersionTyped DEF Shown, Entries
  <1>4. OnDidChange(m, u) \in {m, p, q} BY DEF OnDidChange
  <1> HIDE DEF what
  <1>5. p \in Managers /\ p.runs = m.runs /\ p.staleTimers = m.staleTimers
          /\ p.state = m.state /\ p.shown = [m.shown EXCEPT ![u] = what]
    BY <1>1, <1>3 DEF Managers
  <1> HIDE DEF p
  <1>6. Keeps(m, p) BY <1>1, <1>3, <1>5 DEF Keeps, Managers
  <1>7. Keeps(p, q)
    <2>1. p.state[u].inFlight => p.state[u].exists BY <1>5 DEF Tracked
    <2>2. /\ q.runs = p.runs /\ q.staleTimers = p.staleTimers /\ q.shown = p.shown
          /\ \A d \in Docs : d # u => q.state[d] = p.state[d]
          /\ q.state[u].inFlight = p.state[u].inFlight /\ q.state[u].exists
          /\ p.state[u].exists => q.state[u].staleTimer = p.state[u].staleTimer
      BY <1>5, <2>1, ScheduleShape
    <2> HIDE DEF q
    <2> QED BY <2>1, <2>2 DEF Keeps
  <1>8. Keeps(m, m) BY DEF Keeps
  <1> HIDE DEF q
  <1> QED BY <1>4, <1>6, <1>7, <1>8, KeepsTrans

LEMMA PropagateKeeps ==
  ASSUME NEW m, Good(m, open), Tracked(m), NEW u \in Docs
  PROVE  Keeps(m, PropagateToDependents(m, u))
  <1> DEFINE chain == m.state[u].propagationChain \cup {u}
             S == (GetDependents(u) \cap open) \ chain
             C == [d \in Docs |-> IF d \in S THEN NoEntry ELSE m.cache[d]]
             St == [d \in Docs |-> IF d \in S THEN Schedule(m, d, chain).state[d]
                                   ELSE m.state[d]]
             n == [m EXCEPT !.cache = C, !.state = St]
  <1>1. m \in Managers BY DEF Good
  <1>2. PropagateToDependents(m, u) = n BY <1>1 DEF PropagateToDependents, Managers
  <1> HIDE DEF C, chain, S
  <1>3. ASSUME NEW d \in Docs
        PROVE  /\ St[d].inFlight = m.state[d].inFlight
               /\ m.state[d].exists => St[d].exists
               /\ m.state[d].inFlight => St[d].staleTimer = m.state[d].staleTimer
    <2>1. m.state[d].inFlight => m.state[d].exists BY DEF Tracked
    <2>2. /\ Schedule(m, d, chain).state[d].inFlight = m.state[d].inFlight
          /\ Schedule(m, d, chain).state[d].exists
          /\ m.state[d].exists
               => Schedule(m, d, chain).state[d].staleTimer = m.state[d].staleTimer
      BY <1>1, <2>1, ScheduleShape
    <2> QED BY <2>1, <2>2
  <1> HIDE DEF St
  <1>4. /\ n.runs = m.runs /\ n.staleTimers = m.staleTimers /\ n.state = St
        /\ n.shown = m.shown
    BY <1>1 DEF Managers
  <1> HIDE DEF n
  <1> QED BY <1>2, <1>3, <1>4 DEF Keeps

LEMMA RefreshKeeps ==
  ASSUME EnvOK, NEW m, Good(m, open), Tracked(m), NEW S \in SUBSET Docs
  PROVE  Keeps(m, RefreshImporters(m, S))
  <1> DEFINE C == [d \in Docs |-> IF d \in S THEN NoEntry ELSE m.cache[d]]
             c == [m EXCEPT !.cache = C]
             One(d) == IF d \in S THEN OnDidChange(c, d) ELSE c
             St == [d \in Docs |-> One(d).state[d]]
             Sh == [d \in Docs |-> One(d).shown[d]]
             n == [c EXCEPT !.state = St, !.shown = Sh]
  <1>1. m \in Managers BY DEF Good
  <1>2. C \in [Docs -> Entries] /\ \A d \in Docs : C[d] = NoEntry \/ C[d] = m.cache[d]
    BY <1>1, NothingTyped DEF Managers
  <1>3. RefreshImporters(m, S) = n BY <1>1 DEF RefreshImporters, Managers
  <1> HIDE DEF C
  <1>4. /\ c \in Managers /\ c.runs = m.runs /\ c.shown = m.shown /\ c.cache = C
        /\ c.state = m.state /\ c.staleTimers = m.staleTimers
    BY <1>1, <1>2 DEF Managers
  <1>5. Good(c, open)
    <2>1. Filed(c) BY <1>2, <1>4 DEF Good, Filed, NoEntry
    <2> QED BY <1>4, <2>1 DEF Good, Clean
  <1> HIDE DEF c
  <1>6. Keeps(m, c) BY <1>4 DEF Keeps
  <1>7. Tracked(c) BY <1>1, <1>6, KeepsTracked
  <1>8. \A d \in Docs : Keeps(c, One(d))
    <2>1. Keeps(c, c) BY DEF Keeps
    <2>2. \A d \in Docs : Keeps(c, OnDidChange(c, d)) BY <1>5, <1>7, OnDidChangeKeeps
    <2> QED BY <2>1, <2>2
  <1> HIDE DEF One
  <1>9. \A d \in Docs : St[d] = One(d).state[d] /\ Sh[d] = One(d).shown[d]
    OBVIOUS
  <1> HIDE DEF St, Sh
  <1>10. /\ n.runs = c.runs /\ n.staleTimers = c.staleTimers /\ n.state = St
         /\ n.shown = Sh
    BY <1>4 DEF Managers
  <1> HIDE DEF n
  <1>11. Keeps(c, n) BY <1>8, <1>9, <1>10 DEF Keeps
  <1> QED BY <1>3, <1>6, <1>11, KeepsTrans

\* The stale timer of a run that kept its state goes with the run.
LEMMA ClearStaleTracked ==
  ASSUME NEW m \in Managers, Tracked(m), NEW r \in Runs
  PROVE  LET n == ClearStale(m, r) IN
         /\ Tracked(n)
         /\ ~r.orphan => \A t \in n.staleTimers : t.uri # r.uri
  <1> DEFINE u == r.uri
             nst == [m.state[u] EXCEPT !.staleTimer = NoRun]
             T == {t \in m.staleTimers : t.run # m.state[u].staleTimer}
             n == [m EXCEPT !.state[u] = nst, !.staleTimers = T]
  <1>1. u \in Docs BY DEF Runs
  <1>2. m.state[u] \in States BY <1>1 DEF Managers
  <1>3. nst.inFlight = m.state[u].inFlight /\ nst.exists = m.state[u].exists
    BY <1>2 DEF States
  <1>4. ClearStale(m, r) = IF r.orphan THEN m ELSE n BY DEF ClearStale, Managers
  <1> HIDE DEF nst
  <1>5. n.runs = m.runs /\ n.staleTimers = T /\ n.state = [m.state EXCEPT ![u] = nst]
    BY DEF Managers
  <1> HIDE DEF n
  <1>6. \A t \in T : t \in m.staleTimers /\ t.uri # u BY DEF Tracked
  <1> HIDE DEF T
  <1>7. \A t \in m.staleTimers : t.uri \in Docs BY DEF Managers, StaleTimers
  <1>8. \A d \in Docs : /\ n.state[d].inFlight = m.state[d].inFlight
                        /\ n.state[d].exists = m.state[d].exists
                        /\ d # u => n.state[d] = m.state[d]
    BY <1>1, <1>3, <1>5 DEF Managers
  <1>9. \A d \in Docs : Running(n, d) <=> Running(m, d) BY <1>5 DEF Running
  <1>10. Tracked(n)
    <2>1. \A t \in n.staleTimers :
            ~t.orphan /\ t.run = n.state[t.uri].staleTimer /\ n.state[t.uri].inFlight
      BY <1>5, <1>6, <1>7, <1>8 DEF Tracked
    <2> QED BY <1>5, <1>8, <1>9, <2>1 DEF Tracked
  <1> QED BY <1>4, <1>5, <1>6, <1>10

\* A dropped state takes its armed timer with it and leaves its run an orphan.
LEMMA DropStatesTracked ==
  ASSUME NEW m \in Managers, Tracked(m), NEW S \in SUBSET Docs
  PROVE  LET n == DropStates(m, S) IN
         /\ Tracked(n) /\ DOMAIN n.runs = DOMAIN m.runs
         /\ \A k \in DOMAIN m.runs :
              /\ n.runs[k].uri = m.runs[k].uri /\ n.runs[k].session = m.runs[k].session
              /\ n.runs[k].text = m.runs[k].text
              /\ n.runs[k].orphan <=> m.runs[k].orphan \/ m.runs[k].uri \in S
         /\ \A d \in Docs \ S : n.state[d] = m.state[d]
  <1> DEFINE St == [d \in Docs |-> IF d \in S THEN NoState ELSE m.state[d]]
             Armed == {t \in m.staleTimers : \A d \in S : t.run # m.state[d].staleTimer}
             Timer(t) == IF t.uri \in S /\ ~t.orphan
                         THEN [t EXCEPT !.orphan = TRUE, !.last = m.state[t.uri].lastDiagnostics]
                         ELSE t
             T == {Timer(t) : t \in Armed}
             Run(k) == IF m.runs[k].uri \in S THEN [m.runs[k] EXCEPT !.orphan = TRUE]
                       ELSE m.runs[k]
             R == [k \in DOMAIN m.runs |-> Run(k)]
             n == [m EXCEPT !.state = St, !.staleTimers = T, !.runs = R]
  <1>1. DropStates(m, S) = n BY DEF DropStates, Managers
  <1>2. ASSUME NEW k \in DOMAIN m.runs
        PROVE  /\ Run(k).uri = m.runs[k].uri /\ Run(k).session = m.runs[k].session
               /\ Run(k).text = m.runs[k].text
               /\ Run(k).orphan <=> m.runs[k].orphan \/ m.runs[k].uri \in S
    <2>1. m.runs \in Seq(Runs) BY DEF Managers
    <2>2. m.runs[k] \in Runs BY <2>1
    <2>3. CASE m.runs[k].uri \in S
      <3>1. Run(k) = [m.runs[k] EXCEPT !.orphan = TRUE] BY <2>3
      <3> QED BY <2>2, <2>3, <3>1 DEF Runs
    <2> QED BY <2>3
  <1>3. \A t \in Armed : t \in m.staleTimers /\ t.uri \in Docs /\ t.uri \notin S /\ Timer(t) = t
    BY DEF Tracked, Managers, StaleTimers
  <1>4. \A t \in T : t \in m.staleTimers /\ t.uri \in Docs /\ t.uri \notin S
    BY <1>3
  <1>5. \A d \in Docs : St[d] = IF d \in S THEN NoState ELSE m.state[d]
    OBVIOUS
  <1>6. DOMAIN R = DOMAIN m.runs /\ \A k \in DOMAIN m.runs : R[k] = Run(k)
    OBVIOUS
  <1> HIDE DEF St, Armed, Timer, T, Run, R
  <1>7. n.runs = R /\ n.staleTimers = T /\ n.state = St BY DEF Managers
  <1> HIDE DEF n
  <1>8. DOMAIN n.runs = DOMAIN m.runs /\ \A k \in DOMAIN m.runs :
          /\ n.runs[k].uri = m.runs[k].uri /\ n.runs[k].session = m.runs[k].session
          /\ n.runs[k].text = m.runs[k].text
          /\ n.runs[k].orphan <=> m.runs[k].orphan \/ m.runs[k].uri \in S
    BY <1>2, <1>6, <1>7
  <1>9. \A d \in Docs : n.state[d] = IF d \in S THEN NoState ELSE m.state[d]
    BY <1>5, <1>7
  <1>10. Tracked(n)
    <2>1. \A k, l \in DOMAIN n.runs :
            ~n.runs[k].orphan /\ ~n.runs[l].orphan /\ n.runs[k].uri = n.runs[l].uri => k = l
      BY <1>8 DEF Tracked
    <2>2. \A u \in Docs : n.state[u].inFlight => n.state[u].exists
      BY <1>9 DEF Tracked, NoState
    <2>3. ASSUME NEW u \in Docs PROVE n.state[u].inFlight <=> Running(n, u)
      <3>1. CASE u \in S
        <4>1. ~n.state[u].inFlight BY <1>9, <3>1 DEF NoState
        <4>2. ~Running(n, u) BY <1>8, <3>1 DEF Running
        <4> QED BY <4>1, <4>2
      <3>2. CASE u \notin S
        <4>1. Running(n, u) <=> Running(m, u) BY <1>8, <3>2 DEF Running
        <4>2. n.state[u] = m.state[u] BY <1>9, <3>2
        <4> QED BY <4>1, <4>2 DEF Tracked
      <3> QED BY <3>1, <3>2
    <2>4. \A t \in n.staleTimers :
            ~t.orphan /\ t.run = n.state[t.uri].staleTimer /\ n.state[t.uri].inFlight
      BY <1>4, <1>7, <1>9 DEF Tracked
    <2> QED BY <2>1, <2>2, <2>3, <2>4 DEF Tracked
  <1> QED BY <1>1, <1>8, <1>9, <1>10

\* What starting a diagnosis comes to: nothing, an answer at once, or a run.
RunsFor(m, n, u, run, t) ==
  /\ run.uri = u /\ run.session = session[u] /\ run.text = text[u] /\ ~run.orphan
  /\ n.runs = Append(m.runs, run)
  /\ t.uri = u /\ ~t.orphan /\ n.staleTimers = m.staleTimers \cup {t}
  /\ n.state[u].inFlight /\ n.state[u].exists /\ n.state[u].staleTimer = t.run
  /\ \A d \in Docs : d # u => n.state[d] = m.state[d]
  /\ n.shown = m.shown

LEMMA RunDiagnoseCases ==
  ASSUME EnvOK, NEW m, Good(m, open), NEW u \in Docs, FreshRun(m) # {}
  PROVE  LET n == RunDiagnose(m, u) IN
         \/ (disposed \/ u \notin open) /\ n = m
         \/ /\ ~disposed /\ u \in open
            /\ \E what \in Shown : /\ what.parse = text[u] /\ what.notice = "none"
                                   /\ n = Publish(m, u, session[u], what)
         \/ /\ ~disposed /\ u \in open
            /\ \E run \in Runs, t \in StaleTimers : RunsFor(m, n, u, run, t)
  <1> DEFINE s == session[u]
             id == CHOOSE i \in FreshRun(m) : TRUE
             cached == [parse |-> text[u], pike |-> m.cache[u].verdict, notice |-> "none"]
             unchecked == [parse |-> text[u], pike |-> NoVerdict, notice |-> "none"]
             nst == [GetOrCreate(m.state[u]) EXCEPT !.inFlight = TRUE, !.staleTimer = id,
                                                    !.lastDiagnostics = Nothing]
             timer == [run |-> id, uri |-> u, session |-> s, orphan |-> FALSE,
                       last |-> Nothing]
             run == [id |-> id, uri |-> u, session |-> s, text |-> text[u],
                     world |-> World(u), orphan |-> FALSE]
             n == [m EXCEPT !.state[u] = nst, !.staleTimers = @ \cup {timer},
                            !.runs = Append(@, run)]
  <1>1. m \in Managers /\ m.cache[u] \in Entries /\ m.state[u] \in States
    BY DEF Good, Managers
  <1>2. text[u] \in Contents /\ s \in Sessions BY LiveVersionTyped
  <1>3. cached \in Shown /\ unchecked \in Shown
    BY <1>1, <1>2, NothingTyped DEF Shown, Entries
  <1>4. id \in RunIds BY DEF FreshRun
  <1>5. timer \in StaleTimers /\ run \in Runs
    <2>1. timer \in StaleTimers BY <1>2, <1>4, NothingTyped DEF StaleTimers
    <2>2. run \in Runs BY <1>2, <1>4, WorldTyped DEF Runs
    <2> QED BY <2>1, <2>2
  <1>6. RunsFor(m, n, u, run, timer)
    <2>1. GetOrCreate(m.state[u]) \in States /\ GetOrCreate(m.state[u]).exists
      BY <1>1, GetOrCreateTyped DEF GetOrCreate, NoState
    <2>2. nst.inFlight /\ nst.exists /\ nst.staleTimer = id BY <2>1 DEF States
    <2>3. /\ run.uri = u /\ run.session = session[u] /\ run.text = text[u] /\ ~run.orphan
          /\ timer.uri = u /\ ~timer.orphan /\ timer.run = id
      OBVIOUS
    <2> HIDE DEF nst, run, timer, id
    <2>4. /\ n.runs = Append(m.runs, run) /\ n.staleTimers = m.staleTimers \cup {timer}
          /\ n.shown = m.shown /\ n.state = [m.state EXCEPT ![u] = nst]
      BY <1>1 DEF Managers
    <2> HIDE DEF n
    <2>5. n.state[u] = nst /\ \A d \in Docs : d # u => n.state[d] = m.state[d]
      BY <1>1, <2>4 DEF Managers
    <2> QED BY <2>2, <2>3, <2>4, <2>5 DEF RunsFor
  <1>7. CASE disposed \/ u \notin open BY <1>7 DEF RunDiagnose
  <1>8. CASE ~(disposed \/ u \notin open) /\ m.cache[u].text = text[u]
    <2>1. RunDiagnose(m, u) = Publish(m, u, s, cached) BY <1>8 DEF RunDiagnose
    <2>2. cached.parse = text[u] /\ cached.notice = "none" OBVIOUS
    <2> QED BY <1>3, <1>8, <2>1, <2>2
  <1>9. CASE ~(disposed \/ u \notin open) /\ m.cache[u].text # text[u] /\ text[u] \in RoxenTexts
    <2>1. RunDiagnose(m, u) = Publish(m, u, s, unchecked) BY <1>9 DEF RunDiagnose
    <2>2. unchecked.parse = text[u] /\ unchecked.notice = "none" OBVIOUS
    <2> QED BY <1>3, <1>9, <2>1, <2>2
  <1>10. CASE ~(disposed \/ u \notin open) /\ m.cache[u].text # text[u]
                /\ text[u] \notin RoxenTexts
    <2>1. RunDiagnose(m, u) = n BY <1>1, <1>10 DEF RunDiagnose, Managers
    <2> HIDE DEF n, run, timer
    <2> QED BY <1>5, <1>6, <1>10, <2>1
  <1> QED BY <1>7, <1>8, <1>9, <1>10

\* A run is started for a document that has none that keeps its state.
LEMMA RunDiagnoseTracked ==
  ASSUME EnvOK, NEW m, Good(m, open), Tracked(m), Noticed(m, open), NEW u \in Docs,
         FreshRun(m) # {}, ~m.state[u].inFlight
  PROVE  LET n == RunDiagnose(m, u) IN Tracked(n) /\ Noticed(n, open)
  <1> DEFINE n == RunDiagnose(m, u)
  <1>1. m \in Managers BY DEF Good
  <1>2. CASE n = m BY <1>2
  <1>3. ASSUME NEW what \in Shown, what.notice = "none", n = Publish(m, u, session[u], what)
        PROVE  Tracked(n) /\ Noticed(n, open)
    <2>1. Keeps(m, Publish(m, u, session[u], what)) BY <1>1, <1>3, PublishKeeps
    <2> QED BY <1>1, <1>3, <2>1, KeepsTracked, KeepsNoticed
  <1>4. ASSUME NEW run \in Runs, NEW t \in StaleTimers, u \in open, RunsFor(m, n, u, run, t)
        PROVE  Tracked(n) /\ Noticed(n, open)
    <2> HIDE DEF n
    <2>1. m.runs \in Seq(Runs) BY <1>1 DEF Managers
    <2>2. Len(m.runs) \in Nat /\ DOMAIN m.runs = 1..Len(m.runs) BY <2>1
    <2>3. /\ DOMAIN n.runs = 1..Len(m.runs) + 1
          /\ \A k \in DOMAIN m.runs : n.runs[k] = m.runs[k]
          /\ n.runs[Len(m.runs) + 1] = run
      <3>1. n.runs = Append(m.runs, run) BY <1>4 DEF RunsFor
      <3> QED BY <2>1, <3>1
    <2>4. \A k \in DOMAIN n.runs : k \in DOMAIN m.runs \/ k = Len(m.runs) + 1
      BY <2>2, <2>3
    <2>5. DOMAIN m.runs \subseteq DOMAIN n.runs /\ Len(m.runs) + 1 \in DOMAIN n.runs
      BY <2>2, <2>3
    <2>6. \A k \in DOMAIN m.runs : ~m.runs[k].orphan => m.runs[k].uri # u
      BY DEF Tracked, Running
    <2>7. run.uri = u /\ run.session = session[u] /\ ~run.orphan BY <1>4 DEF RunsFor
    <2>8. \A k, l \in DOMAIN n.runs :
            ~n.runs[k].orphan /\ ~n.runs[l].orphan /\ n.runs[k].uri = n.runs[l].uri => k = l
      BY <2>3, <2>4, <2>6, <2>7 DEF Tracked
    <2>9. \A d \in Docs : n.state[d].inFlight => n.state[d].exists
      BY <1>4 DEF RunsFor, Tracked
    <2>10. ASSUME NEW d \in Docs PROVE n.state[d].inFlight <=> Running(n, d)
      <3>1. CASE d = u BY <1>4, <2>3, <2>5, <2>7, <3>1 DEF RunsFor, Running
      <3>2. CASE d # u
        <4>1. Running(n, d) <=> Running(m, d) BY <2>3, <2>4, <2>5, <2>7, <3>2 DEF Running
        <4>2. n.state[d] = m.state[d] BY <1>4, <3>2 DEF RunsFor
        <4> QED BY <4>1, <4>2 DEF Tracked
      <3> QED BY <3>1, <3>2
    <2>11. ASSUME NEW a \in n.staleTimers
           PROVE  ~a.orphan /\ a.run = n.state[a.uri].staleTimer /\ n.state[a.uri].inFlight
      <3>1. a \in m.staleTimers \/ a = t BY <1>4 DEF RunsFor
      <3>2. CASE a = t BY <1>4, <3>2 DEF RunsFor
      <3>3. CASE a \in m.staleTimers
        <4>1. a.uri \in Docs BY <1>1, <3>3 DEF Managers, StaleTimers
        <4>2. a.uri # u BY <3>3 DEF Tracked
        <4>3. n.state[a.uri] = m.state[a.uri] BY <1>4, <4>1, <4>2 DEF RunsFor
        <4> QED BY <3>3, <4>3 DEF Tracked
      <3> QED BY <3>1, <3>2, <3>3
    <2>12. Tracked(n) BY <2>8, <2>9, <2>10, <2>11 DEF Tracked
    <2>13. Noticed(n, open)
      <3> SUFFICES ASSUME ~disposed
                   PROVE  /\ \A k \in DOMAIN n.runs : ~n.runs[k].orphan =>
                               n.runs[k].uri \in open
                                 /\ n.runs[k].session = session[n.runs[k].uri]
                          /\ \A d \in Docs : n.shown[d].notice = "stale" =>
                               \E k \in DOMAIN n.runs : n.runs[k].uri = d
                                 /\ n.runs[k].session = session[d]
        BY DEF Noticed
      <3>1. \A k \in DOMAIN n.runs : ~n.runs[k].orphan =>
              n.runs[k].uri \in open /\ n.runs[k].session = session[n.runs[k].uri]
        BY <1>4, <2>3, <2>4, <2>7 DEF Noticed
      <3>2. n.shown = m.shown BY <1>4 DEF RunsFor
      <3>3. \A d \in Docs : n.shown[d].notice = "stale" =>
              \E k \in DOMAIN m.runs : m.runs[k].uri = d /\ m.runs[k].session = session[d]
        BY <3>2 DEF Noticed
      <3> QED BY <2>3, <2>5, <3>1, <3>3
    <2> QED BY <2>12, <2>13
  <1>5. \/ n = m
        \/ \E what \in Shown : /\ what.notice = "none"
                               /\ n = Publish(m, u, session[u], what)
        \/ /\ u \in open
           /\ \E run \in Runs, t \in StaleTimers : RunsFor(m, n, u, run, t)
    BY RunDiagnoseCases
  <1> HIDE DEF n
  <1> QED BY <1>2, <1>3, <1>4, <1>5 DEF n

\* The run taken out leaves the others; a state it kept is no longer in flight.
LEMMA FinishShape ==
  ASSUME NEW m \in Managers, NEW k \in DOMAIN m.runs
  PROVE  LET n == Finish(m, k) IN
         /\ n.staleTimers = m.staleTimers /\ n.shown = m.shown
         /\ \A i \in DOMAIN n.runs :
              /\ Was(i, k) \in DOMAIN m.runs /\ Was(i, k) # k
              /\ n.runs[i] = m.runs[Was(i, k)]
         /\ \A j \in DOMAIN m.runs : j # k =>
              \E i \in DOMAIN n.runs : n.runs[i] = m.runs[j]
         /\ \A d \in Docs :
              /\ ~m.runs[k].orphan /\ d = m.runs[k].uri => ~n.state[d].inFlight
              /\ m.runs[k].orphan \/ d # m.runs[k].uri => n.state[d] = m.state[d]
              /\ n.state[d].exists = m.state[d].exists
              /\ n.state[d].timer = m.state[d].timer
              /\ n.state[d].version = m.state[d].version
  <1> DEFINE r == m.runs[k]
             st == m.state[r.uri]
             nst == IF r.orphan THEN st
                    ELSE [st EXCEPT !.inFlight = FALSE, !.propagationChain = {}]
             R == SubSeq(m.runs, 1, k - 1) \o SubSeq(m.runs, k + 1, Len(m.runs))
             n == [m EXCEPT !.runs = R, !.state[r.uri] = nst]
  <1>1. m.runs \in Seq(Runs) /\ k \in 1..Len(m.runs) /\ Len(m.runs) \in Nat
    BY DEF Managers
  <1>2. r.uri \in Docs
    <2>1. m.runs[k] \in Runs BY <1>1
    <2> QED BY <2>1 DEF Runs
  <1>3. st \in States BY <1>2 DEF Managers
  <1>4. /\ ~r.orphan => ~nst.inFlight
        /\ r.orphan => nst = st
        /\ nst.exists = st.exists /\ nst.timer = st.timer /\ nst.version = st.version
    BY <1>3 DEF States
  <1>5. /\ DOMAIN R = 1..Len(m.runs) - 1
        /\ \A i \in DOMAIN R : Was(i, k) \in DOMAIN m.runs /\ R[i] = m.runs[Was(i, k)]
    BY <1>1, WithoutTyped
  <1>5a. \A i \in DOMAIN R : Was(i, k) # k
    <2> HIDE DEF R
    <2> QED BY <1>1, <1>5 DEF Was
  <1>6. Finish(m, k) = n BY DEF Finish, Managers
  <1> HIDE DEF R, nst, r
  <1>7. ASSUME NEW j \in DOMAIN m.runs, j # k
        PROVE  \E i \in DOMAIN R : R[i] = m.runs[j]
    <2>1. j \in 1..Len(m.runs) BY <1>1
    <2>2. CASE j < k
      <3>1. j \in DOMAIN R /\ Was(j, k) = j BY <1>1, <1>5, <2>1, <2>2 DEF Was
      <3> QED BY <1>5, <3>1
    <2>3. CASE j > k
      <3>1. j - 1 \in DOMAIN R /\ Was(j - 1, k) = j BY <1>1, <1>5, <2>1, <2>3 DEF Was
      <3> QED BY <1>5, <3>1
    <2> QED BY <1>1, <1>7, <2>1, <2>2, <2>3
  <1>8. /\ n.runs = R /\ n.staleTimers = m.staleTimers /\ n.shown = m.shown
        /\ n.state = [m.state EXCEPT ![r.uri] = nst]
    BY DEF Managers
  <1> HIDE DEF n
  <1>9. n.state[r.uri] = nst /\ \A d \in Docs : d # r.uri => n.state[d] = m.state[d]
    BY <1>2, <1>8 DEF Managers
  <1>10. r = m.runs[k] BY DEF r
  <1>11. ASSUME NEW d \in Docs
         PROVE  /\ ~r.orphan /\ d = r.uri => ~n.state[d].inFlight
                /\ r.orphan \/ d # r.uri => n.state[d] = m.state[d]
                /\ n.state[d].exists = m.state[d].exists
                /\ n.state[d].timer = m.state[d].timer
                /\ n.state[d].version = m.state[d].version
    BY <1>4, <1>9
  <1> QED BY <1>5, <1>5a, <1>6, <1>7, <1>8, <1>10, <1>11

\* A run that ends with its stale timer cleared.
LEMMA FinishTracked ==
  ASSUME NEW m \in Managers, Tracked(m), NEW k \in DOMAIN m.runs,
         ~m.runs[k].orphan => \A t \in m.staleTimers : t.uri # m.runs[k].uri
  PROVE  Tracked(Finish(m, k))
  <1> DEFINE r == m.runs[k]
             n == Finish(m, k)
  <1>1. /\ n.staleTimers = m.staleTimers
        /\ \A i \in DOMAIN n.runs :
             Was(i, k) \in DOMAIN m.runs /\ n.runs[i] = m.runs[Was(i, k)]
        /\ \A j \in DOMAIN m.runs : j # k =>
             \E i \in DOMAIN n.runs : n.runs[i] = m.runs[j]
        /\ \A d \in Docs :
             /\ ~r.orphan /\ d = r.uri => ~n.state[d].inFlight
             /\ r.orphan \/ d # r.uri => n.state[d] = m.state[d]
             /\ n.state[d].exists = m.state[d].exists
    BY FinishShape
  <1>2. m.runs \in Seq(Runs) /\ DOMAIN m.runs = 1..Len(m.runs) /\ Len(m.runs) \in Nat
          /\ k \in Nat
    <2>1. m.runs \in Seq(Runs) BY DEF Managers
    <2> QED BY <2>1
  <1>3. DOMAIN n.runs = 1..Len(m.runs) - 1
    <2>1. Finish(m, k).runs = SubSeq(m.runs, 1, k - 1) \o SubSeq(m.runs, k + 1, Len(m.runs))
      BY DEF Finish, Managers
    <2>2. DOMAIN (SubSeq(m.runs, 1, k - 1) \o SubSeq(m.runs, k + 1, Len(m.runs)))
            = 1..Len(m.runs) - 1
      BY <1>2, WithoutTyped
    <2> QED BY <2>1, <2>2
  <1> HIDE DEF n
  <1>4. \A i, j \in DOMAIN n.runs : Was(i, k) # k /\ (Was(i, k) = Was(j, k) => i = j)
    BY <1>2, <1>3 DEF Was
  <1>5. \A i, j \in DOMAIN n.runs :
          ~n.runs[i].orphan /\ ~n.runs[j].orphan /\ n.runs[i].uri = n.runs[j].uri => i = j
    BY <1>1, <1>4 DEF Tracked
  <1>6. ASSUME NEW d \in Docs PROVE n.state[d].inFlight <=> Running(n, d)
    <2>1. CASE ~r.orphan /\ d = r.uri
      <3>1. ~n.state[d].inFlight BY <1>1, <2>1
      <3>2. ASSUME Running(n, d) PROVE FALSE
        <4>1. PICK i \in DOMAIN n.runs : n.runs[i].uri = d /\ ~n.runs[i].orphan
          BY <3>2 DEF Running
        <4>2. Was(i, k) \in DOMAIN m.runs /\ n.runs[i] = m.runs[Was(i, k)] /\ Was(i, k) # k
          BY <1>1, <1>4
        <4> QED BY <2>1, <4>1, <4>2 DEF Tracked
      <3> QED BY <3>1, <3>2
    <2>2. CASE r.orphan \/ d # r.uri
      <3>1. n.state[d] = m.state[d] BY <1>1, <2>2
      <3>2. Running(n, d) => Running(m, d) BY <1>1 DEF Running
      <3>3. ASSUME Running(m, d) PROVE Running(n, d)
        <4>1. PICK j \in DOMAIN m.runs : m.runs[j].uri = d /\ ~m.runs[j].orphan
          BY <3>3 DEF Running
        <4>2. j # k BY <2>2, <4>1
        <4>3. PICK i \in DOMAIN n.runs : n.runs[i] = m.runs[j] BY <1>1, <4>2
        <4> QED BY <4>1, <4>3 DEF Running
      <3> QED BY <3>1, <3>2, <3>3 DEF Tracked
    <2> QED BY <2>1, <2>2
  <1>7. ASSUME NEW t \in n.staleTimers
        PROVE  ~t.orphan /\ t.run = n.state[t.uri].staleTimer /\ n.state[t.uri].inFlight
    <2>1. t \in m.staleTimers /\ t.uri \in Docs BY <1>1 DEF Managers, StaleTimers
    <2>2. n.state[t.uri] = m.state[t.uri] BY <1>1, <2>1
    <2> QED BY <2>1, <2>2 DEF Tracked
  <1>8. \A d \in Docs : n.state[d].inFlight => n.state[d].exists
    BY <1>1 DEF Tracked
  <1> QED BY <1>5, <1>6, <1>7, <1>8 DEF Tracked, n

\* A run may end once its notice, if it was its own, is gone.
LEMMA FinishNoticed ==
  ASSUME NEW m \in Managers, NEW S, Noticed(m, S), NEW k \in DOMAIN m.runs,
         ~disposed /\ m.runs[k].session = session[m.runs[k].uri]
           => m.shown[m.runs[k].uri].notice # "stale"
  PROVE  Noticed(Finish(m, k), S)
  <1> DEFINE r == m.runs[k]
             n == Finish(m, k)
  <1>1. /\ n.shown = m.shown
        /\ \A i \in DOMAIN n.runs :
             Was(i, k) \in DOMAIN m.runs /\ n.runs[i] = m.runs[Was(i, k)]
        /\ \A j \in DOMAIN m.runs : j # k =>
             \E i \in DOMAIN n.runs : n.runs[i] = m.runs[j]
    BY FinishShape
  <1> HIDE DEF n
  <1> SUFFICES ASSUME ~disposed
               PROVE  /\ \A i \in DOMAIN n.runs : ~n.runs[i].orphan =>
                           n.runs[i].uri \in S /\ n.runs[i].session = session[n.runs[i].uri]
                      /\ \A u \in Docs : n.shown[u].notice = "stale" =>
                           \E i \in DOMAIN n.runs : n.runs[i].uri = u
                             /\ n.runs[i].session = session[u]
    BY DEF Noticed, n
  <1>2. \A i \in DOMAIN n.runs : ~n.runs[i].orphan =>
          n.runs[i].uri \in S /\ n.runs[i].session = session[n.runs[i].uri]
    BY <1>1 DEF Noticed
  <1>3. ASSUME NEW u \in Docs, n.shown[u].notice = "stale"
        PROVE  \E i \in DOMAIN n.runs : n.runs[i].uri = u /\ n.runs[i].session = session[u]
    <2>1. PICK j \in DOMAIN m.runs : m.runs[j].uri = u /\ m.runs[j].session = session[u]
      BY <1>1, <1>3 DEF Noticed
    <2>2. j # k BY <1>1, <1>3, <2>1
    <2>3. PICK i \in DOMAIN n.runs : n.runs[i] = m.runs[j] BY <1>1, <2>2
    <2> QED BY <2>1, <2>3
  <1> QED BY <1>2, <1>3

-------------------------------------------------------------------------------
(* Each handler keeps notices honest, wherever saves are left aside: a save    *)
(* starts a run beside one that is under way.                                  *)

LEMMA NoticeBecome ==
  ASSUME NEW n, Become(n), Tracked(n), Noticed(n, open'), UNCHANGED session,
         disposed => disposed'
  PROVE  NoticeInv'
  <1>1. /\ state' = n.state /\ staleTimers' = n.staleTimers /\ runs' = n.runs
        /\ shown' = n.shown
    BY DEF Become
  <1>2. Tracked(Here)' BY <1>1 DEF Tracked, Running, Here
  <1>3. Noticed(Here, open)' BY <1>1 DEF Noticed, Here
  <1> QED BY <1>2, <1>3 DEF NoticeInv

LEMMA NoticeHere ==
  ASSUME IInv, NoticeInv
  PROVE  EnvOK /\ Good(Here, open) /\ Here \in Managers /\ Tracked(Here) /\ Noticed(Here, open)
  BY DEF IInv, Good, NoticeInv

\* What leaves runs and notices alone, in a step that opens and closes nothing.
LEMMA KeepsStep ==
  ASSUME IInv, NoticeInv, NEW n, Become(n), Keeps(Here, n), UNCHANGED <<session, open>>,
         disposed => disposed'
  PROVE  NoticeInv'
  <1>1. Tracked(n) /\ Noticed(n, open) BY NoticeHere, KeepsTracked, KeepsNoticed
  <1> QED BY <1>1, NoticeBecome

LEMMA NoticeOpen ==
  ASSUME IInv, NoticeInv, NEW u \in Docs, NEW t \in Texts, Open(u, t)
  PROVE  NoticeInv'
  <1>1. /\ open' = open \cup {u} /\ u \notin open /\ disposed' = disposed
        /\ UNCHANGED <<state, staleTimers, runs, cache, shown>>
        /\ \A d \in Docs : d # u => session'[d] = session[d]
    BY NoticeHere DEF Open, manager, EnvOK
  <1>2. Here' = Here BY <1>1 DEF Here
  <1>3. Tracked(Here)' BY <1>2, NoticeHere DEF Tracked, Running
  <1>4. ~disposed => shown[u].notice = "none"
    <2>1. ~disposed => Here.shown[u] = Nothing BY <1>1, NoticeHere DEF Good, Clean
    <2> QED BY <2>1 DEF Here, Nothing
  <1>5. \A k \in DOMAIN runs : runs[k].uri \in Docs
    <2>1. runs \in Seq(Runs) BY NoticeHere DEF Managers, Here
    <2>2. \A k \in DOMAIN runs : runs[k] \in Runs BY <2>1
    <2> QED BY <2>2 DEF Runs
  <1>6. Noticed(Here, open) BY NoticeHere
  <1>7. Here.runs = runs /\ Here.shown = shown BY DEF Here
  <1>8. Noticed(Here, open)'
    <2> SUFFICES ASSUME ~disposed
                 PROVE  /\ \A k \in DOMAIN runs : ~runs[k].orphan =>
                             runs[k].uri \in open' /\ runs[k].session = session'[runs[k].uri]
                        /\ \A d \in Docs : shown[d].notice = "stale" =>
                             \E k \in DOMAIN runs : runs[k].uri = d
                               /\ runs[k].session = session'[d]
      BY <1>1, <1>2, <1>7 DEF Noticed
    <2>1. \A k \in DOMAIN runs : ~runs[k].orphan =>
            runs[k].uri \in open /\ runs[k].session = session[runs[k].uri]
      BY <1>6, <1>7 DEF Noticed
    <2>2. \A d \in Docs : shown[d].notice = "stale" =>
            \E k \in DOMAIN runs : runs[k].uri = d /\ runs[k].session = session[d]
      BY <1>6, <1>7 DEF Noticed
    <2>3. \A d \in Docs : shown[d].notice = "stale" => d # u BY <1>4
    <2> QED BY <1>1, <1>5, <2>1, <2>2, <2>3
  <1> QED BY <1>3, <1>8 DEF NoticeInv

\* The editor's and the index's own steps.
LEMMA NoticeFrame ==
  ASSUME NoticeInv, UNCHANGED <<manager, session, open, disposed>>
  PROVE  NoticeInv'
  BY DEF NoticeInv, Tracked, Running, Noticed, Here, manager

LEMMA NoticeChange ==
  ASSUME IInv, NoticeInv, NEW u \in Docs, ContentHandled(u) \/ IndexRefresh(u)
  PROVE  NoticeInv'
  <1>1. Keeps(Here, OnDidChange(Here, u)) BY NoticeHere, OnDidChangeKeeps
  <1>2. Become(OnDidChange(Here, u)) /\ UNCHANGED <<session, open, disposed>>
    BY DEF ContentHandled, IndexRefresh, env, editor
  <1> QED BY <1>1, <1>2, KeepsStep

\* A closed document's run is left an orphan and its notice is cleared.
LEMMA CloseKeepsNotices ==
  ASSUME NEW m, NEW Live, Good(m, Live), Tracked(m), Noticed(m, Live), NEW u \in Docs
  PROVE  Tracked(OnDidClose(m, u)) /\ Noticed(OnDidClose(m, u), Live \ {u})
           /\ Noticed(OnDidClose(m, u), Live)
  <1> DEFINE d == DropStates(m, {u})
             n == [d EXCEPT !.shown[u] = Nothing]
  <1>1. CASE disposed
    <2>1. OnDidClose(m, u) = m BY <1>1 DEF OnDidClose
    <2> QED BY <1>1, <2>1 DEF Noticed
  <1>2. CASE ~disposed
    <2>1. m \in Managers /\ Good(d, Live) /\ d.shown = m.shown
      BY DropStatesGood DEF Good
    <2>2. d \in Managers BY <2>1 DEF Good
    <2>3. /\ Tracked(d) /\ DOMAIN d.runs = DOMAIN m.runs
          /\ \A k \in DOMAIN m.runs :
               /\ d.runs[k].uri = m.runs[k].uri /\ d.runs[k].session = m.runs[k].session
               /\ d.runs[k].orphan <=> m.runs[k].orphan \/ m.runs[k].uri = u
      BY <2>1, DropStatesTracked
    <2>4. OnDidClose(m, u) = n BY <1>2 DEF OnDidClose
    <2> HIDE DEF d
    <2>5. /\ n.runs = d.runs /\ n.staleTimers = d.staleTimers /\ n.state = d.state
          /\ n.shown = [d.shown EXCEPT ![u] = Nothing]
      BY <2>2 DEF Managers
    <2> HIDE DEF n
    <2>6. Tracked(n) BY <2>3, <2>5 DEF Tracked, Running
    <2>7. \A e \in Docs : n.shown[e].notice = "stale" => m.shown[e].notice = "stale"
      BY <2>1, <2>2, <2>5 DEF Nothing, Managers
    <2>8. Noticed(n, Live \ {u}) /\ Noticed(n, Live)
      BY <2>3, <2>5, <2>7 DEF Noticed
    <2> QED BY <2>4, <2>6, <2>8
  <1> QED BY <1>1, <1>2

LEMMA NoticeClose ==
  ASSUME IInv, NoticeInv, NEW u \in Docs, Close(u)
  PROVE  NoticeInv'
  <1> DEFINE m == [Here EXCEPT !.cache[u] = NoEntry]
             n == OnDidClose(m, u)
  <1>1. Good(m, open) /\ Keeps(Here, m) BY NoticeHere, EvictGood, EvictKeeps
  <1>2. Tracked(m) /\ Noticed(m, open) BY <1>1, NoticeHere, KeepsTracked, KeepsNoticed
  <1> HIDE DEF m
  <1>3. Tracked(n) /\ Noticed(n, open \ {u}) BY <1>1, <1>2, CloseKeepsNotices
  <1>4. Become(n) /\ open' = open \ {u} /\ UNCHANGED <<session, disposed>>
    BY DEF Close, m
  <1> HIDE DEF n
  <1> QED BY <1>3, <1>4, NoticeBecome

LEMMA NoticeDebounce ==
  ASSUME IInv, NoticeInv, NEW u \in Docs, DebounceFires(u)
  PROVE  NoticeInv'
  <1> DEFINE m == ClearDebounce(Here, u)
             n == IF LiveVersion(u) # state[u].version \/ state[u].inFlight THEN m
                  ELSE RunDiagnose(m, u)
  <1>1. /\ Good(m, open) /\ FreshRun(m) # {} /\ Keeps(Here, m)
    BY NoticeHere, ClearDebounceGood, ClearDebounceKeeps DEF DebounceFires, RoomToRun
  <1>2. Tracked(m) /\ Noticed(m, open) BY <1>1, NoticeHere, KeepsTracked, KeepsNoticed
  <1>3. m.state[u].inFlight = state[u].inFlight BY <1>1 DEF Keeps, Here
  <1>4. Become(n) /\ UNCHANGED <<session, open, disposed>>
    BY DEF DebounceFires, env, editor
  <1> HIDE DEF m
  <1>5. Tracked(n) /\ Noticed(n, open)
    <2>1. CASE LiveVersion(u) # state[u].version \/ state[u].inFlight BY <1>2, <2>1
    <2>2. CASE ~(LiveVersion(u) # state[u].version \/ state[u].inFlight)
      <3>1. n = RunDiagnose(m, u) BY <2>2
      <3>2. Tracked(RunDiagnose(m, u)) /\ Noticed(RunDiagnose(m, u), open)
        BY <1>1, <1>2, <1>3, <2>2, NoticeHere, RunDiagnoseTracked
      <3> QED BY <3>1, <3>2
    <2> QED BY <2>1, <2>2
  <1> HIDE DEF n
  <1> QED BY <1>4, <1>5, NoticeBecome

\* The stale timer fires for a run that has not ended, in the session it is of.
LEMMA NoticeStale ==
  ASSUME IInv, NoticeInv, NEW t \in staleTimers, StaleFires(t)
  PROVE  NoticeInv'
  <1> DEFINE m == [Here EXCEPT !.staleTimers = @ \ {t}]
             last == IF t.orphan THEN t.last ELSE state[t.uri].lastDiagnostics
             what == [last EXCEPT !.notice = "stale"]
             n == Publish(m, t.uri, t.session, what)
  <1>1. Here \in Managers /\ Tracked(Here) /\ Noticed(Here, open) BY NoticeHere
  <1>2. /\ m \in Managers /\ m.runs = runs /\ m.shown = shown /\ m.state = state
        /\ m.staleTimers \subseteq staleTimers
    BY <1>1 DEF Managers, Here
  <1>3. t.uri \in Docs BY <1>1 DEF Managers, StaleTimers, Here
  <1>4. Running(Here, t.uri) BY <1>1, <1>3 DEF Tracked, Here
  <1>5. Become(n) /\ UNCHANGED <<session, open, disposed>>
    BY DEF StaleFires, env, editor
  <1>6. \A a \in m.staleTimers : a.uri \in Docs
    BY <1>2 DEF Managers, StaleTimers
  <1> HIDE DEF m, what
  <1>7. /\ n.runs = m.runs /\ n.staleTimers = m.staleTimers
        /\ \A d \in Docs :
             /\ n.state[d].inFlight = m.state[d].inFlight
             /\ n.state[d].exists = m.state[d].exists
             /\ n.state[d].staleTimer = m.state[d].staleTimer
             /\ d # t.uri => n.shown[d] = m.shown[d]
    BY <1>2, <1>3, PublishShape
  <1> HIDE DEF n
  <1>8. Tracked(n)
    <2>1. \A d \in Docs : Running(n, d) <=> Running(Here, d)
      BY <1>2, <1>7 DEF Running, Here
    <2>2. \A a \in n.staleTimers :
            ~a.orphan /\ a.run = n.state[a.uri].staleTimer /\ n.state[a.uri].inFlight
      BY <1>1, <1>2, <1>6, <1>7 DEF Tracked, Here
    <2> QED BY <1>1, <1>2, <1>7, <2>1, <2>2 DEF Tracked, Here
  <1>9. Noticed(n, open)
    <2> SUFFICES ASSUME ~disposed
                 PROVE  /\ \A k \in DOMAIN n.runs : ~n.runs[k].orphan =>
                             n.runs[k].uri \in open
                               /\ n.runs[k].session = session[n.runs[k].uri]
                        /\ \A u \in Docs : n.shown[u].notice = "stale" =>
                             \E k \in DOMAIN n.runs : n.runs[k].uri = u
                               /\ n.runs[k].session = session[u]
      BY DEF Noticed
    <2>1. n.runs = Here.runs /\ \A d \in Docs : d # t.uri => n.shown[d] = Here.shown[d]
      BY <1>2, <1>7 DEF Here
    <2>2. \A k \in DOMAIN n.runs : ~n.runs[k].orphan =>
            n.runs[k].uri \in open /\ n.runs[k].session = session[n.runs[k].uri]
      BY <1>1, <2>1 DEF Noticed
    <2>3. \E k \in DOMAIN n.runs : n.runs[k].uri = t.uri /\ n.runs[k].session = session[t.uri]
      BY <1>4, <2>1, <2>2 DEF Running
    <2>4. \A u \in Docs : u # t.uri /\ n.shown[u].notice = "stale" =>
            \E k \in DOMAIN n.runs : n.runs[k].uri = u /\ n.runs[k].session = session[u]
      BY <1>1, <2>1 DEF Noticed
    <2> QED BY <2>2, <2>3, <2>4
  <1> QED BY <1>5, <1>8, <1>9, NoticeBecome

\* A run that ends of the document's session replaces its notice.
LEMMA EndKeepsNotices ==
  ASSUME EnvOK, NEW m, Good(m, open), Tracked(m), Noticed(m, open),
         NEW k \in DOMAIN m.runs,
         ~m.runs[k].orphan => \A t \in m.staleTimers : t.uri # m.runs[k].uri,
         NEW what, what.notice # "stale",
         NEW n \in Managers, Keeps(Publish(m, m.runs[k].uri, m.runs[k].session, what), n)
  PROVE  Tracked(Finish(n, k)) /\ Noticed(Finish(n, k), open)
  <1> DEFINE r == m.runs[k]
             q == Publish(m, r.uri, r.session, what)
  <1>1. m \in Managers BY DEF Good
  <1>2. r.uri \in Docs
    <2>1. m.runs \in Seq(Runs) BY <1>1 DEF Managers
    <2>2. m.runs[k] \in Runs BY <2>1
    <2> QED BY <2>2 DEF Runs
  <1>3. Keeps(m, q) BY <1>1, <1>2, PublishKeeps
  <1>4. Keeps(m, n) BY <1>3, KeepsTrans
  <1>5. Tracked(n) /\ Noticed(n, open) BY <1>1, <1>4, KeepsTracked, KeepsNoticed
  <1>6. n.runs = m.runs /\ n.staleTimers = m.staleTimers BY <1>4 DEF Keeps
  <1>7. ~disposed /\ r.session = session[r.uri] => n.shown[r.uri].notice # "stale"
    <2> SUFFICES ASSUME ~disposed, r.session = session[r.uri],
                        n.shown[r.uri].notice = "stale"
                 PROVE  FALSE
      OBVIOUS
    <2>1. q.shown[r.uri].notice = "stale" BY <1>2 DEF Keeps
    <2>2. CASE r.uri \in open
      <3>1. MayPublish(r.uri, r.session) BY <2>2 DEF MayPublish, LiveVersion
      <3>2. q.shown[r.uri] = what BY <1>1, <1>2, <3>1, PublishShape
      <3> QED BY <2>1, <3>2
    <2>3. CASE r.uri \notin open
      <3>1. m.shown[r.uri] = Nothing BY <1>2, <2>3 DEF Good, Clean
      <3>2. q.shown[r.uri] = m.shown[r.uri]
        BY <1>1, <1>2, <2>3, PublishShape DEF MayPublish
      <3> QED BY <2>1, <3>1, <3>2 DEF Nothing
    <2> QED BY <2>2, <2>3
  <1>8. Tracked(Finish(n, k)) BY <1>5, <1>6, FinishTracked
  <1>9. Noticed(Finish(n, k), open) BY <1>5, <1>6, <1>7, FinishNoticed
  <1> QED BY <1>8, <1>9

LEMMA NoticeFail ==
  ASSUME IInv, NoticeInv, NEW k \in DOMAIN runs, NEW notice \in {"none", "timeout"},
         Fail(k, notice)
  PROVE  NoticeInv'
  <1> DEFINE r == runs[k]
             what == [parse |-> r.text, pike |-> NoVerdict, notice |-> notice]
             m == ClearStale(Here, r)
             p == Publish(m, r.uri, r.session, what)
             n == Finish(p, k)
  <1>1. r \in Runs
    <2>1. runs \in Seq(Runs) BY NoticeHere DEF Managers, Here
    <2> QED BY <2>1
  <1>2. r.uri \in Docs /\ what \in Shown /\ what.notice # "stale"
    BY <1>1, NothingTyped DEF Runs, Shown
  <1>3. Become(n) /\ UNCHANGED <<session, open, disposed>> BY DEF Fail, env, editor
  <1>4. k \in DOMAIN runs /\ r = runs[k] OBVIOUS
  <1> HIDE DEF r, what
  <1>5. /\ Good(m, open) /\ m.runs = runs /\ m.shown = Here.shown
        /\ Tracked(m) /\ (~r.orphan => \A t \in m.staleTimers : t.uri # r.uri)
    BY <1>1, NoticeHere, ClearStaleGood, ClearStaleTracked DEF Here
  <1>6. Noticed(m, open) BY <1>5, NoticeHere DEF Noticed, Here
  <1> HIDE DEF m
  <1>7. Good(p, open) BY <1>2, <1>5, PublishGood
  <1>8. Keeps(p, p) BY DEF Keeps
  <1>9. Tracked(Finish(p, k)) /\ Noticed(Finish(p, k), open)
    <2>1. p \in Managers BY <1>7 DEF Good
    <2>2. k \in DOMAIN m.runs /\ m.runs[k] = r BY <1>4, <1>5
    <2>3. Keeps(Publish(m, m.runs[k].uri, m.runs[k].session, what), p)
      BY <1>8, <2>2
    <2> HIDE DEF p
    <2> QED BY <1>2, <1>5, <1>6, <2>1, <2>2, <2>3, NoticeHere, EndKeepsNotices
  <1> HIDE DEF n
  <1> QED BY <1>3, <1>9, NoticeBecome DEF n

LEMMA NoticeAnswer ==
  ASSUME IInv, NoticeInv, NEW how \in {"verdict", "backoff"}, Answer(how)
  PROVE  NoticeInv'
  <1> DEFINE r == runs[1]
             v == [checked |-> how = "verdict", world |-> r.world]
             e == [text |-> r.text, verdict |-> v]
             what == [parse |-> r.text, pike |-> v, notice |-> "none"]
             c == ClearStale(Here, r)
             m == [c EXCEPT !.cache[r.uri] = e]
             p == Publish(m, r.uri, r.session, what)
             q == PropagateToDependents(p, r.uri)
             n == Finish(q, 1)
  <1>1. 1 \in DOMAIN runs /\ r \in Runs
    <2>1. runs \in Seq(Runs) BY NoticeHere DEF Managers, Here
    <2> QED BY <2>1 DEF Answer
  <1>2. r.uri \in Docs /\ e \in Entries /\ what \in Shown /\ what.notice # "stale"
    BY <1>1 DEF Runs, Shown, Entries, Verdicts
  <1>3. e.verdict.world[r.uri] = e.text BY <1>1, NoticeHere DEF Good, Filed, Here
  <1>4. Become(n) /\ UNCHANGED <<session, open, disposed>> BY DEF Answer, env, editor
  <1>5. r = runs[1] OBVIOUS
  <1> HIDE DEF r, v, what
  <1>6. /\ Good(c, open) /\ c.runs = runs /\ c.shown = Here.shown
        /\ Tracked(c) /\ (~r.orphan => \A t \in c.staleTimers : t.uri # r.uri)
    BY <1>1, NoticeHere, ClearStaleGood, ClearStaleTracked DEF Here
  <1>7. Noticed(c, open) BY <1>6, NoticeHere DEF Noticed, Here
  <1> HIDE DEF c
  <1>8. /\ Good(m, open) /\ m.runs = runs /\ m.staleTimers = c.staleTimers
        /\ Tracked(m) /\ Noticed(m, open)
    <2>1. c \in Managers BY <1>6 DEF Good
    <2> HIDE DEF e
    <2>2. m \in Managers /\ m.runs = runs /\ m.shown = c.shown /\ m.state = c.state
            /\ m.staleTimers = c.staleTimers /\ m.cache = [c.cache EXCEPT ![r.uri] = e]
      BY <1>2, <1>6, <2>1 DEF Managers
    <2>3. Filed(m) BY <1>3, <1>6, <2>1, <2>2 DEF Good, Filed, Managers
    <2>4. Keeps(c, m) BY <1>6, <2>2 DEF Keeps
    <2> QED BY <1>6, <1>7, <2>1, <2>2, <2>3, <2>4, KeepsTracked, KeepsNoticed
          DEF Good, Clean
  <1> HIDE DEF m
  <1>9. Good(p, open) /\ Keeps(m, p)
    <2>1. m \in Managers BY <1>8 DEF Good
    <2> QED BY <1>2, <1>8, <2>1, PublishGood, PublishKeeps
  <1>10. Tracked(p)
    <2>1. m \in Managers BY <1>8 DEF Good
    <2> QED BY <1>8, <1>9, <2>1, KeepsTracked
  <1>11. Good(q, open) /\ Keeps(p, q)
    BY <1>2, <1>9, <1>10, NoticeHere, PropagateGood, PropagateKeeps
  <1>12. Tracked(Finish(q, 1)) /\ Noticed(Finish(q, 1), open)
    <2>1. q \in Managers BY <1>11 DEF Good
    <2>2. 1 \in DOMAIN m.runs /\ m.runs[1] = r BY <1>1, <1>5, <1>8
    <2>3. Keeps(Publish(m, m.runs[1].uri, m.runs[1].session, what), q)
      BY <1>11, <2>2
    <2>4. ~m.runs[1].orphan => \A t \in m.staleTimers : t.uri # m.runs[1].uri
      BY <1>6, <1>8, <2>2
    <2> HIDE DEF q, p
    <2> QED BY <1>2, <1>8, <2>1, <2>2, <2>3, <2>4, NoticeHere, EndKeepsNotices
  <1> HIDE DEF n
  <1> QED BY <1>4, <1>12, NoticeBecome DEF n

\* Without their states the runs go on and publish what they find.
LEMMA NoticeDrop ==
  ASSUME IInv, NoticeInv, (\E m \in Modes : SetDiagnosticMode(m)) \/ Dispose
  PROVE  NoticeInv'
  <1> DEFINE n == DropStates(Here, Docs)
  <1>1. /\ Tracked(n) /\ DOMAIN n.runs = DOMAIN runs /\ n.shown = shown
        /\ \A k \in DOMAIN runs :
             n.runs[k].uri = runs[k].uri /\ n.runs[k].session = runs[k].session
               /\ (n.runs[k].orphan <=> runs[k].orphan \/ runs[k].uri \in Docs)
    BY NoticeHere, DropStatesTracked, DropStatesGood DEF Here
  <1>2. \A k \in DOMAIN runs : runs[k].uri \in Docs
    <2>1. runs \in Seq(Runs) BY NoticeHere DEF Managers, Here
    <2>2. \A k \in DOMAIN runs : runs[k] \in Runs BY <2>1
    <2> QED BY <2>2 DEF Runs
  <1>3. Become(n) \/ Become(Here) BY DEF SetDiagnosticMode, Dispose
  <1>4. UNCHANGED <<session, open>> /\ (disposed => disposed')
    BY DEF SetDiagnosticMode, Dispose, editor
  <1> HIDE DEF n
  <1>5. Noticed(n, open) BY <1>1, <1>2, NoticeHere DEF Noticed, Here
  <1> QED BY <1>1, <1>3, <1>4, <1>5, NoticeHere, NoticeBecome

LEMMA NoticeFiles ==
  ASSUME IInv, NoticeInv, NEW u \in Docs,
         FileChanged(u) \/ FileReindexed(u) \/ FileDeleted(u)
  PROVE  NoticeInv'
  <1> DEFINE m == [Here EXCEPT !.cache[u] = NoEntry]
             p == OnDidClose(m, u)
             n == RefreshImporters(p, GetDependents(u))
  <1>1. Good(m, open) /\ Keeps(Here, m) BY NoticeHere, EvictGood, EvictKeeps
  <1>2. Tracked(m) /\ Noticed(m, open) BY <1>1, NoticeHere, KeepsTracked, KeepsNoticed
  <1>3. UNCHANGED <<session, open, disposed>>
    BY DEF FileChanged, FileReindexed, FileDeleted, editor
  <1>4. CASE FileChanged(u) BY <1>1, <1>3, <1>4, KeepsStep DEF FileChanged
  <1>5. CASE FileReindexed(u)
    <2>1. refreshing[u] \in SUBSET Docs BY NoticeHere DEF EnvOK
    <2>2. Keeps(Here, RefreshImporters(Here, refreshing[u]))
      BY <2>1, NoticeHere, RefreshKeeps
    <2>3. Become(RefreshImporters(Here, refreshing[u])) BY <1>5 DEF FileReindexed
    <2> QED BY <1>3, <2>2, <2>3, KeepsStep
  <1>6. CASE FileDeleted(u)
    <2>1. Become(n) BY <1>6 DEF FileDeleted
    <2> HIDE DEF m
    <2>2. Good(p, open) /\ Tracked(p) /\ Noticed(p, open)
      BY <1>1, <1>2, NoticeHere, OnDidCloseGood, CloseKeepsNotices
    <2> HIDE DEF p
    <2>3. p \in Managers /\ GetDependents(u) \in SUBSET Docs
      BY <2>2 DEF Good, GetDependents
    <2>4. Keeps(p, n) BY <2>2, <2>3, NoticeHere, RefreshKeeps
    <2> HIDE DEF n
    <2>5. Tracked(n) /\ Noticed(n, open) BY <2>2, <2>3, <2>4, KeepsTracked, KeepsNoticed
    <2> QED BY <1>3, <2>1, <2>5, NoticeBecome
  <1> QED BY <1>4, <1>5, <1>6

LEMMA NoticeNext ==
  ASSUME IInv, NoticeInv, "save" \notin Faults, [Next]_vars
  PROVE  NoticeInv'
  <1>1. ASSUME NEW u \in Docs, NEW t \in Texts, Open(u, t) \/ Edit(u, t) PROVE NoticeInv'
    BY <1>1, NoticeOpen, NoticeFrame DEF Edit
  <1>2. ASSUME NEW u \in Docs, ContentFails(u) \/ QueryBegins(u) \/ QueryEnds(u)
        PROVE  NoticeInv'
    BY <1>2, NoticeFrame DEF ContentFails, QueryBegins, QueryEnds, editor
  <1>3. ASSUME NEW u \in Docs, ContentHandled(u) \/ IndexRefresh(u) PROVE NoticeInv'
    BY <1>3, NoticeChange
  <1>4. ASSUME NEW u \in Docs, Save(u) \/ Close(u) \/ DebounceFires(u) PROVE NoticeInv'
    BY <1>4, NoticeClose, NoticeDebounce DEF Save
  <1>5. ASSUME NEW u \in Docs, FileChanged(u) \/ FileReindexed(u) \/ FileDeleted(u)
        PROVE  NoticeInv'
    BY <1>5, NoticeFiles
  <1>6. ASSUME NEW t \in staleTimers, StaleFires(t) PROVE NoticeInv'
    BY <1>6, NoticeStale
  <1>7. ASSUME NEW how \in {"verdict", "backoff"}, Answer(how) PROVE NoticeInv'
    BY <1>7, NoticeAnswer
  <1>8. ASSUME NEW k \in DOMAIN runs, NEW notice \in {"none", "timeout"}, Fail(k, notice)
        PROVE  NoticeInv'
    BY <1>8, NoticeFail
  <1>9. ASSUME NEW m \in Modes \ {mode}, SetDiagnosticMode(m) PROVE NoticeInv'
    BY <1>9, NoticeDrop
  <1>10. CASE Dispose BY <1>10, NoticeDrop
  <1>11. CASE UNCHANGED vars BY <1>11, NoticeFrame DEF vars, editor
  <1> QED BY <1>1, <1>2, <1>3, <1>4, <1>5, <1>6, <1>7, <1>8, <1>9, <1>10, <1>11 DEF Next

LEMMA InitNotice == Init => NoticeInv
  <1> SUFFICES ASSUME Init PROVE NoticeInv
    OBVIOUS
  <1>1. Tracked(Here) BY DEF Init, Tracked, Running, Here, NoState
  <1>2. Noticed(Here, open) BY DEF Init, Noticed, Here, Nothing
  <1> QED BY <1>1, <1>2 DEF NoticeInv

\* Where documents are not saved, a notice that diagnostics are being updated is
\* only shown while they are, whatever closes, mode switches, failures, slow
\* answers and watched files fall in between.
THEOREM NoticesEnd ==
  ASSUME "save" \notin Faults
  PROVE  Spec => []StaleNoticeMeansRunning
  <1>1. IInv /\ NoticeInv /\ [Next]_vars => NoticeInv' BY NoticeNext
  <1>2. Spec => []NoticeInv
    BY Inductive, InitNotice, <1>1, PTL DEF Spec
  <1>3. NoticeInv => StaleNoticeMeansRunning
    BY DEF NoticeInv, Noticed, StaleNoticeMeansRunning, InFlight, Here
  <1> QED BY <1>2, <1>3, PTL

-------------------------------------------------------------------------------
(***************************************************************************)
(* The text that is shown.  Why the editor ends up with the problems of    *)
(* the text that is in it: until then a debounce is armed for that text,   *)
(* or the one run of the document was started for it.                      *)
(***************************************************************************)
Timed(m, u) == m.state[u].timer /\ m.state[u].version = LiveVersion(u)

Shows(m, u) ==
  /\ m.shown[u].parse = text[u] \/ \E k \in DOMAIN m.runs : m.runs[k].uri = u
  /\ \A k \in DOMAIN m.runs :
       m.runs[k].uri = u => ~m.runs[k].orphan /\ m.runs[k].text = text[u]

Current(m, u) == Timed(m, u) \/ Shows(m, u)

\* A document that no change handler is still busy with is current.
CurrentInv ==
  /\ mode = "realtime" /\ \A u \in Docs : refreshing[u] = {}
  /\ ~disposed => \A u \in open : handlers[u] = 0 => Current(Here, u)

\* A method that leaves each document as it was, or arms its debounce anew.
Onward(m, n) ==
  /\ n.runs = m.runs
  /\ \A d \in Docs :
       \/ Timed(n, d)
       \/ /\ n.state[d].timer = m.state[d].timer /\ n.state[d].version = m.state[d].version
          /\ n.shown[d].parse = m.shown[d].parse

LEMMA OnwardCurrent ==
  ASSUME NEW m, NEW n, Onward(m, n), NEW u \in Docs, Current(m, u)
  PROVE  Current(n, u)
  BY DEF Onward, Current, Timed, Shows

LEMMA OnDidChangeOnward ==
  ASSUME EnvOK, NEW m, Good(m, open), Tracked(m), mode = "realtime", NEW u \in Docs
  PROVE  LET n == OnDidChange(m, u) IN
         Onward(m, n) /\ (~disposed /\ u \in open => Timed(n, u))
  <1> DEFINE what == [parse |-> text[u], pike |-> m.cache[u].verdict, notice |-> "none"]
             p == [m EXCEPT !.shown[u] = what]
             q == Schedule(p, u, {})
  <1>1. m \in Managers BY DEF Good
  <1>2. m.cache[u] \in Entries BY <1>1 DEF Managers
  <1>3. what \in Shown BY <1>2, LiveVersionTyped DEF Shown, Entries
  <1>4. CASE disposed \/ u \notin open
    <2>1. OnDidChange(m, u) = m BY <1>4 DEF OnDidChange
    <2> QED BY <1>4, <2>1 DEF Onward
  <1>5. CASE ~(disposed \/ u \notin open)
    <2>1. OnDidChange(m, u) = q BY <1>5 DEF OnDidChange
    <2> HIDE DEF what
    <2>2. p \in Managers /\ p.runs = m.runs /\ p.state = m.state
            /\ p.shown = [m.shown EXCEPT ![u] = what]
      BY <1>1, <1>3 DEF Managers
    <2> HIDE DEF p
    <2>3. p.state[u].inFlight => p.state[u].exists BY <2>2 DEF Tracked
    <2>4. /\ q.runs = p.runs /\ q.shown = p.shown
          /\ \A d \in Docs : d # u => q.state[d] = p.state[d]
          /\ q.state[u].timer /\ q.state[u].version = LiveVersion(u)
      BY <2>2, <2>3, ScheduleShape
    <2> HIDE DEF q
    <2>5. \A d \in Docs : d # u => q.shown[d] = m.shown[d]
      BY <1>1, <2>2, <2>4 DEF Managers
    <2> QED BY <2>1, <2>2, <2>4, <2>5 DEF Onward, Timed
  <1> QED BY <1>4, <1>5

LEMMA PropagateOnward ==
  ASSUME NEW m, Good(m, open), Tracked(m), NEW u \in Docs
  PROVE  Onward(m, PropagateToDependents(m, u))
  <1> DEFINE chain == m.state[u].propagationChain \cup {u}
             S == (GetDependents(u) \cap open) \ chain
             C == [d \in Docs |-> IF d \in S THEN NoEntry ELSE m.cache[d]]
             St == [d \in Docs |-> IF d \in S THEN Schedule(m, d, chain).state[d]
                                   ELSE m.state[d]]
             n == [m EXCEPT !.cache = C, !.state = St]
  <1>1. m \in Managers BY DEF Good
  <1>2. PropagateToDependents(m, u) = n BY <1>1 DEF PropagateToDependents, Managers
  <1> HIDE DEF C, chain, S
  <1>3. ASSUME NEW d \in Docs
        PROVE  (St[d].timer /\ St[d].version = LiveVersion(d)) \/ St[d] = m.state[d]
    <2>1. m.state[d].inFlight => m.state[d].exists BY DEF Tracked
    <2>2. /\ Schedule(m, d, chain).state[d].timer
          /\ Schedule(m, d, chain).state[d].version = LiveVersion(d)
      BY <1>1, <2>1, ScheduleShape
    <2> QED BY <2>2
  <1> HIDE DEF St
  <1>4. n.runs = m.runs /\ n.state = St /\ n.shown = m.shown BY <1>1 DEF Managers
  <1> HIDE DEF n
  <1> QED BY <1>2, <1>3, <1>4 DEF Onward, Timed

LEMMA ClearStaleOnward ==
  ASSUME NEW m \in Managers, NEW r \in Runs
  PROVE  Onward(m, ClearStale(m, r))
  <1> DEFINE u == r.uri
             nst == [m.state[u] EXCEPT !.staleTimer = NoRun]
             T == {t \in m.staleTimers : t.run # m.state[u].staleTimer}
             n == [m EXCEPT !.state[u] = nst, !.staleTimers = T]
  <1>1. u \in Docs BY DEF Runs
  <1>2. m.state[u] \in States BY <1>1 DEF Managers
  <1>3. nst.timer = m.state[u].timer /\ nst.version = m.state[u].version
    BY <1>2 DEF States
  <1>4. ClearStale(m, r) = IF r.orphan THEN m ELSE n BY DEF ClearStale, Managers
  <1> HIDE DEF nst, T
  <1>5. n.runs = m.runs /\ n.shown = m.shown /\ n.state = [m.state EXCEPT ![u] = nst]
    BY DEF Managers
  <1> HIDE DEF n
  <1>6. Onward(m, n) /\ Onward(m, m) BY <1>3, <1>5 DEF Onward, Managers
  <1> QED BY <1>4, <1>6

\* The run that ends showed the text it was started for, or its document has
\* been scheduled since.
LEMMA EndKeepsCurrent ==
  ASSUME NEW m, Good(m, open), Tracked(m), Noticed(m, open), ~disposed,
         NEW k \in DOMAIN m.runs, NEW what, what.parse = m.runs[k].text,
         NEW n \in Managers, Onward(Publish(m, m.runs[k].uri, m.runs[k].session, what), n),
         NEW d \in Docs, Current(m, d)
  PROVE  Current(Finish(n, k), d)
  <1> DEFINE r == m.runs[k]
             q == Publish(m, r.uri, r.session, what)
             f == Finish(n, k)
  <1>1. m \in Managers BY DEF Good
  <1>2. r.uri \in Docs
    <2>1. m.runs \in Seq(Runs) BY <1>1 DEF Managers
    <2>2. m.runs[k] \in Runs BY <2>1
    <2> QED BY <2>2 DEF Runs
  <1>3. /\ q.runs = m.runs
        /\ q.state[d].timer = m.state[d].timer /\ q.state[d].version = m.state[d].version
        /\ q.shown[d] = IF MayPublish(r.uri, r.session) /\ d = r.uri THEN what
                        ELSE m.shown[d]
    BY <1>1, <1>2, PublishShape
  <1>4. n.runs = m.runs BY <1>3 DEF Onward
  <1>5. /\ f.shown = n.shown
        /\ f.state[d].timer = n.state[d].timer /\ f.state[d].version = n.state[d].version
        /\ \A i \in DOMAIN f.runs : /\ Was(i, k) \in DOMAIN m.runs /\ Was(i, k) # k
                                    /\ f.runs[i] = m.runs[Was(i, k)]
        /\ \A j \in DOMAIN m.runs : j # k => \E i \in DOMAIN f.runs : f.runs[i] = m.runs[j]
    BY <1>4, FinishShape
  <1>6. CASE Timed(n, d) BY <1>5, <1>6 DEF Timed, Current
  <1>7. CASE ~Timed(n, d)
    <2>1. /\ n.state[d].timer = q.state[d].timer /\ n.state[d].version = q.state[d].version
          /\ n.shown[d].parse = q.shown[d].parse
      BY <1>7 DEF Onward
    <2>2. Shows(m, d) BY <1>3, <1>7, <2>1 DEF Current, Timed
    <2>3. CASE d = r.uri
      <3>1. ~r.orphan /\ r.text = text[d] BY <2>2, <2>3 DEF Shows
      <3>2. d \in open /\ r.session = session[d] BY <2>3, <3>1 DEF Noticed
      <3>3. MayPublish(r.uri, r.session) BY <2>3, <3>2 DEF MayPublish, LiveVersion
      <3>4. f.shown[d].parse = text[d] BY <1>3, <1>5, <2>1, <2>3, <3>1, <3>3
      <3>5. \A i \in DOMAIN f.runs : f.runs[i].uri # d
        BY <1>5, <2>2, <2>3, <3>1 DEF Shows, Tracked
      <3> QED BY <3>4, <3>5 DEF Shows, Current
    <2>4. CASE d # r.uri
      <3>1. f.shown[d].parse = m.shown[d].parse BY <1>3, <1>5, <2>1, <2>4
      <3>2. \A i \in DOMAIN f.runs :
              f.runs[i].uri = d => ~f.runs[i].orphan /\ f.runs[i].text = text[d]
        BY <1>5, <2>2 DEF Shows
      <3>3. (\E j \in DOMAIN m.runs : m.runs[j].uri = d)
              => \E i \in DOMAIN f.runs : f.runs[i].uri = d
        BY <1>5, <2>4
      <3> QED BY <2>2, <3>1, <3>2, <3>3 DEF Shows, Current
    <2> QED BY <2>3, <2>4
  <1> QED BY <1>6, <1>7

-------------------------------------------------------------------------------
(* Each handler, where a diagnose of a document is answered before the next    *)
(* debounce of it fires, and without the four faults that break the property. *)

Undisturbed == WorkerIsFast /\ Faults \cap {"save", "unindexed", "mode", "watch"} = {}

LEMMA CurrentBecome ==
  ASSUME CurrentInv, NEW n, Become(n), UNCHANGED <<editor, mode, disposed, refreshing>>,
         \A u \in open : ~disposed /\ handlers'[u] = 0 => Current(n, u)
  PROVE  CurrentInv'
  <1>1. state' = n.state /\ runs' = n.runs /\ shown' = n.shown BY DEF Become
  <1>2. \A u : LiveVersion(u)' = LiveVersion(u) /\ text'[u] = text[u]
    BY DEF LiveVersion, editor
  <1>3. \A u : Current(Here, u)' <=> Current(n, u)
    BY <1>1, <1>2 DEF Current, Timed, Shows, Here
  <1>4. open' = open /\ disposed' = disposed /\ mode' = mode /\ refreshing' = refreshing
    BY DEF editor
  <1> QED BY <1>3, <1>4 DEF CurrentInv

\* The other documents, and those that are not touched.
LEMMA CurrentFrame ==
  ASSUME IInv, CurrentInv, NEW u,
         UNCHANGED <<manager, mode, disposed, refreshing>>,
         open' \subseteq open \cup {u}, handlers'[u] # 0,
         \A d \in open : d # u => /\ session'[d] = session[d] /\ text'[d] = text[d]
                                  /\ version'[d] = version[d]
                                  /\ handlers'[d] = handlers[d]
  PROVE  CurrentInv'
  <1>1. state' = state /\ runs' = runs /\ shown' = shown BY DEF manager
  <1>2. ASSUME NEW d \in open, d # u PROVE Current(Here, d)' <=> Current(Here, d)
    <2>1. LiveVersion(d)' = LiveVersion(d) /\ text'[d] = text[d]
      BY <1>2 DEF LiveVersion
    <2> QED BY <1>1, <2>1 DEF Current, Timed, Shows, Here
  <1>3. ASSUME NEW d \in open', ~disposed', handlers'[d] = 0 PROVE Current(Here, d)'
    <2>1. d \in open /\ d # u BY <1>3
    <2>2. Current(Here, d) BY <1>3, <2>1 DEF CurrentInv
    <2> QED BY <1>2, <2>1, <2>2
  <1> QED BY <1>3 DEF CurrentInv

LEMMA CurrentOpenEdit ==
  ASSUME IInv, CurrentInv, NEW u \in Docs, NEW t \in Texts, Open(u, t) \/ Edit(u, t)
  PROVE  CurrentInv'
  <1>1. EnvOK /\ handlers[u] \in Nat BY DEF IInv, EnvOK
  <1>2. handlers'[u] # 0 BY <1>1 DEF Open, Edit, EnvOK
  <1>3. open' \subseteq open \cup {u} BY DEF Open, Edit
  <1>4. UNCHANGED <<manager, mode, disposed, refreshing>> BY DEF Open, Edit
  <1>5. \A d \in open : d # u => /\ session'[d] = session[d] /\ text'[d] = text[d]
                                 /\ version'[d] = version[d] /\ handlers'[d] = handlers[d]
    BY <1>1 DEF Open, Edit, EnvOK
  <1> QED BY <1>2, <1>3, <1>4, <1>5, CurrentFrame

LEMMA CurrentSame ==
  ASSUME CurrentInv, UNCHANGED <<editor, handlers, manager, mode, disposed, refreshing>>
  PROVE  CurrentInv'
  BY DEF CurrentInv, Current, Timed, Shows, Here, LiveVersion, editor, manager

\* What was current stays so, through a method that goes onward.
LEMMA CurrentOnward ==
  ASSUME CurrentInv, NEW n, Become(n), Onward(Here, n),
         UNCHANGED <<editor, mode, disposed, refreshing>>,
         \A u \in open : ~disposed /\ handlers'[u] = 0 => handlers[u] = 0 \/ Timed(n, u),
         open \subseteq Docs
  PROVE  CurrentInv'
  <1>1. ASSUME NEW u \in open, ~disposed, handlers'[u] = 0 PROVE Current(n, u)
    <2>1. CASE Timed(n, u) BY <2>1 DEF Current
    <2>2. CASE handlers[u] = 0
      <3>1. Current(Here, u) BY <1>1, <2>2 DEF CurrentInv
      <3> QED BY <3>1, OnwardCurrent
    <2> QED BY <1>1, <2>1, <2>2
  <1> QED BY <1>1, CurrentBecome

LEMMA CurrentChange ==
  ASSUME IInv, NoticeInv, CurrentInv, NEW u \in Docs, ContentHandled(u) \/ IndexRefresh(u)
  PROVE  CurrentInv'
  <1> DEFINE n == OnDidChange(Here, u)
  <1>1. Onward(Here, n) /\ (~disposed /\ u \in open => Timed(n, u))
    BY NoticeHere, OnDidChangeOnward DEF CurrentInv
  <1>2. Become(n) /\ UNCHANGED <<editor, mode, disposed, refreshing>>
    BY DEF ContentHandled, IndexRefresh, env, index
  <1>3. \A d \in open : handlers'[d] = handlers[d] \/ d = u
    BY NoticeHere DEF ContentHandled, IndexRefresh, env, EnvOK
  <1>4. open \subseteq Docs BY NoticeHere DEF EnvOK
  <1> HIDE DEF n
  <1> QED BY <1>1, <1>2, <1>3, <1>4, CurrentOnward

LEMMA CurrentClose ==
  ASSUME IInv, NoticeInv, CurrentInv, NEW u \in Docs, Close(u)
  PROVE  CurrentInv'
  <1> DEFINE m == [Here EXCEPT !.cache[u] = NoEntry]
             d == DropStates(m, {u})
             n == [d EXCEPT !.shown[u] = Nothing]
  <1>1. /\ open' = open \ {u} /\ UNCHANGED <<session, version, text, handlers, mode>>
        /\ UNCHANGED <<disposed, refreshing>> /\ Become(OnDidClose(m, u))
    BY DEF Close
  <1>2. /\ m \in Managers /\ Good(m, open) /\ Tracked(m) /\ m.runs = runs
        /\ m.state = state /\ m.shown = shown
    <2>1. Good(m, open) /\ Keeps(Here, m) BY NoticeHere, EvictGood, EvictKeeps
    <2>2. m.runs = Here.runs /\ m.state = Here.state /\ m.shown = Here.shown
      BY NoticeHere DEF Managers
    <2>3. Here.runs = runs /\ Here.state = state /\ Here.shown = shown BY DEF Here
    <2> HIDE DEF m
    <2> QED BY <2>1, <2>2, <2>3, NoticeHere, KeepsTracked DEF Good
  <1> HIDE DEF m
  <1> SUFFICES ASSUME ~disposed, NEW e \in open, e # u, handlers[e] = 0
               PROVE  Current(Here, e)'
    BY <1>1 DEF CurrentInv
  <1>3. OnDidClose(m, u) = n BY DEF OnDidClose
  <1>4. /\ d \in Managers /\ d.shown = shown /\ DOMAIN d.runs = DOMAIN runs
        /\ \A k \in DOMAIN runs :
             /\ d.runs[k].uri = runs[k].uri /\ d.runs[k].text = runs[k].text
             /\ d.runs[k].orphan <=> runs[k].orphan \/ runs[k].uri = u
        /\ \A c \in Docs : c # u => d.state[c] = state[c]
    <2>1. Good(d, open) /\ d.shown = m.shown BY <1>2, DropStatesGood
    <2>2. /\ DOMAIN d.runs = DOMAIN m.runs
          /\ \A k \in DOMAIN m.runs :
               /\ d.runs[k].uri = m.runs[k].uri /\ d.runs[k].text = m.runs[k].text
               /\ d.runs[k].orphan <=> m.runs[k].orphan \/ m.runs[k].uri \in {u}
          /\ \A c \in Docs \ {u} : d.state[c] = m.state[c]
      BY <1>2, DropStatesTracked
    <2> HIDE DEF d
    <2> QED BY <1>2, <2>1, <2>2 DEF Good
  <1> HIDE DEF d
  <1>5. n.runs = d.runs /\ n.state = d.state /\ n.shown = [d.shown EXCEPT ![u] = Nothing]
    BY <1>4 DEF Managers
  <1> HIDE DEF n
  <1>6. e \in Docs BY NoticeHere DEF EnvOK
  <1>7. n.state[e] = state[e] /\ n.shown[e] = shown[e]
    BY <1>4, <1>5, <1>6 DEF Managers
  <1>8. Current(Here, e) BY DEF CurrentInv
  <1>9. state'[e] = state[e] /\ shown'[e] = shown[e] /\ runs' = d.runs
    BY <1>1, <1>3, <1>5, <1>7 DEF Become
  <1>10. LiveVersion(e)' = LiveVersion(e) /\ text'[e] = text[e] BY <1>1 DEF LiveVersion
  <1>11. CASE Timed(Here, e) BY <1>9, <1>10, <1>11 DEF Current, Timed, Here
  <1>12. CASE Shows(Here, e)
    <2>1. \A k \in DOMAIN runs : runs'[k].uri = e => ~runs'[k].orphan /\ runs'[k].text = text[e]
      BY <1>4, <1>9, <1>12 DEF Shows, Here
    <2>2. shown[e].parse = text[e] \/ \E k \in DOMAIN runs : runs'[k].uri = e
      BY <1>4, <1>9, <1>12 DEF Shows, Here
    <2>3. DOMAIN runs' = DOMAIN runs BY <1>4, <1>9
    <2> QED BY <1>9, <1>10, <2>1, <2>2, <2>3 DEF Current, Shows, Here
  <1> QED BY <1>8, <1>11, <1>12 DEF Current

LEMMA ClearDebounceShape ==
  ASSUME NEW m \in Managers, NEW u \in Docs
  PROVE  LET n == ClearDebounce(m, u) IN
         /\ n.runs = m.runs /\ n.shown = m.shown
         /\ \A d \in Docs : d # u => n.state[d] = m.state[d]
  <1> DEFINE nst == [m.state[u] EXCEPT !.timer = FALSE]
             n == [m EXCEPT !.state[u] = nst]
  <1>1. ClearDebounce(m, u) = n BY DEF ClearDebounce, Managers
  <1> HIDE DEF nst
  <1>2. n.runs = m.runs /\ n.shown = m.shown /\ n.state = [m.state EXCEPT ![u] = nst]
    BY DEF Managers
  <1> HIDE DEF n
  <1> QED BY <1>1, <1>2 DEF Managers

\* With no run of the document under way, the one that starts is for its text;
\* a debounce for another version finds the text shown.
LEMMA CurrentDebounce ==
  ASSUME IInv, NoticeInv, CurrentInv, WorkerIsFast, NEW u \in Docs, DebounceFires(u)
  PROVE  CurrentInv'
  <1> DEFINE m == ClearDebounce(Here, u)
             n == IF LiveVersion(u) # state[u].version \/ state[u].inFlight THEN m
                  ELSE RunDiagnose(m, u)
  <1>1. Good(m, open) /\ FreshRun(m) # {}
    BY NoticeHere, ClearDebounceGood DEF DebounceFires, RoomToRun
  <1>2. /\ m.runs = Here.runs /\ m.shown = Here.shown
        /\ \A d \in Docs : d # u => m.state[d] = Here.state[d]
    BY NoticeHere, ClearDebounceShape
  <1>3. m \in Managers BY <1>1 DEF Good
  <1>4. Become(n) /\ UNCHANGED <<editor, mode, disposed, refreshing, handlers>>
    BY DEF DebounceFires, env, index
  <1>5. \A k \in DOMAIN Here.runs : Here.runs[k].uri # u BY DEF DebounceFires, Here
  <1>6. ~state[u].inFlight BY <1>5, NoticeHere DEF Tracked, Running, Here
  <1> HIDE DEF m
  <1>7. \A d \in Docs : d # u /\ Current(Here, d) => Current(m, d)
    BY <1>2 DEF Current, Timed, Shows
  <1>8. Shows(Here, u) => Shows(m, u) BY <1>2 DEF Shows
  <1>9. ASSUME NEW d \in open, ~disposed, handlers[d] = 0 PROVE Current(n, d)
    <2>1. d \in Docs BY NoticeHere DEF EnvOK
    <2>2. Current(Here, d) BY <1>9 DEF CurrentInv
    <2>3. CASE LiveVersion(u) # state[u].version
      <3>1. n = m BY <2>3
      <3>2. CASE d = u
        <4>1. ~Timed(Here, u) BY <2>3 DEF Timed, Here
        <4> QED BY <1>8, <2>2, <3>1, <3>2, <4>1 DEF Current
      <3> QED BY <1>7, <2>1, <2>2, <3>1, <3>2
    <2>4. CASE LiveVersion(u) = state[u].version
      <3> DEFINE q == RunDiagnose(m, u)
      <3>1. n = q BY <1>6, <2>4
      <3>2. \/ (disposed \/ u \notin open) /\ q = m
            \/ /\ ~disposed /\ u \in open
               /\ \E what \in Shown : /\ what.parse = text[u] /\ what.notice = "none"
                                      /\ q = Publish(m, u, session[u], what)
            \/ /\ ~disposed /\ u \in open
               /\ \E run \in Runs, t \in StaleTimers : RunsFor(m, q, u, run, t)
        BY <1>1, NoticeHere, RunDiagnoseCases
      <3> HIDE DEF q
      <3>3. CASE u \notin open /\ q = m
        <4>1. d # u BY <1>9, <3>3
        <4> QED BY <1>7, <2>1, <2>2, <3>1, <3>3, <4>1
      <3>4. ASSUME u \in open, NEW what \in Shown, what.parse = text[u],
                   q = Publish(m, u, session[u], what)
            PROVE  Current(n, d)
        <4>1. MayPublish(u, session[u]) BY <1>9, <3>4 DEF MayPublish, LiveVersion
        <4>2. /\ q.runs = m.runs
              /\ q.state[d].timer = m.state[d].timer
              /\ q.state[d].version = m.state[d].version
              /\ q.shown[d] = IF d = u THEN what ELSE m.shown[d]
          BY <1>3, <2>1, <3>4, <4>1, PublishShape
        <4>3. CASE d = u
          <5>1. \A k \in DOMAIN q.runs : q.runs[k].uri # u BY <1>2, <1>5, <4>2
          <5>2. q.shown[d].parse = text[d] BY <3>4, <4>2, <4>3
          <5> QED BY <3>1, <4>3, <5>1, <5>2 DEF Current, Shows
        <4>4. CASE d # u
          <5>1. Current(m, d) BY <1>7, <2>1, <2>2, <4>4
          <5> QED BY <3>1, <4>2, <4>4, <5>1 DEF Current, Timed, Shows
        <4> QED BY <4>3, <4>4
      <3>5. ASSUME NEW run \in Runs, NEW t \in StaleTimers, RunsFor(m, q, u, run, t)
            PROVE  Current(n, d)
        <4>1. m.runs \in Seq(Runs) BY <1>3 DEF Managers
        <4>2. Len(m.runs) \in Nat /\ DOMAIN m.runs = 1..Len(m.runs) BY <4>1
        <4>3. /\ DOMAIN q.runs = 1..Len(m.runs) + 1
              /\ \A k \in DOMAIN m.runs : q.runs[k] = m.runs[k]
              /\ q.runs[Len(m.runs) + 1] = run
          <5>1. q.runs = Append(m.runs, run) BY <3>5 DEF RunsFor
          <5> QED BY <4>1, <5>1
        <4>4. \A k \in DOMAIN q.runs : k \in DOMAIN m.runs \/ k = Len(m.runs) + 1
          BY <4>2, <4>3
        <4>5. DOMAIN m.runs \subseteq DOMAIN q.runs /\ Len(m.runs) + 1 \in DOMAIN q.runs
          BY <4>2, <4>3
        <4>6. run.uri = u /\ run.text = text[u] /\ ~run.orphan BY <3>5 DEF RunsFor
        <4>7. CASE d = u
          <5>1. \A k \in DOMAIN m.runs : m.runs[k].uri # u BY <1>2, <1>5
          <5>2. \A k \in DOMAIN q.runs :
                  q.runs[k].uri = d => ~q.runs[k].orphan /\ q.runs[k].text = text[d]
            BY <4>3, <4>4, <4>6, <4>7, <5>1
          <5>3. \E k \in DOMAIN q.runs : q.runs[k].uri = d BY <4>3, <4>5, <4>6, <4>7
          <5> QED BY <3>1, <5>2, <5>3 DEF Current, Shows
        <4>8. CASE d # u
          <5>1. Current(m, d) BY <1>7, <2>1, <2>2, <4>8
          <5>2. q.state[d] = m.state[d] /\ q.shown = m.shown
            BY <2>1, <3>5, <4>8 DEF RunsFor
          <5>3. \A k \in DOMAIN q.runs : q.runs[k].uri = d =>
                  k \in DOMAIN m.runs /\ q.runs[k] = m.runs[k]
            BY <4>3, <4>4, <4>6, <4>8
          <5>4. CASE Timed(m, d) BY <3>1, <5>2, <5>4 DEF Timed, Current
          <5>5. CASE Shows(m, d)
            <6>1. \A k \in DOMAIN q.runs :
                    q.runs[k].uri = d => ~q.runs[k].orphan /\ q.runs[k].text = text[d]
              BY <5>3, <5>5 DEF Shows
            <6>2. q.shown[d].parse = text[d] \/ \E k \in DOMAIN q.runs : q.runs[k].uri = d
              BY <4>3, <4>5, <5>2, <5>5 DEF Shows
            <6> QED BY <3>1, <6>1, <6>2 DEF Current, Shows
          <5> QED BY <5>1, <5>4, <5>5 DEF Current
        <4> QED BY <4>7, <4>8
      <3> QED BY <1>9, <3>2, <3>3, <3>4, <3>5
    <2> QED BY <2>3, <2>4
  <1> HIDE DEF n
  <1> QED BY <1>4, <1>9, CurrentBecome

\* A stale notice replaces what is shown while a run will still show the text.
LEMMA CurrentStale ==
  ASSUME IInv, NoticeInv, CurrentInv, NEW t \in staleTimers, StaleFires(t)
  PROVE  CurrentInv'
  <1> DEFINE m == [Here EXCEPT !.staleTimers = @ \ {t}]
             last == IF t.orphan THEN t.last ELSE state[t.uri].lastDiagnostics
             what == [last EXCEPT !.notice = "stale"]
             n == Publish(m, t.uri, t.session, what)
  <1>1. m \in Managers /\ m.runs = runs /\ m.shown = shown /\ m.state = state
    BY NoticeHere DEF Managers, Here
  <1>2. t.uri \in Docs BY NoticeHere DEF Managers, StaleTimers, Here
  <1>3. Running(Here, t.uri) BY <1>2, NoticeHere DEF Tracked, Here
  <1>4. Become(n) /\ UNCHANGED <<editor, mode, disposed, refreshing, handlers>>
    BY DEF StaleFires, env, index
  <1> HIDE DEF m, what
  <1>5. /\ n.runs = m.runs
        /\ \A d \in Docs : /\ n.state[d].timer = m.state[d].timer
                           /\ n.state[d].version = m.state[d].version
                           /\ d # t.uri => n.shown[d] = m.shown[d]
    BY <1>1, <1>2, PublishShape
  <1> HIDE DEF n
  <1>6. ASSUME NEW d \in open, ~disposed, handlers[d] = 0 PROVE Current(n, d)
    <2>1. d \in Docs BY NoticeHere DEF EnvOK
    <2>2. Current(Here, d) BY <1>6 DEF CurrentInv
    <2>3. CASE Timed(Here, d) BY <1>1, <1>5, <2>1, <2>3 DEF Timed, Current, Here
    <2>4. CASE Shows(Here, d)
      <3>1. d = t.uri => \E k \in DOMAIN n.runs : n.runs[k].uri = d
        BY <1>1, <1>3, <1>5 DEF Running, Here
      <3>2. d # t.uri => n.shown[d].parse = shown[d].parse BY <1>1, <1>5, <2>1
      <3> QED BY <1>1, <1>5, <2>4, <3>1, <3>2 DEF Shows, Current, Here
    <2> QED BY <2>2, <2>3, <2>4 DEF Current
  <1> QED BY <1>4, <1>6, CurrentBecome

LEMMA CurrentFail ==
  ASSUME IInv, NoticeInv, CurrentInv, NEW k \in DOMAIN runs,
         NEW notice \in {"none", "timeout"}, Fail(k, notice)
  PROVE  CurrentInv'
  <1> DEFINE r == runs[k]
             what == [parse |-> r.text, pike |-> NoVerdict, notice |-> notice]
             m == ClearStale(Here, r)
             p == Publish(m, r.uri, r.session, what)
             n == Finish(p, k)
  <1>1. r \in Runs
    <2>1. runs \in Seq(Runs) BY NoticeHere DEF Managers, Here
    <2> QED BY <2>1
  <1>2. r.uri \in Docs /\ what \in Shown /\ what.parse = r.text
    BY <1>1, NothingTyped DEF Runs, Shown
  <1>3. Become(n) /\ UNCHANGED <<editor, mode, disposed, refreshing, handlers>>
    BY DEF Fail, env, index
  <1>4. k \in DOMAIN runs /\ r = runs[k] OBVIOUS
  <1> HIDE DEF r, what
  <1>5. /\ Good(m, open) /\ m.runs = runs /\ m.shown = Here.shown
        /\ Tracked(m) /\ Onward(Here, m)
    BY <1>1, NoticeHere, ClearStaleGood, ClearStaleTracked, ClearStaleOnward DEF Here
  <1>6. Noticed(m, open) BY <1>5, NoticeHere DEF Noticed, Here
  <1> HIDE DEF m
  <1>7. p \in Managers /\ Onward(p, p) BY <1>2, <1>5, PublishGood DEF Good, Onward
  <1>8. ASSUME NEW d \in open, ~disposed, handlers[d] = 0 PROVE Current(n, d)
    <2>1. d \in Docs BY NoticeHere DEF EnvOK
    <2>2. Current(Here, d) BY <1>8 DEF CurrentInv
    <2>3. Current(m, d) BY <1>5, <2>1, <2>2, OnwardCurrent
    <2>4. k \in DOMAIN m.runs /\ m.runs[k] = r BY <1>4, <1>5
    <2>5. Onward(Publish(m, m.runs[k].uri, m.runs[k].session, what), p)
      BY <1>7, <2>4
    <2> HIDE DEF p
    <2> QED BY <1>2, <1>5, <1>6, <1>7, <1>8, <2>1, <2>3, <2>4, <2>5, EndKeepsCurrent
  <1> HIDE DEF n
  <1> QED BY <1>3, <1>8, CurrentBecome

LEMMA CurrentAnswer ==
  ASSUME IInv, NoticeInv, CurrentInv, NEW how \in {"verdict", "backoff"}, Answer(how)
  PROVE  CurrentInv'
  <1> DEFINE r == runs[1]
             v == [checked |-> how = "verdict", world |-> r.world]
             e == [text |-> r.text, verdict |-> v]
             what == [parse |-> r.text, pike |-> v, notice |-> "none"]
             c == ClearStale(Here, r)
             m == [c EXCEPT !.cache[r.uri] = e]
             p == Publish(m, r.uri, r.session, what)
             q == PropagateToDependents(p, r.uri)
             n == Finish(q, 1)
  <1>1. 1 \in DOMAIN runs /\ r \in Runs
    <2>1. runs \in Seq(Runs) BY NoticeHere DEF Managers, Here
    <2> QED BY <2>1 DEF Answer
  <1>2. /\ r.uri \in Docs /\ e \in Entries /\ what \in Shown /\ what.parse = r.text
        /\ what.notice # "stale"
    BY <1>1 DEF Runs, Shown, Entries, Verdicts
  <1>3. e.verdict.world[r.uri] = e.text BY <1>1, NoticeHere DEF Good, Filed, Here
  <1>4. Become(n) /\ UNCHANGED <<editor, mode, disposed, refreshing, handlers>>
    BY DEF Answer, env, index
  <1>5. r = runs[1] OBVIOUS
  <1> HIDE DEF r, v, what
  <1>6. /\ Good(c, open) /\ c.runs = runs /\ c.shown = Here.shown
        /\ Tracked(c) /\ Onward(Here, c)
    BY <1>1, NoticeHere, ClearStaleGood, ClearStaleTracked, ClearStaleOnward DEF Here
  <1>7. Noticed(c, open) BY <1>6, NoticeHere DEF Noticed, Here
  <1> HIDE DEF c
  <1>8. /\ Good(m, open) /\ m.runs = runs /\ Tracked(m) /\ Noticed(m, open)
        /\ Onward(c, m)
    <2>1. c \in Managers BY <1>6 DEF Good
    <2> HIDE DEF e
    <2>2. m \in Managers /\ m.runs = runs /\ m.shown = c.shown /\ m.state = c.state
            /\ m.staleTimers = c.staleTimers /\ m.cache = [c.cache EXCEPT ![r.uri] = e]
      BY <1>2, <1>6, <2>1 DEF Managers
    <2>3. Filed(m) BY <1>3, <1>6, <2>1, <2>2 DEF Good, Filed, Managers
    <2>4. Keeps(c, m) /\ Onward(c, m) BY <1>6, <2>2 DEF Keeps, Onward
    <2> HIDE DEF m
    <2>5. Tracked(m) /\ Noticed(m, open)
      BY <1>6, <1>7, <2>1, <2>4, KeepsTracked, KeepsNoticed
    <2>6. Clean(m, open) BY <1>6, <2>2 DEF Good, Clean
    <2> QED BY <2>2, <2>3, <2>4, <2>5, <2>6 DEF Good
  <1> HIDE DEF m
  <1>9. Good(p, open) /\ Tracked(p)
    <2>1. m \in Managers BY <1>8 DEF Good
    <2>2. Good(p, open) /\ Keeps(m, p) BY <1>2, <1>8, <2>1, PublishGood, PublishKeeps
    <2> QED BY <1>8, <2>1, <2>2, KeepsTracked
  <1>10. q \in Managers /\ Onward(p, q)
    BY <1>2, <1>9, NoticeHere, PropagateGood, PropagateOnward DEF Good
  <1>11. ASSUME NEW d \in open, ~disposed, handlers[d] = 0 PROVE Current(n, d)
    <2>1. d \in Docs BY NoticeHere DEF EnvOK
    <2>2. Current(Here, d) BY <1>11 DEF CurrentInv
    <2>3. Current(c, d) BY <1>6, <2>1, <2>2, OnwardCurrent
    <2>4. Current(m, d) BY <1>8, <2>1, <2>3, OnwardCurrent
    <2>5. 1 \in DOMAIN m.runs /\ m.runs[1] = r BY <1>1, <1>5, <1>8
    <2>6. Onward(Publish(m, m.runs[1].uri, m.runs[1].session, what), q)
      BY <1>10, <2>5
    <2> HIDE DEF q, p
    <2> QED BY <1>2, <1>8, <1>10, <1>11, <2>1, <2>4, <2>5, <2>6, EndKeepsCurrent
  <1> HIDE DEF n
  <1> QED BY <1>4, <1>11, CurrentBecome

LEMMA CurrentNext ==
  ASSUME IInv, NoticeInv, CurrentInv, Undisturbed, [Next]_vars
  PROVE  CurrentInv'
  <1>1. ASSUME NEW u \in Docs, NEW t \in Texts, Open(u, t) \/ Edit(u, t) PROVE CurrentInv'
    BY <1>1, CurrentOpenEdit
  <1>2. ASSUME NEW u \in Docs, QueryBegins(u) \/ QueryEnds(u) PROVE CurrentInv'
    BY <1>2, CurrentSame DEF QueryBegins, QueryEnds
  <1>12. ASSUME NEW u \in Docs PROVE ~ContentFails(u) BY DEF ContentFails, Undisturbed
  <1>3. ASSUME NEW u \in Docs, ContentHandled(u) \/ IndexRefresh(u) PROVE CurrentInv'
    BY <1>3, CurrentChange
  <1>4. ASSUME NEW u \in Docs, Save(u) \/ Close(u) \/ DebounceFires(u) PROVE CurrentInv'
    BY <1>4, CurrentClose, CurrentDebounce DEF Save, Undisturbed
  <1>5. ASSUME NEW u \in Docs, FileChanged(u) \/ FileReindexed(u) \/ FileDeleted(u)
        PROVE  CurrentInv'
    BY <1>5 DEF FileChanged, FileReindexed, FileDeleted, Undisturbed, CurrentInv
  <1>6. ASSUME NEW t \in staleTimers, StaleFires(t) PROVE CurrentInv'
    BY <1>6, CurrentStale
  <1>7. ASSUME NEW how \in {"verdict", "backoff"}, Answer(how) PROVE CurrentInv'
    BY <1>7, CurrentAnswer
  <1>8. ASSUME NEW k \in DOMAIN runs, NEW notice \in {"none", "timeout"}, Fail(k, notice)
        PROVE  CurrentInv'
    BY <1>8, CurrentFail
  <1>9. ASSUME NEW m \in Modes \ {mode}, SetDiagnosticMode(m) PROVE CurrentInv'
    BY <1>9 DEF SetDiagnosticMode, Undisturbed
  <1>10. CASE Dispose BY <1>10 DEF Dispose, CurrentInv, index
  <1>11. CASE UNCHANGED vars BY <1>11, CurrentSame DEF vars, index
  <1> QED BY <1>1, <1>2, <1>3, <1>4, <1>5, <1>6, <1>7, <1>8, <1>9, <1>10, <1>11, <1>12
       DEF Next

\* When nothing is left to happen to a document, the editor shows the problems
\* of the text that is in it, whatever edits, refreshes, closes, failures and
\* backoffs came before, as long as the worker answers within a debounce, every
\* text can be indexed and nobody saves, switches the mode or changes files on
\* disk.
THEOREM TheShownTextIsCurrent ==
  ASSUME Undisturbed
  PROVE  Spec => []RestShowsCurrentText
  <1>1. "save" \notin Faults BY DEF Undisturbed
  <1>2. Init => NoticeInv /\ CurrentInv
    <2> SUFFICES ASSUME Init PROVE NoticeInv /\ CurrentInv
      OBVIOUS
    <2>1. NoticeInv BY InitNotice
    <2>2. CurrentInv BY DEF Init, CurrentInv
    <2> QED BY <2>1, <2>2
  <1>3. IInv /\ NoticeInv /\ [Next]_vars => NoticeInv' BY <1>1, NoticeNext
  <1>4. IInv /\ NoticeInv /\ CurrentInv /\ [Next]_vars => CurrentInv' BY CurrentNext
  <1>5. Spec => [](NoticeInv /\ CurrentInv)
    BY Inductive, <1>2, <1>3, <1>4, PTL DEF Spec
  <1>6. CurrentInv => RestShowsCurrentText
    BY DEF CurrentInv, RestShowsCurrentText, AtRest, InFlight, Current, Timed, Shows, Here
  <1> QED BY <1>5, <1>6, PTL
===============================================================================
