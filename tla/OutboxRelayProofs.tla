------------------------- MODULE OutboxRelayProofs -------------------------
(***************************************************************************)
(* Proofs about OutboxRelay for every set of events and workers and every  *)
(* batch size, number of attempts and back-off. RelayInvariant is shown to *)
(* be inductive, one lemma per action; the properties follow from it.      *)
(***************************************************************************)
EXTENDS OutboxRelay, TLAPS

(* The row records built by the actions are rows. *)
LEMMA RowUpdates ==
  ASSUME NEW r \in Row, NEW s \in Statuses
  PROVE  /\ [r EXCEPT !.status = s] \in Row
         /\ [r EXCEPT !.status = s].attempts = r.attempts
         /\ [r EXCEPT !.status = s].wait = r.wait
         /\ [r EXCEPT !.status = s].status = s
  BY DEF Row

LEMMA MarkedRow ==
  ASSUME NEW r \in Row
  PROVE  /\ Marked(r) \in Row /\ Marked(r).status = "processing"
         /\ Marked(r).attempts = r.attempts /\ Marked(r).wait = r.wait
  BY DEF Marked, Row, Statuses

(* mark_sent changes the status of the published rows and nothing else. *)
LEMMA WrittenRow ==
  ASSUME NEW w \in Workers, NEW e \in Events, draft[e] \in Row
  PROVE  /\ Written(w, e) \in Row
         /\ Written(w, e).attempts = draft[e].attempts
         /\ e \in acked[w] => Written(w, e).status = "sent"
         /\ e \notin acked[w] => Written(w, e) = draft[e]
  BY DEF Written, Row, Statuses

(* Ageing changes only the time left, which stays a natural number. *)
LEMMA OlderRow ==
  ASSUME NEW r \in Row
  PROVE  /\ Older(r) \in Row
         /\ Older(r).status = r.status
         /\ Older(r).attempts = r.attempts
         /\ r.wait = 0 => Older(r) = r
  BY DEF Row, Older

(* Rows are added, claimed, published, retried, committed and rolled back   *)
(* without ever leaving their types: the typing step of every action.      *)
LEMMA TypeStep == TypeOK /\ [Next]_vars => TypeOK'
<1> USE DEF TypeOK
<1> SUFFICES ASSUME TypeOK, [Next]_vars
             PROVE  TypeOK'
  OBVIOUS
<1>1. CASE UNCHANGED vars
  BY <1>1 DEF vars
<1>2. ASSUME NEW e \in Events, Add(e)
      PROVE  TypeOK'
  BY <1>2, RowUpdates DEF Add, Statuses
<1>3. ASSUME NEW w \in Workers, FetchPending(w)
      PROVE  TypeOK'
  <2>1. Oldest(Eligible, BatchSize) \subseteq Events
    BY DEF Oldest, Eligible
  <2>2. \A e \in Events : [draft[e] EXCEPT !.status = "processing"] \in Row
    BY RowUpdates DEF Statuses
  <2> QED
    BY <1>3, <2>1, <2>2 DEF FetchPending, Claim
<1>4. ASSUME NEW w \in Workers, NEW e \in todo[w], Skip(w, e)
      PROVE  TypeOK'
  BY <1>4 DEF Skip, Advance
<1>5. ASSUME NEW w \in Workers, NEW e \in todo[w], PublishOk(w, e)
      PROVE  TypeOK'
  BY <1>5 DEF PublishOk, Advance
<1>6. ASSUME NEW w \in Workers, NEW e \in todo[w], NEW reached \in {0, 1},
             PublishFails(w, e, reached)
      PROVE  TypeOK'
  <2>1. e \in Events /\ row[e] \in Row
    OBVIOUS
  <2>2. row[e].attempts \in 0..MaxAttempts
    BY <1>6, <2>1, ConstantsAssumption DEF PublishFails, Row
  <2>3. Backoff(row[e].attempts) \in Nat
    BY <2>2, ConstantsAssumption
  <2>4. MarkFailed(row[e]) \in Row
    BY <2>1, <2>2, <2>3 DEF MarkFailed, Row, Statuses
  <2> QED
    BY <1>6, <2>1, <2>4 DEF PublishFails, Advance
<1>7. ASSUME NEW w \in Workers, Commit(w)
      PROVE  TypeOK'
  <2>1. \A e \in Events : Written(w, e) \in Row
    BY WrittenRow
  <2> QED
    BY <1>7, <2>1 DEF Commit, Release
<1>8. ASSUME NEW w \in Workers, Rollback(w)
      PROVE  TypeOK'
  BY <1>8, ConstantsAssumption DEF Rollback, Release
<1>9. ASSUME Tick
      PROVE  TypeOK'
  BY <1>9, OlderRow DEF Tick
<1> QED
  BY <1>1, <1>2, <1>3, <1>4, <1>5, <1>6, <1>7, <1>8, <1>9 DEF Next, Deliver

(* The tables, the claims of the workers and the counters of the channel    *)
(* are always well formed (fetch_pending, mark_failed, mark_sent).         *)
THEOREM Typing == Spec => []TypeOK
<1>1. Init => TypeOK
  BY ConstantsAssumption DEF Init, TypeOK, Row, Statuses, NoRow
<1> QED
  BY <1>1, TypeStep, PTL DEF Spec

-----------------------------------------------------------------------------
(* A row whose versions and whose place in the batch do not change stays    *)
(* rightly drafted.                                                        *)
LEMMA UntouchedRow ==
  ASSUME DraftOfClaimed, NEW w \in Workers, NEW e \in claimed[w],
         row'[e] = row[e], draft'[e] = draft[e],
         e \in todo'[w] <=> e \in todo[w],
         e \in acked'[w] <=> e \in acked[w]
  PROVE  RightlyDrafted(w, e)'
  BY DEF DraftOfClaimed, RightlyDrafted, Due, Marked

(* Init: nothing is written, claimed or published.                         *)
LEMMA InitInvariant == Init => RelayInvariant
<1> SUFFICES ASSUME Init
             PROVE  RelayInvariant
  OBVIOUS
<1>1. TypeOK
  BY ConstantsAssumption DEF Init, TypeOK, Row, Statuses, NoRow
<1>2. ClaimsDisjoint /\ LoopBookkeeping /\ OnlyClaimedAreDrafted /\ DraftOfClaimed
  BY DEF Init, ClaimsDisjoint, LoopBookkeeping, OnlyClaimedAreDrafted, DraftOfClaimed
<1>3. StuckMeansExhausted
  BY ConstantsAssumption DEF Init, StuckMeansExhausted, NoRow
<1>4. PublishesAccounted
  BY DEF Init, PublishesAccounted, Carried, NoRow
<1> QED
  BY <1>1, <1>2, <1>3, <1>4 DEF RelayInvariant

(* A row that is being added is claimed by nobody. *)
LEMMA AddPreserves ==
  ASSUME RelayInvariant, TypeOK', NEW e \in Events, Add(e)
  PROVE  RelayInvariant'
<1> USE DEF RelayInvariant
<1>1. row[e] \in Row /\ draft[e] \in Row
  BY DEF TypeOK
<1>2. \A w \in Workers : e \notin claimed[w]
  BY DEF Add, DraftOfClaimed, RightlyDrafted, Due
<1>3. draft[e] = row[e]
  BY <1>2 DEF OnlyClaimedAreDrafted, Free
<1>4. /\ row' = [row EXCEPT ![e].status = "pending"]
      /\ draft' = [draft EXCEPT ![e].status = "pending"]
      /\ UNCHANGED <<claimed, todo, acked, publishes, strays>>
  BY DEF Add
<1>5. /\ row'[e] = [row[e] EXCEPT !.status = "pending"]
      /\ draft'[e] = row'[e]
      /\ \A f \in Events \ {e} : row'[f] = row[f] /\ draft'[f] = draft[f]
  BY <1>3, <1>4 DEF TypeOK
<1>6. row'[e].status = "pending" /\ row'[e].attempts = row[e].attempts
  BY <1>1, <1>5 DEF Row
<1>7. ClaimsDisjoint' /\ LoopBookkeeping'
  BY <1>4 DEF ClaimsDisjoint, LoopBookkeeping
<1>8. OnlyClaimedAreDrafted'
  BY <1>4, <1>5 DEF OnlyClaimedAreDrafted, Free
<1>9. DraftOfClaimed'
  <2> SUFFICES ASSUME NEW w \in Workers, NEW f \in claimed[w]
               PROVE  RightlyDrafted(w, f)'
    BY <1>4 DEF DraftOfClaimed
  <2> QED
    BY <1>2, <1>4, <1>5, UntouchedRow DEF TypeOK
<1>10. StuckMeansExhausted'
  BY <1>5, <1>6 DEF StuckMeansExhausted
<1>11. PublishesAccounted'
  <2>1. \A f \in Events : Carried(f)' = Carried(f)
    BY <1>4, <1>5, <1>6 DEF Carried, Add
  <2> QED
    BY <1>4, <2>1 DEF PublishesAccounted
<1> QED
  BY <1>7, <1>8, <1>9, <1>10, <1>11

(* Only rows that no transaction holds are claimed, and they are due. *)
LEMMA FetchPendingPreserves ==
  ASSUME RelayInvariant, TypeOK', NEW w \in Workers, FetchPending(w)
  PROVE  RelayInvariant'
<1> USE DEF RelayInvariant
<1> DEFINE batch == Oldest(Eligible, BatchSize)
<1>1. /\ batch \subseteq Events
      /\ \A e \in batch : Due(e) /\ Free(e)
  BY DEF Oldest, Eligible, Free
<1>2. claimed[w] = {} /\ acked[w] = {}
  BY DEF FetchPending, LoopBookkeeping
<1>3. /\ row' = row
      /\ claimed' = [claimed EXCEPT ![w] = batch]
      /\ todo' = [todo EXCEPT ![w] = batch]
      /\ draft' = [e \in Events |-> IF e \in batch THEN Marked(draft[e]) ELSE draft[e]]
      /\ UNCHANGED <<acked, publishes, strays>>
  BY DEF FetchPending, Claim, Marked
<1> HIDE DEF batch
<1>4. /\ claimed'[w] = batch /\ todo'[w] = batch
      /\ \A v \in Workers \ {w} : claimed'[v] = claimed[v] /\ todo'[v] = todo[v]
  BY <1>3 DEF TypeOK
<1>5. ClaimsDisjoint'
  BY <1>1, <1>4 DEF ClaimsDisjoint, Free
<1>6. LoopBookkeeping'
  BY <1>2, <1>3, <1>4 DEF LoopBookkeeping
<1>7. OnlyClaimedAreDrafted'
  <2> SUFFICES ASSUME NEW e \in Events, Free(e)'
               PROVE  draft'[e] = row'[e]
    BY DEF OnlyClaimedAreDrafted
  <2>1. e \notin batch /\ Free(e)
    BY <1>2, <1>4 DEF Free
  <2> QED
    BY <1>3, <2>1 DEF OnlyClaimedAreDrafted
<1>8. DraftOfClaimed'
  <2> SUFFICES ASSUME NEW v \in Workers, NEW e \in claimed'[v]
               PROVE  RightlyDrafted(v, e)'
    BY DEF DraftOfClaimed
  <2>1. CASE v = w
    <3>1. e \in batch /\ e \in todo'[v] /\ e \notin acked'[v]
      BY <1>2, <1>3, <1>4, <2>1
    <3>2. Due(e)' /\ draft'[e] = Marked(row'[e])
      BY <1>1, <1>3, <3>1 DEF OnlyClaimedAreDrafted, Due
    <3> QED
      BY <3>1, <3>2 DEF RightlyDrafted
  <2>2. CASE v # w
    <3>1. e \in claimed[v] /\ e \in Events /\ e \notin batch
      BY <1>1, <1>4, <2>2 DEF Free, TypeOK
    <3>2. draft'[e] = draft[e] /\ row'[e] = row[e] /\ todo'[v] = todo[v] /\ acked'[v] = acked[v]
      BY <1>3, <1>4, <2>2, <3>1
    <3> QED
      BY <3>1, <3>2, UntouchedRow
  <2> QED
    BY <2>1, <2>2
<1>9. StuckMeansExhausted' /\ PublishesAccounted'
  BY <1>3 DEF StuckMeansExhausted, PublishesAccounted, Carried
<1> QED
  BY <1>5, <1>6, <1>7, <1>8, <1>9

(* One turn of the loop touches nothing but its own row: what holds of the  *)
(* other rows and of the claims is kept, whatever the turn decides.        *)
LEMMA TurnFrame ==
  ASSUME RelayInvariant, NEW w \in Workers, NEW e \in todo[w], Advance(w, e),
         acked' = acked \/ acked' = [acked EXCEPT ![w] = @ \cup {e}],
         \A f \in Events \ {e} : draft'[f] = draft[f]
  PROVE  /\ e \in Events /\ e \in claimed[w] /\ e \notin acked[w] /\ RightlyDrafted(w, e)
         /\ row' = row /\ e \notin todo'[w]
         /\ ClaimsDisjoint' /\ LoopBookkeeping' /\ OnlyClaimedAreDrafted'
         /\ StuckMeansExhausted'
         /\ RightlyDrafted(w, e)' => DraftOfClaimed'
         /\ \A f \in Events \ {e} : Carried(f)' = Carried(f)
         /\ ~Carried(e)
<1> USE DEF RelayInvariant
<1>1. e \in Events /\ e \in claimed[w] /\ e \notin acked[w] /\ RightlyDrafted(w, e)
  BY DEF LoopBookkeeping, TypeOK, DraftOfClaimed
<1>2. /\ row' = row /\ claimed' = claimed
      /\ todo'[w] = todo[w] \ {e}
      /\ \A v \in Workers \ {w} : todo'[v] = todo[v]
  BY DEF Advance, TypeOK
<1>3. /\ acked'[w] \subseteq acked[w] \cup {e}
      /\ acked[w] \subseteq acked'[w]
      /\ \A v \in Workers \ {w} : acked'[v] = acked[v]
  BY DEF TypeOK
<1>4. \A v \in Workers \ {w} : e \notin claimed[v] /\ e \notin acked[v]
  BY <1>1 DEF ClaimsDisjoint, LoopBookkeeping
<1>5. ClaimsDisjoint' /\ StuckMeansExhausted'
  BY <1>2 DEF ClaimsDisjoint, StuckMeansExhausted
<1>6. LoopBookkeeping'
  BY <1>1, <1>2, <1>3 DEF LoopBookkeeping
<1>7. OnlyClaimedAreDrafted'
  <2> SUFFICES ASSUME NEW f \in Events, Free(f)'
               PROVE  draft'[f] = row'[f]
    BY DEF OnlyClaimedAreDrafted
  <2>1. Free(f) /\ f # e
    BY <1>1, <1>2 DEF Free
  <2> QED
    BY <1>2, <2>1 DEF OnlyClaimedAreDrafted
<1>8. ASSUME RightlyDrafted(w, e)'
      PROVE  DraftOfClaimed'
  <2> SUFFICES ASSUME NEW v \in Workers, NEW f \in claimed[v], v # w \/ f # e
               PROVE  RightlyDrafted(v, f)'
    BY <1>2, <1>8 DEF DraftOfClaimed
  <2>1. f # e /\ f \in Events
    BY <1>4 DEF TypeOK
  <2>2. f \in todo'[v] <=> f \in todo[v]
    BY <1>2, <2>1
  <2>3. f \in acked'[v] <=> f \in acked[v]
    BY <1>3, <2>1
  <2> QED
    BY <1>2, <2>1, <2>2, <2>3, UntouchedRow
<1>9. \A f \in Events \ {e} : Carried(f)' = Carried(f)
  <2> SUFFICES ASSUME NEW f \in Events \ {e}
               PROVE  Carried(f)' = Carried(f)
    OBVIOUS
  <2>1. \A v \in Workers : f \in acked'[v] <=> f \in acked[v]
    BY <1>3
  <2> QED
    BY <1>2, <2>1 DEF Carried
<1>10. ~Carried(e)
  BY <1>1, <1>4 DEF Carried, RightlyDrafted, Due
<1>11. e \notin todo'[w]
  BY <1>2
<1> QED
  BY <1>1, <1>2, <1>5, <1>6, <1>7, <1>8, <1>9, <1>10, <1>11

(* A skipped row keeps the mark, its attempts being spent. *)
LEMMA SkipPreserves ==
  ASSUME RelayInvariant, TypeOK', NEW w \in Workers, NEW e \in todo[w], Skip(w, e)
  PROVE  RelayInvariant'
<1>1. /\ Advance(w, e) /\ row[e].attempts >= MaxAttempts
      /\ UNCHANGED <<draft, acked, publishes, strays>>
  BY DEF Skip
<1>2. row[e].attempts = MaxAttempts
  BY <1>1, ConstantsAssumption
     DEF RelayInvariant, StuckMeansExhausted, TypeOK, Row, LoopBookkeeping
<1>3. RightlyDrafted(w, e)'
  BY <1>1, <1>2, TurnFrame DEF RightlyDrafted, Due, Marked
<1>4. PublishesAccounted'
  <2>1. \A f \in Events : Carried(f)' = Carried(f)
    BY <1>1 DEF Carried, Advance
  <2> QED
    BY <1>1, <2>1 DEF RelayInvariant, PublishesAccounted
<1> QED
  BY <1>1, <1>3, <1>4, TurnFrame DEF RelayInvariant

(* A published row joins sent_ids, which accounts for its new copy. *)
LEMMA PublishOkPreserves ==
  ASSUME RelayInvariant, TypeOK', NEW w \in Workers, NEW e \in todo[w], PublishOk(w, e)
  PROVE  RelayInvariant'
<1>1. /\ Advance(w, e) /\ row[e].attempts < MaxAttempts
      /\ publishes' = [publishes EXCEPT ![e] = @ + 1]
      /\ acked' = [acked EXCEPT ![w] = @ \cup {e}]
      /\ UNCHANGED <<draft, strays>>
  BY DEF PublishOk
<1>2. e \in acked'[w]
  BY <1>1 DEF RelayInvariant, TypeOK
<1>3. RightlyDrafted(w, e)'
  BY <1>1, <1>2, TurnFrame DEF RightlyDrafted, Due, Marked
<1>4. PublishesAccounted'
  <2>1. e \in Events /\ ~Carried(e) /\ Carried(e)'
    BY <1>1, <1>2, TurnFrame DEF Carried
  <2>2. publishes'[e] = strays'[e] + 1
    BY <1>1, <2>1 DEF RelayInvariant, TypeOK, PublishesAccounted
  <2>3. \A f \in Events \ {e} : publishes'[f] = publishes[f] /\ Carried(f)' = Carried(f)
    BY <1>1, TurnFrame DEF RelayInvariant, TypeOK
  <2> QED
    BY <1>1, <2>1, <2>2, <2>3 DEF RelayInvariant, PublishesAccounted
<1> QED
  BY <1>1, <1>3, <1>4, TurnFrame DEF RelayInvariant

(* A failed publish spends an attempt; the copy that may have reached Redis *)
(* is a stray.                                                             *)
LEMMA PublishFailsPreserves ==
  ASSUME RelayInvariant, TypeOK', NEW w \in Workers, NEW e \in todo[w],
         NEW reached \in {0, 1}, PublishFails(w, e, reached)
  PROVE  RelayInvariant'
<1>1. /\ Advance(w, e) /\ row[e].attempts < MaxAttempts
      /\ draft' = [draft EXCEPT ![e] = MarkFailed(row[e])]
      /\ publishes' = [publishes EXCEPT ![e] = @ + reached]
      /\ strays' = [strays EXCEPT ![e] = @ + reached]
      /\ UNCHANGED acked
  BY DEF PublishFails
<1>2. e \in Events /\ \A f \in Events \ {e} : draft'[f] = draft[f]
  BY <1>1 DEF RelayInvariant, TypeOK, LoopBookkeeping
<1>3. draft'[e].status = "failed" /\ draft'[e].attempts = row[e].attempts + 1
  BY <1>1, <1>2 DEF RelayInvariant, TypeOK, MarkFailed
<1>4. /\ row' = row /\ e \notin todo'[w] /\ e \notin acked'[w] /\ Due(e)
      /\ ~Carried(e) /\ \A f \in Events \ {e} : Carried(f)' = Carried(f)
  BY <1>1, <1>2, TurnFrame DEF RightlyDrafted
<1>5. RightlyDrafted(w, e)'
  BY <1>1, <1>3, <1>4 DEF RightlyDrafted, Due
<1>6. PublishesAccounted'
  <2>1. ~Carried(e)'
    BY <1>1, <1>4 DEF Carried
  <2>2. publishes'[e] = strays'[e]
    BY <1>1, <1>2, <1>4 DEF RelayInvariant, TypeOK, PublishesAccounted
  <2>3. \A f \in Events \ {e} : publishes'[f] = publishes[f] /\ strays'[f] = strays[f]
    BY <1>1 DEF RelayInvariant, TypeOK
  <2>4. strays'[e] \in Nat
    BY <1>2 DEF TypeOK
  <2> QED
    BY <1>4, <2>1, <2>2, <2>3, <2>4 DEF RelayInvariant, PublishesAccounted
<1> QED
  BY <1>1, <1>2, <1>5, <1>6, TurnFrame DEF RelayInvariant

(* The commit frees the batch with what mark_sent and mark_failed wrote. *)
LEMMA CommitPreserves ==
  ASSUME RelayInvariant, TypeOK', NEW w \in Workers, Commit(w)
  PROVE  RelayInvariant'
<1> USE DEF RelayInvariant
<1>1. /\ todo[w] = {}
      /\ \A e \in Events \cap claimed[w] : row'[e] = Written(w, e) /\ draft'[e] = Written(w, e)
      /\ \A e \in Events \ claimed[w] : row'[e] = row[e] /\ draft'[e] = draft[e]
      /\ UNCHANGED <<publishes, strays>>
  BY DEF Commit
<1>2. /\ claimed'[w] = {} /\ todo'[w] = {} /\ acked'[w] = {}
      /\ \A v \in Workers \ {w} :
           claimed'[v] = claimed[v] /\ todo'[v] = todo[v] /\ acked'[v] = acked[v]
  BY DEF Commit, Release, TypeOK
<1>3. \A v \in Workers \ {w} : \A e \in claimed[v] : e \in Events \ claimed[w]
  BY DEF ClaimsDisjoint, TypeOK
<1>4. ClaimsDisjoint' /\ LoopBookkeeping'
  BY <1>2 DEF ClaimsDisjoint, LoopBookkeeping
<1>5. OnlyClaimedAreDrafted'
  <2> SUFFICES ASSUME NEW e \in Events, Free(e)'
               PROVE  draft'[e] = row'[e]
    BY DEF OnlyClaimedAreDrafted
  <2>1. CASE e \in claimed[w]
    BY <1>1, <2>1
  <2>2. CASE e \notin claimed[w]
    BY <1>1, <1>2, <2>2 DEF OnlyClaimedAreDrafted, Free
  <2> QED
    BY <2>1, <2>2
<1>6. DraftOfClaimed'
  <2> SUFFICES ASSUME NEW v \in Workers \ {w}, NEW e \in claimed[v]
               PROVE  RightlyDrafted(v, e)'
    BY <1>2 DEF DraftOfClaimed
  <2> QED
    BY <1>1, <1>2, <1>3, UntouchedRow
<1>7. ASSUME NEW e \in claimed[w]
      PROVE  /\ e \in Events /\ row[e] \in Row /\ draft[e] \in Row /\ RightlyDrafted(w, e)
             /\ row'[e].status = "sent" <=> e \in acked[w]
             /\ row'[e].attempts = draft[e].attempts
             /\ e \notin acked[w] => row'[e] = draft[e]
  <2>1. e \in Events /\ row[e] \in Row /\ draft[e] \in Row /\ RightlyDrafted(w, e)
    BY DEF TypeOK, DraftOfClaimed
  <2>2. CASE e \in acked[w]
    BY <1>1, <2>1, <2>2, WrittenRow
  <2>3. CASE e \notin acked[w]
    <3>1. row'[e] = draft[e]
      BY <1>1, <2>1, <2>3, WrittenRow
    <3>2. draft[e].status # "sent"
      BY <1>1, <2>1, <2>3, MarkedRow DEF RightlyDrafted
    <3> QED
      BY <2>1, <2>3, <3>1, <3>2
  <2> QED
    BY <2>2, <2>3, <2>1
<1>8. StuckMeansExhausted'
  <2> SUFFICES ASSUME NEW e \in Events
               PROVE  /\ row'[e].attempts <= MaxAttempts
                      /\ row'[e].status = "processing" => row'[e].attempts = MaxAttempts
    BY DEF StuckMeansExhausted
  <2>1. CASE e \notin claimed[w]
    BY <1>1, <2>1 DEF StuckMeansExhausted
  <2>2. CASE e \in acked[w]
    <3>1. e \in claimed[w]
      BY <2>2 DEF LoopBookkeeping
    <3>2. row'[e].attempts = row[e].attempts /\ row'[e].status = "sent"
      BY <1>7, <2>2, <3>1, MarkedRow DEF RightlyDrafted
    <3> QED
      BY <3>2 DEF StuckMeansExhausted
  <2>3. CASE e \in claimed[w] /\ e \notin acked[w]
    <3>1. row'[e] = draft[e] /\ RightlyDrafted(w, e) /\ row[e] \in Row
      BY <1>7, <2>3
    <3>2. CASE draft[e] = Marked(row[e]) /\ row[e].attempts = MaxAttempts
      BY <3>1, <3>2, ConstantsAssumption, MarkedRow
    <3>3. CASE /\ draft[e].status = "failed"
               /\ draft[e].attempts = row[e].attempts + 1
               /\ row[e].attempts < MaxAttempts
      BY <3>1, <3>3, ConstantsAssumption DEF Row
    <3> QED
      BY <1>1, <2>3, <3>1, <3>2, <3>3 DEF RightlyDrafted
  <2> QED
    BY <2>1, <2>2, <2>3
<1>9. PublishesAccounted'
  <2> SUFFICES ASSUME NEW e \in Events
               PROVE  Carried(e)' = Carried(e)
    BY <1>1 DEF PublishesAccounted
  <2>1. CASE e \in claimed[w]
    <3>1. \A v \in Workers \ {w} : e \notin acked[v] /\ e \notin acked'[v]
      BY <1>2, <2>1 DEF ClaimsDisjoint, LoopBookkeeping
    <3>2. row[e].status # "sent"
      BY <1>7, <2>1 DEF RightlyDrafted, Due
    <3> QED
      BY <1>2, <1>7, <2>1, <3>1, <3>2 DEF Carried
  <2>2. CASE e \notin claimed[w]
    BY <1>1, <1>2, <2>2 DEF Carried, LoopBookkeeping
  <2> QED
    BY <2>1, <2>2
<1> QED
  BY <1>4, <1>5, <1>6, <1>8, <1>9

(* A rolled back batch is as it was, and its copies become strays. *)
LEMMA RollbackPreserves ==
  ASSUME RelayInvariant, TypeOK', NEW w \in Workers, Rollback(w)
  PROVE  RelayInvariant'
<1> USE DEF RelayInvariant
<1>1. /\ row' = row /\ publishes' = publishes
      /\ \A e \in Events : draft'[e] = IF e \in claimed[w] THEN row[e] ELSE draft[e]
      /\ \A e \in Events : strays'[e] = strays[e] + (IF e \in acked[w] THEN 1 ELSE 0)
  BY DEF Rollback
<1>2. /\ claimed'[w] = {} /\ todo'[w] = {} /\ acked'[w] = {}
      /\ \A v \in Workers \ {w} :
           claimed'[v] = claimed[v] /\ todo'[v] = todo[v] /\ acked'[v] = acked[v]
  BY DEF Rollback, Release, TypeOK
<1>3. ClaimsDisjoint' /\ LoopBookkeeping' /\ StuckMeansExhausted'
  BY <1>1, <1>2 DEF ClaimsDisjoint, LoopBookkeeping, StuckMeansExhausted
<1>4. OnlyClaimedAreDrafted'
  BY <1>1, <1>2 DEF OnlyClaimedAreDrafted, Free
<1>5. DraftOfClaimed'
  <2> SUFFICES ASSUME NEW v \in Workers \ {w}, NEW e \in claimed[v]
               PROVE  RightlyDrafted(v, e)'
    BY <1>2 DEF DraftOfClaimed
  <2>1. e \in Events /\ e \notin claimed[w]
    BY DEF ClaimsDisjoint, TypeOK
  <2> QED
    BY <1>1, <1>2, <2>1, UntouchedRow
<1>6. PublishesAccounted'
  <2> SUFFICES ASSUME NEW e \in Events
               PROVE  publishes'[e] = strays'[e] + (IF Carried(e)' THEN 1 ELSE 0)
    BY DEF PublishesAccounted
  <2>1. strays[e] \in Nat /\ publishes[e] = strays[e] + (IF Carried(e) THEN 1 ELSE 0)
    BY DEF PublishesAccounted, TypeOK
  <2>2. CASE e \in acked[w]
    <3>1. Carried(e) /\ ~Carried(e)'
      BY <1>1, <1>2, <2>2
         DEF Carried, ClaimsDisjoint, LoopBookkeeping, DraftOfClaimed, RightlyDrafted, Due
    <3> QED
      BY <1>1, <2>1, <2>2, <3>1
  <2>3. CASE e \notin acked[w]
    <3>1. Carried(e)' = Carried(e)
      BY <1>1, <1>2, <2>3 DEF Carried
    <3> QED
      BY <1>1, <2>1, <2>3, <3>1
  <2> QED
    BY <2>2, <2>3
<1> QED
  BY <1>3, <1>4, <1>5, <1>6

(* Time does not disturb a claimed row until it has been given a back-off. *)
LEMMA TickPreserves ==
  ASSUME RelayInvariant, TypeOK', Tick
  PROVE  RelayInvariant'
<1> USE DEF RelayInvariant
<1>1. /\ \A e \in Events : row'[e] = Older(row[e]) /\ draft'[e] = Older(draft[e])
      /\ UNCHANGED <<claimed, todo, acked, publishes, strays>>
  BY DEF Tick
<1>2. \A e \in Events : /\ row'[e].status = row[e].status
                        /\ row'[e].attempts = row[e].attempts
                        /\ draft'[e].status = draft[e].status
                        /\ draft'[e].attempts = draft[e].attempts
  BY <1>1, OlderRow DEF TypeOK
<1>3. ClaimsDisjoint' /\ LoopBookkeeping' /\ StuckMeansExhausted'
  BY <1>1, <1>2 DEF ClaimsDisjoint, LoopBookkeeping, StuckMeansExhausted
<1>4. OnlyClaimedAreDrafted'
  BY <1>1 DEF OnlyClaimedAreDrafted, Free
<1>5. DraftOfClaimed'
  <2> SUFFICES ASSUME NEW w \in Workers, NEW e \in claimed[w]
               PROVE  RightlyDrafted(w, e)'
    BY <1>1 DEF DraftOfClaimed
  <2>1. /\ e \in Events /\ row[e] \in Row /\ RightlyDrafted(w, e)
    BY DEF TypeOK, DraftOfClaimed
  <2>2. row'[e] = row[e]
    BY <1>1, <2>1, OlderRow DEF RightlyDrafted, Due
  <2>3. draft[e] = Marked(row[e]) => draft'[e] = draft[e]
    <3> HAVE draft[e] = Marked(row[e])
    <3>1. draft[e] \in Row /\ draft[e].wait = 0
      BY <2>1, MarkedRow DEF RightlyDrafted, Due
    <3> QED
      BY <1>1, <2>1, <3>1, OlderRow
  <2> QED
    BY <1>1, <1>2, <2>1, <2>2, <2>3 DEF RightlyDrafted, Due
<1>6. PublishesAccounted'
  BY <1>1, <1>2 DEF PublishesAccounted, Carried
<1> QED
  BY <1>3, <1>4, <1>5, <1>6

LEMMA StutterPreserves == RelayInvariant /\ UNCHANGED vars => RelayInvariant'
  BY DEF vars, RelayInvariant, TypeOK, ClaimsDisjoint, LoopBookkeeping, OnlyClaimedAreDrafted,
         Free, DraftOfClaimed, RightlyDrafted, Due, Marked, StuckMeansExhausted,
         PublishesAccounted, Carried

LEMMA StepPreserves == RelayInvariant /\ [Next]_vars => RelayInvariant'
<1> SUFFICES ASSUME RelayInvariant, [Next]_vars
             PROVE  RelayInvariant'
  OBVIOUS
<1>1. TypeOK'
  BY TypeStep DEF RelayInvariant
<1>2. CASE UNCHANGED vars
  BY <1>2, StutterPreserves
<1>3. ASSUME NEW w \in Workers, Deliver(w)
      PROVE  RelayInvariant'
  BY <1>1, <1>3, SkipPreserves, PublishOkPreserves, PublishFailsPreserves DEF Deliver
<1> QED
  BY <1>1, <1>2, <1>3, AddPreserves, FetchPendingPreserves, CommitPreserves,
     RollbackPreserves, TickPreserves DEF Next

(* RelayInvariant holds in every reachable state: the transaction, sent_ids *)
(* and the channel stay in step in _process_batch for any number of        *)
(* workers, events, attempts and rolled back batches.                      *)
THEOREM Inductive == Spec => []RelayInvariant
  BY InitInvariant, StepPreserves, PTL DEF Spec

(* No two workers ever hold the same row (FOR UPDATE SKIP LOCKED). *)
THEOREM Exclusive == Spec => []ClaimsDisjoint
<1>1. RelayInvariant => ClaimsDisjoint
  BY DEF RelayInvariant
<1> QED
  BY <1>1, Inductive, PTL

LEMMA PublishedEnough ==
  ASSUME RelayInvariant
  PROVE  SentWasPublished /\ DuplicatesExplained
<1>1. \A e \in Events : /\ strays[e] \in Nat
                        /\ publishes[e] = strays[e] + (IF Carried(e) THEN 1 ELSE 0)
  BY DEF RelayInvariant, TypeOK, PublishesAccounted
<1>2. \A e \in Events : row[e].status = "sent" => Carried(e)
  BY DEF Carried
<1> QED
  BY <1>1, <1>2 DEF SentWasPublished, DuplicatesExplained

(* A row is committed as sent only after the channel carried it: mark_sent  *)
(* covers exactly the rows whose publish returned.                         *)
THEOREM SentIsPublished == Spec => []SentWasPublished
  BY Inductive, PublishedEnough, PTL

(* Every copy of an event beyond the first is accounted for by a publish    *)
(* whose answer was lost or by a rolled back batch.                        *)
THEOREM DuplicatesHaveCause == Spec => []DuplicatesExplained
  BY Inductive, PublishedEnough, PTL

(* Why broadcasts are bounded: a stray has cost an attempt in the version   *)
(* of the row that counts, or came with a rolled back batch.               *)
StraysCounted ==
  \A e \in Events :
    /\ strays[e] <= draft[e].attempts + rollbacks
    /\ row[e].status = "sent" => row[e].attempts < MaxAttempts

(* The attempts of a row's newer version, from its claim to its commit. *)
LEMMA DraftAttempts ==
  ASSUME RelayInvariant, NEW w \in Workers, NEW e \in claimed[w]
  PROVE  /\ e \in Events /\ row[e] \in Row /\ draft[e] \in Row
         /\ row[e].attempts <= draft[e].attempts /\ draft[e].attempts <= row[e].attempts + 1
         /\ draft[e].attempts <= MaxAttempts
         /\ e \in todo[w] \cup acked[w] => draft[e].attempts = row[e].attempts
         /\ e \in acked[w] => draft[e].attempts < MaxAttempts
<1>1. e \in Events /\ row[e] \in Row /\ draft[e] \in Row /\ RightlyDrafted(w, e)
  BY DEF RelayInvariant, TypeOK, DraftOfClaimed
<1>2. row[e].attempts \in Nat /\ row[e].attempts <= MaxAttempts /\ MaxAttempts \in Nat
  BY <1>1, ConstantsAssumption DEF RelayInvariant, StuckMeansExhausted, Row
<1>3. draft[e] = Marked(row[e]) => draft[e].attempts = row[e].attempts
  BY <1>1, MarkedRow
<1> QED
  BY <1>1, <1>2, <1>3 DEF RightlyDrafted

LEMMA StraysStep ==
  ASSUME RelayInvariant, RelayInvariant', StraysCounted, [Next]_vars
  PROVE  StraysCounted'
<1>1. /\ TypeOK /\ TypeOK' /\ MaxAttempts \in Nat
      /\ \A e \in Events : /\ row[e] \in Row /\ draft[e] \in Row
                           /\ row'[e] \in Row /\ draft'[e] \in Row
                           /\ strays[e] \in Nat /\ strays'[e] \in Nat
                           /\ draft[e].attempts \in Nat /\ draft'[e].attempts \in Nat
      /\ rollbacks \in Nat /\ rollbacks' \in Nat
  BY ConstantsAssumption DEF RelayInvariant, TypeOK, Row
<1>2. ASSUME \A e \in Events : /\ row'[e].status = row[e].status \/ row'[e].status # "sent"
                              /\ row'[e].attempts = row[e].attempts
                              /\ draft'[e].attempts = draft[e].attempts,
             strays' = strays, rollbacks' = rollbacks
      PROVE  StraysCounted'
  BY <1>2 DEF StraysCounted
<1>3. CASE UNCHANGED vars
  BY <1>2, <1>3 DEF vars
<1>4. ASSUME NEW e \in Events, Add(e)
      PROVE  StraysCounted'
  <2>1. /\ row'[e] = [row[e] EXCEPT !.status = "pending"]
        /\ draft'[e] = [draft[e] EXCEPT !.status = "pending"]
        /\ \A f \in Events \ {e} : row'[f] = row[f] /\ draft'[f] = draft[f]
        /\ strays' = strays /\ rollbacks' = rollbacks
    BY <1>1, <1>4 DEF Add, TypeOK
  <2>2. /\ row'[e].status = "pending" /\ row'[e].attempts = row[e].attempts
        /\ draft'[e].attempts = draft[e].attempts
    BY <1>1, <2>1, RowUpdates DEF Statuses
  <2> QED
    BY <1>2, <2>1, <2>2
<1>5. ASSUME NEW w \in Workers, FetchPending(w)
      PROVE  StraysCounted'
  <2>1. /\ row' = row /\ strays' = strays /\ rollbacks' = rollbacks
        /\ \A e \in Events : \/ draft'[e] = draft[e]
                             \/ draft'[e] = [draft[e] EXCEPT !.status = "processing"]
    BY <1>5 DEF FetchPending, Claim
  <2>2. "processing" \in Statuses
    BY DEF Statuses
  <2>3. ASSUME NEW e \in Events
        PROVE  draft'[e].attempts = draft[e].attempts
    <3>1. [draft[e] EXCEPT !.status = "processing"].attempts = draft[e].attempts
      BY <1>1, <2>2, RowUpdates
    <3> QED
      BY <2>1, <3>1
  <2> QED
    BY <1>2, <2>1, <2>3
<1>6. ASSUME NEW w \in Workers, NEW e \in todo[w], Skip(w, e) \/ PublishOk(w, e)
      PROVE  StraysCounted'
  BY <1>2, <1>6 DEF Skip, PublishOk, Advance
<1>7. ASSUME NEW w \in Workers, NEW e \in todo[w], NEW n \in {0, 1}, PublishFails(w, e, n)
      PROVE  StraysCounted'
  <2>1. e \in claimed[w]
    BY DEF RelayInvariant, LoopBookkeeping
  <2>2. e \in Events /\ draft[e].attempts = row[e].attempts
    BY <2>1, DraftAttempts
  <2>3. /\ row' = row /\ rollbacks' = rollbacks
        /\ draft'[e].attempts = row[e].attempts + 1 /\ strays'[e] = strays[e] + n
        /\ \A f \in Events \ {e} : draft'[f] = draft[f] /\ strays'[f] = strays[f]
    BY <1>1, <1>7, <2>2 DEF PublishFails, Advance, MarkFailed, TypeOK
  <2>4. strays'[e] <= draft'[e].attempts + rollbacks'
    BY <1>1, <2>2, <2>3 DEF StraysCounted
  <2> QED
    BY <2>3, <2>4 DEF StraysCounted
<1>8. ASSUME NEW w \in Workers, Commit(w)
      PROVE  StraysCounted'
  <2> SUFFICES ASSUME NEW e \in Events
               PROVE  /\ strays'[e] <= draft'[e].attempts + rollbacks'
                      /\ row'[e].status = "sent" => row'[e].attempts < MaxAttempts
    BY DEF StraysCounted
  <2>1. /\ strays' = strays /\ rollbacks' = rollbacks
        /\ e \in claimed[w] => row'[e] = Written(w, e) /\ draft'[e] = Written(w, e)
        /\ e \notin claimed[w] => row'[e] = row[e] /\ draft'[e] = draft[e]
    BY <1>8 DEF Commit
  <2>2. CASE e \notin claimed[w]
    BY <2>1, <2>2 DEF StraysCounted
  <2>3. CASE e \in claimed[w]
    <3>1. row'[e].attempts = draft[e].attempts /\ draft'[e].attempts = draft[e].attempts
      BY <1>1, <2>1, <2>3, WrittenRow
    <3>2. CASE e \in acked[w]
      BY <2>1, <2>3, <3>1, <3>2, DraftAttempts DEF StraysCounted
    <3>3. CASE e \notin acked[w]
      <4>1. row'[e] = draft[e] /\ RightlyDrafted(w, e)
        BY <1>1, <2>1, <2>3, <3>3, WrittenRow DEF RelayInvariant, DraftOfClaimed
      <4>2. draft[e].status # "sent"
        BY <1>1, <1>8, <3>3, <4>1, MarkedRow DEF RightlyDrafted, Commit
      <4> QED
        BY <2>1, <3>1, <4>1, <4>2 DEF StraysCounted
    <3> QED
      BY <3>2, <3>3
  <2> QED
    BY <2>2, <2>3
<1>9. ASSUME NEW w \in Workers, Rollback(w)
      PROVE  StraysCounted'
  <2> SUFFICES ASSUME NEW e \in Events
               PROVE  strays'[e] <= draft'[e].attempts + rollbacks'
    BY <1>9 DEF StraysCounted, Rollback
  <2>1. /\ rollbacks' = rollbacks + 1
        /\ draft'[e] = IF e \in claimed[w] THEN row[e] ELSE draft[e]
        /\ strays'[e] = strays[e] + (IF e \in acked[w] THEN 1 ELSE 0)
    BY <1>9 DEF Rollback
  <2>2. strays[e] <= draft[e].attempts + rollbacks /\ row[e].attempts \in Nat
    BY <1>1 DEF StraysCounted, Row
  <2>3. CASE e \notin claimed[w]
    BY <1>1, <2>1, <2>2, <2>3 DEF RelayInvariant, LoopBookkeeping
  <2>4. CASE e \in acked[w]
    <3>1. e \in claimed[w]
      BY <2>4 DEF RelayInvariant, LoopBookkeeping
    <3>2. draft[e].attempts = row[e].attempts
      BY <2>4, <3>1, DraftAttempts
    <3> QED
      BY <1>1, <2>1, <2>2, <2>4, <3>1, <3>2
  <2>5. CASE e \in claimed[w] /\ e \notin acked[w]
    <3>1. draft[e].attempts <= row[e].attempts + 1
      BY <2>5, DraftAttempts
    <3> QED
      BY <1>1, <2>1, <2>2, <2>5, <3>1
  <2> QED
    BY <2>3, <2>4, <2>5
<1>10. ASSUME Tick
      PROVE  StraysCounted'
  <2>1. /\ strays' = strays /\ rollbacks' = rollbacks
        /\ \A e \in Events : row'[e] = Older(row[e]) /\ draft'[e] = Older(draft[e])
    BY <1>10 DEF Tick
  <2>2. \A e \in Events : /\ row'[e].status = row[e].status
                         /\ row'[e].attempts = row[e].attempts
                         /\ draft'[e].attempts = draft[e].attempts
    BY <1>1, <2>1, OlderRow
  <2> QED
    BY <1>2, <2>1, <2>2
<1> QED
  BY <1>3, <1>4, <1>5, <1>6, <1>7, <1>8, <1>9, <1>10 DEF Next, Deliver

LEMMA CountsBound ==
  ASSUME RelayInvariant, StraysCounted
  PROVE  CopiesBounded
<1> SUFFICES ASSUME NEW e \in Events
             PROVE  publishes[e] <= MaxAttempts + rollbacks
  BY DEF CopiesBounded
<1>1. /\ strays[e] \in Nat /\ rollbacks \in Nat /\ MaxAttempts \in Nat
      /\ row[e].attempts \in Nat /\ draft[e].attempts \in Nat
      /\ row[e].attempts <= MaxAttempts
      /\ strays[e] <= draft[e].attempts + rollbacks
      /\ publishes[e] = strays[e] + (IF Carried(e) THEN 1 ELSE 0)
  BY ConstantsAssumption
     DEF RelayInvariant, TypeOK, Row, StuckMeansExhausted, PublishesAccounted, StraysCounted
<1>2. draft[e].attempts <= MaxAttempts
  <2>1. CASE Free(e)
    BY <1>1, <2>1 DEF RelayInvariant, OnlyClaimedAreDrafted
  <2>2. CASE ~Free(e)
    BY <2>2, DraftAttempts DEF Free
  <2> QED
    BY <2>1, <2>2
<1>3. ASSUME Carried(e)
      PROVE  draft[e].attempts < MaxAttempts
  <2>1. CASE row[e].status = "sent"
    <3>1. Free(e)
      BY <2>1 DEF Free, RelayInvariant, DraftOfClaimed, RightlyDrafted, Due
    <3> QED
      BY <2>1, <3>1 DEF StraysCounted, RelayInvariant, OnlyClaimedAreDrafted
  <2>2. ASSUME NEW w \in Workers, e \in acked[w]
        PROVE  draft[e].attempts < MaxAttempts
    <3>1. e \in claimed[w]
      BY <2>2 DEF RelayInvariant, LoopBookkeeping
    <3> QED
      BY <2>2, <3>1, DraftAttempts
  <2> QED
    BY <1>3, <2>1, <2>2 DEF Carried
<1> QED
  BY <1>1, <1>2, <1>3

(* An event is broadcast at most max_attempts times and once more for each  *)
(* rolled back batch, for any workers, batches and failures of Redis.      *)
THEOREM CopiesAreBounded == Spec => []CopiesBounded
<1>1. Init => StraysCounted
  BY ConstantsAssumption DEF Init, StraysCounted, NoRow
<1> QED
  BY <1>1, Inductive, StraysStep, CountsBound, PTL DEF Spec

(* A row stays in "processing" only with its attempts spent: no crash of a  *)
(* worker leaves the mark of fetch_pending behind.                         *)
THEOREM StuckIsExhausted == Spec => []StuckMeansExhausted
<1>1. RelayInvariant => StuckMeansExhausted
  BY DEF RelayInvariant
<1> QED
  BY <1>1, Inductive, PTL

(* A final row is in nobody's batch, so no step publishes or rewrites it. *)
LEMMA FinalStep ==
  ASSUME RelayInvariant, [Next]_vars, NEW e \in Events, Final(e)
  PROVE  row'[e].status = row[e].status /\ publishes'[e] = publishes[e]
<1>1. row[e] \in Row /\ \A w \in Workers : e \notin claimed[w] /\ e \notin todo[w]
  BY DEF RelayInvariant, TypeOK, LoopBookkeeping, DraftOfClaimed, RightlyDrafted, Due, Final
<1> USE DEF RelayInvariant, TypeOK
<1>2. CASE UNCHANGED vars
  BY <1>2 DEF vars
<1>3. ASSUME NEW f \in Events, Add(f)
      PROVE  row'[e].status = row[e].status /\ publishes'[e] = publishes[e]
  BY <1>3 DEF Add, Final
<1>4. ASSUME NEW w \in Workers, FetchPending(w)
      PROVE  row'[e].status = row[e].status /\ publishes'[e] = publishes[e]
  BY <1>4 DEF FetchPending, Claim
<1>5. ASSUME NEW w \in Workers, Deliver(w)
      PROVE  row'[e].status = row[e].status /\ publishes'[e] = publishes[e]
  BY <1>1, <1>5 DEF Deliver, Skip, PublishOk, PublishFails, Advance
<1>6. ASSUME NEW w \in Workers, Commit(w) \/ Rollback(w)
      PROVE  row'[e].status = row[e].status /\ publishes'[e] = publishes[e]
  BY <1>1, <1>6 DEF Commit, Rollback
<1>7. ASSUME Tick
      PROVE  row'[e].status = row[e].status /\ publishes'[e] = publishes[e]
  BY <1>1, <1>7, OlderRow DEF Tick
<1> QED
  BY <1>2, <1>3, <1>4, <1>5, <1>6, <1>7 DEF Next

(* Sent and given up rows are never published again and never change, for   *)
(* any number of competing workers.                                        *)
THEOREM FinalForever == Spec => FinalIsFinal
<1>1. RelayInvariant /\ [Next]_vars => [FinalKept]_vars
  BY FinalStep DEF FinalKept
<1> QED
  BY <1>1, Inductive, PTL DEF Spec, FinalIsFinal

-----------------------------------------------------------------------------
(* The refinement: every step of the workers is a step of EventRelay or     *)
(* leaves its two variables alone.                                         *)
StageMap == [e \in Events |-> StageOf(row[e])]
DeliveredMap == [e \in Events |-> publishes[e] > 0]

LEMMA RelayInit == Init => Relay!Init
<1> SUFFICES ASSUME Init
             PROVE  Relay!Init
  OBVIOUS
<1>1. \A e \in Events : row[e] = NoRow /\ publishes[e] = 0
  BY DEF Init
<1>2. StageOf(NoRow) = "absent"
  BY DEF StageOf, NoRow
<1>3. StageMap = [e \in Events |-> "absent"]
  BY <1>1, <1>2 DEF StageMap
<1>4. \A e \in Events : (publishes[e] > 0) = FALSE
  BY <1>1
<1>5. DeliveredMap = [e \in Events |-> FALSE]
  BY <1>4, Zenon DEF DeliveredMap
<1> QED
  BY <1>3, <1>5 DEF Relay!Init, StageMap, DeliveredMap

LEMMA StageOfStatus ==
  ASSUME NEW r, NEW q, r.status = q.status
  PROVE  StageOf(r) = StageOf(q)
  BY DEF StageOf

LEMMA StageValues ==
  ASSUME NEW r \in Row
  PROVE  /\ StageOf(r) = "absent" <=> r.status = "absent"
         /\ StageOf(r) = "queued" <=> r.status \in {"pending", "failed"}
         /\ StageOf(r) = "settled" <=> r.status = "sent"
         /\ StageOf(r) = "dropped" <=> r.status = "processing"
  BY DEF StageOf, Row, Statuses

LEMMA RelayUnseen ==
  ASSUME \A e \in Events : row'[e].status = row[e].status,
         publishes' = publishes
  PROVE  UNCHANGED Relay!vars
  BY StageOfStatus DEF Relay!vars

LEMMA RelayAdd ==
  ASSUME RelayInvariant, NEW e \in Events, Add(e)
  PROVE  Relay!Accept(e)
<1>1. /\ row'[e].status = "pending" /\ row[e].status = "absent"
      /\ \A f \in Events \ {e} : row'[f] = row[f]
      /\ publishes' = publishes
  BY DEF Add, RelayInvariant, TypeOK, Row
<1>2. StageOf(row[e]) = "absent" /\ StageOf(row'[e]) = "queued"
  BY <1>1 DEF StageOf
<1>3. StageMap' = [StageMap EXCEPT ![e] = "queued"]
  BY <1>1, <1>2 DEF StageMap
<1> QED
  BY <1>1, <1>2, <1>3 DEF Relay!Accept, StageMap

LEMMA RelayPublish ==
  ASSUME RelayInvariant, NEW w \in Workers, NEW e \in todo[w], row' = row,
         NEW n \in {0, 1}, publishes' = [publishes EXCEPT ![e] = @ + n]
  PROVE  Relay!Deliver(e) \/ UNCHANGED Relay!vars
<1>1. e \in Events /\ Due(e) /\ publishes \in [Events -> Nat]
  BY DEF RelayInvariant, LoopBookkeeping, DraftOfClaimed, RightlyDrafted, TypeOK
<1>2. CASE n = 0
  <2>1. publishes' = publishes
    BY <1>1, <1>2
  <2> QED
    BY <2>1, RelayUnseen
<1>3. CASE n = 1
  <2>1. /\ publishes'[e] > 0
        /\ \A f \in Events \ {e} : publishes'[f] = publishes[f]
    BY <1>1, <1>3
  <2>2. DeliveredMap' = [DeliveredMap EXCEPT ![e] = TRUE]
    BY <1>1, <2>1, Zenon DEF DeliveredMap
  <2>3. StageOf(row[e]) = "queued"
    BY <1>1 DEF Due, StageOf
  <2> QED
    BY <1>1, <2>2, <2>3 DEF Relay!Deliver, DeliveredMap
<1> QED
  BY <1>2, <1>3

(* The commit of a batch settles sent_ids and drops the rows it skipped;    *)
(* those marked failed stay queued.                                        *)
LEMMA RelayCommit ==
  ASSUME RelayInvariant, RelayInvariant', NEW w \in Workers, Commit(w)
  PROVE  \E done, lost \in SUBSET Events : Relay!Finish(done, lost)
<1> DEFINE done == acked[w]
           lost == {e \in claimed[w] \ acked[w] : draft[e].status = "processing"}
<1> USE DEF RelayInvariant
<1>1. /\ publishes' = publishes
      /\ \A e \in Events \cap claimed[w] : row'[e] = Written(w, e)
      /\ \A e \in Events \ claimed[w] : row'[e] = row[e]
  BY DEF Commit
<1>2. done \subseteq claimed[w] /\ lost \subseteq claimed[w] /\ claimed[w] \subseteq Events
  BY DEF LoopBookkeeping, TypeOK
<1>3. \A e \in claimed[w] : /\ row[e].status \in {"pending", "failed"}
                            /\ row[e] \in Row /\ draft[e] \in Row
                            /\ draft[e].status \in {"processing", "failed"}
  BY <1>2, MarkedRow DEF LoopBookkeeping, DraftOfClaimed, RightlyDrafted, Due, TypeOK
<1>4. \A e \in done : publishes[e] > 0
  <2> SUFFICES ASSUME NEW e \in done
               PROVE  publishes[e] > 0
    OBVIOUS
  <2>1. e \in Events /\ Carried(e)
    BY <1>2 DEF Carried
  <2> QED
    BY <2>1 DEF PublishesAccounted, TypeOK
<1>5. ASSUME NEW e \in Events
      PROVE  StageOf(row'[e]) = IF e \in done THEN "settled"
                                ELSE IF e \in lost THEN "dropped"
                                ELSE StageOf(row[e])
  <2>1. CASE e \notin claimed[w]
    BY <1>1, <1>2, <2>1
  <2>2. CASE e \in done
    BY <1>1, <1>2, <1>3, <2>2, WrittenRow, StageValues
  <2>3. CASE e \in claimed[w] /\ e \notin done
    <3>1. row'[e] = draft[e] /\ row[e] \in Row /\ draft[e] \in Row
      BY <1>1, <1>2, <1>3, <2>3, WrittenRow
    <3> QED
      BY <1>3, <2>3, <3>1, StageValues
  <2> QED
    BY <2>1, <2>2, <2>3
<1>6. \A e \in done \cup lost : StageOf(row[e]) = "queued"
  BY <1>2, <1>3, StageValues
<1>7. done \cap lost = {} /\ done \in SUBSET Events /\ lost \in SUBSET Events
  BY <1>2
<1> HIDE DEF done, lost
<1>8. Relay!Finish(done, lost)
  BY <1>1, <1>2, <1>4, <1>5, <1>6, <1>7 DEF Relay!Finish
<1> QED
  BY <1>7, <1>8

LEMMA RelayStep == RelayInvariant /\ RelayInvariant' /\ [Next]_vars => [Relay!Next]_(Relay!vars)
<1> SUFFICES ASSUME RelayInvariant, RelayInvariant', [Next]_vars
             PROVE  Relay!Next \/ UNCHANGED Relay!vars
  OBVIOUS
<1>1. CASE UNCHANGED vars
  BY <1>1, RelayUnseen DEF vars
<1>2. ASSUME NEW e \in Events, Add(e)
      PROVE  Relay!Next
  BY <1>2, RelayAdd DEF Relay!Next
<1>3. ASSUME NEW w \in Workers, FetchPending(w) \/ Rollback(w)
      PROVE  UNCHANGED Relay!vars
  BY <1>3, RelayUnseen DEF FetchPending, Claim, Rollback
<1>4. ASSUME NEW w \in Workers, NEW e \in todo[w], Skip(w, e)
      PROVE  UNCHANGED Relay!vars
  BY <1>4, RelayUnseen DEF Skip, Advance
<1>5. ASSUME NEW w \in Workers, NEW e \in todo[w], NEW n \in {0, 1},
             PublishOk(w, e) \/ PublishFails(w, e, n)
      PROVE  Relay!Next \/ UNCHANGED Relay!vars
  <2>1. e \in Events
    BY DEF RelayInvariant, TypeOK
  <2>2. row' = row
    BY <1>5 DEF PublishOk, PublishFails, Advance
  <2>3. \E m \in {0, 1} : publishes' = [publishes EXCEPT ![e] = @ + m]
    BY <1>5 DEF PublishOk, PublishFails
  <2> QED
    BY <2>1, <2>2, <2>3, RelayPublish DEF Relay!Next
<1>6. ASSUME NEW w \in Workers, Commit(w)
      PROVE  Relay!Next
  BY <1>6, RelayCommit DEF Relay!Next
<1>7. ASSUME Tick
      PROVE  UNCHANGED Relay!vars
  BY <1>7, RelayUnseen, OlderRow DEF Tick, RelayInvariant, TypeOK
<1> QED
  BY <1>1, <1>2, <1>3, <1>4, <1>5, <1>6, <1>7 DEF Next, Deliver

(* The outbox workers implement EventRelay: an event leaves the queue as    *)
(* settled only after a delivery, is delivered only while it is queued, and *)
(* what a batch decides becomes visible at once.                           *)
THEOREM Implements == Spec => RelaySpec
  BY RelayInit, RelayStep, Inductive, PTL DEF Spec, RelaySpec, Relay!Spec
=============================================================================
