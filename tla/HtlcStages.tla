----------------------------- MODULE HtlcStages -----------------------------
(* What each operator of a channel does to the stage of a payment, and which   *)
(* HTLCs of a commitment it keeps: for one channel, of any HTLCs and calls.    *)
EXTENDS ChannelInvariants, TLAPS

-----------------------------------------------------------------------------
(* The HTLC of a payment. *)

\* A channel's HTLC of a payment is the one it has.
LEMMA RecordOf ==
  ASSUME NEW c, unique(c)
  PROVE  /\ \A h \in c.htlcs : has(c, h.payment) /\ rec(c, h.payment) = h
                                  /\ stage(c, h.payment) = near(h)
         /\ \A p : has(c, p) => rec(c, p) \in c.htlcs /\ rec(c, p).payment = p
                                /\ stage(c, p) = near(rec(c, p))
         /\ \A p : ~has(c, p) => stage(c, p) = "none"
<1>1. \A p : has(c, p) => rec(c, p) \in c.htlcs /\ rec(c, p).payment = p
  BY DEF has, rec
<1>2. ASSUME NEW h \in c.htlcs PROVE has(c, h.payment) /\ rec(c, h.payment) = h
  <2>1. has(c, h.payment)
    BY DEF has
  <2> QED
    BY <1>1, <2>1 DEF unique
<1> QED
  BY <1>1, <1>2 DEF stage

\* d has the HTLCs K of c, each changed to f[h] in phases and resolution only.
image_of(n, c, d, K, f) ==
  /\ K \in SUBSET c.htlcs /\ f \in [K -> Htlc] /\ d.htlcs = {f[h] : h \in K}
  /\ d.next_holder_htlc_id = c.next_holder_htlc_id
  /\ d.next_counterparty_htlc_id = c.next_counterparty_htlc_id
  /\ \A h \in K : /\ f[h].payment = h.payment /\ f[h].id = h.id
                  /\ f[h].outbound <=> h.outbound
                  /\ well_phased(n, f[h])

\* HTLCs that keep their payments and ids, some of them dropped.
LEMMA ImageOf ==
  ASSUME NEW n, NEW c \in Channel, NEW d \in Channel, unique(c),
         NEW K, NEW f, image_of(n, c, d, K, f)
  PROVE  /\ unique(d)
         /\ \A p : /\ has(d, p) <=> has(c, p) /\ rec(c, p) \in K
                   /\ has(d, p) => rec(d, p) = f[rec(c, p)]
<1> SUFFICES ASSUME K \in SUBSET c.htlcs, f \in [K -> Htlc], d.htlcs = {f[h] : h \in K},
                    \A h \in K : /\ f[h].payment = h.payment /\ f[h].id = h.id
                                 /\ f[h].outbound <=> h.outbound
             PROVE  /\ unique(d)
                    /\ \A p : /\ has(d, p) <=> has(c, p) /\ rec(c, p) \in K
                              /\ has(d, p) => rec(d, p) = f[rec(c, p)]
  BY DEF image_of
<1>1. c.htlcs \in SUBSET Htlc
  BY DEF Channel
<1>2. ASSUME NEW g \in K, NEW h \in K, htlc_ref(f[g]) = htlc_ref(f[h])
      PROVE  htlc_ref(g) = htlc_ref(h)
  <2>1. g.outbound \in BOOLEAN /\ h.outbound \in BOOLEAN
    BY <1>1 DEF Htlc
  <2>2. f[g] \in Htlc /\ f[h] \in Htlc
    OBVIOUS
  <2>3. f[g].outbound \in BOOLEAN /\ f[h].outbound \in BOOLEAN
    BY <2>2 DEF Htlc
  <2>4. f[g].outbound = f[h].outbound /\ f[g].id = f[h].id
    BY <1>2 DEF htlc_ref
  <2>5. g.outbound = h.outbound
    BY <2>1, <2>3, <2>4
  <2> QED
    BY <2>4, <2>5 DEF htlc_ref
<1>3. unique(d)
  <2> SUFFICES ASSUME NEW g \in K, NEW h \in K,
                      f[g].payment = f[h].payment \/ htlc_ref(f[g]) = htlc_ref(f[h])
               PROVE  f[g] = f[h]
    BY DEF unique
  <2>1. g = h
    BY <1>2 DEF unique
  <2> QED
    BY <2>1
<1>4. ASSUME NEW p
      PROVE  /\ has(d, p) <=> has(c, p) /\ rec(c, p) \in K
             /\ has(d, p) => rec(d, p) = f[rec(c, p)]
  <2>1. ASSUME has(d, p)
        PROVE  has(c, p) /\ rec(c, p) \in K /\ rec(d, p) = f[rec(c, p)]
    <3>1. PICK h \in K : f[h].payment = p
      BY <2>1 DEF has
    <3>2. h.payment = p /\ h \in c.htlcs
      BY <3>1
    <3>3. has(c, p) /\ rec(c, p) = h
      BY <3>2, RecordOf
    <3>4. f[h] \in d.htlcs
      OBVIOUS
    <3>5. rec(d, p) = f[h]
      BY <1>3, <3>1, <3>4, RecordOf
    <3> QED
      BY <3>3, <3>5
  <2>2. ASSUME has(c, p), rec(c, p) \in K PROVE has(d, p)
    <3>1. rec(c, p).payment = p
      BY <2>2, RecordOf
    <3> QED
      BY <2>2, <3>1 DEF has
  <2> QED
    BY <2>1, <2>2
<1> QED
  BY <1>3, <1>4

-----------------------------------------------------------------------------
(* The stages through the commitment dance. *)

\* A commitment_signed moves the HTLCs along: to = outbound.
lock_stage(out, s) ==
  IF out THEN (IF s = "Pending" THEN "Committed" ELSE IF s = "Removing" THEN "Gone" ELSE s)
         ELSE (IF s = "NotYet" THEN "Pending" ELSE IF s = "Gone" THEN "none" ELSE s)

\* An HTLC after on_commitment_signed.
signed_htlc(h) == acknowledged(locked_by_signature(h))

\* One HTLC through on_commitment_signed.
LEMMA LockOne ==
  ASSUME NEW n \in Party, NEW h \in Htlc, well_phased(n, h)
  PROVE  /\ signed_htlc(h) \in Htlc /\ signed_htlc(h).payment = h.payment
         /\ signed_htlc(h).id = h.id /\ signed_htlc(h).outbound = h.outbound
         /\ signed_htlc(h).resolution = h.resolution /\ signed_htlc(h).processed = h.processed
         /\ both_gone(signed_htlc(h)) <=> ~h.outbound /\ near(h) = "Gone"
         /\ ~both_gone(signed_htlc(h)) =>
              /\ near(signed_htlc(h)) = lock_stage(h.outbound, near(h))
              /\ well_phased(n, signed_htlc(h))
<1> DEFINE l == locked_by_signature(h)
           g == signed_htlc(h)
           lh == CASE h.phase_holder = "Pending" -> "Committed"
                   [] h.phase_holder = "Removing" -> "Gone"
                   [] OTHER -> h.phase_holder
           gc == CASE admits(l) -> "Pending"
                   [] releases(l) -> "Removing"
                   [] OTHER -> h.phase_counterparty
<1>1. /\ l \in Htlc /\ l.payment = h.payment /\ l.id = h.id /\ l.outbound = h.outbound
      /\ l.resolution = h.resolution /\ l.processed = h.processed
      /\ l.phase_counterparty = h.phase_counterparty /\ l.phase_holder = lh
  BY DEF locked_by_signature, Htlc, Phase
<1>2. g = acknowledged(l)
  BY DEF signed_htlc
<1> HIDE DEF l, g
<1>3. /\ g \in Htlc /\ g.payment = h.payment /\ g.id = h.id /\ g.outbound = h.outbound
      /\ g.resolution = h.resolution /\ g.processed = h.processed
      /\ g.phase_counterparty = gc /\ g.phase_holder = lh
  BY <1>1, <1>2 DEF acknowledged, Htlc, Phase
<1>4. h.phase_holder \in Phase /\ h.phase_counterparty \in Phase
  BY DEF Htlc
<1>5. /\ both_gone(g) <=> ~h.outbound /\ near(h) = "Gone"
      /\ ~both_gone(g) => near(g) = lock_stage(h.outbound, near(h)) /\ well_phased(n, g)
  <2>1. CASE h.outbound
    <3>1. near(h) = h.phase_holder /\ far(h) = h.phase_counterparty
          /\ near(g) = lh /\ far(g) = gc
      BY <1>3, <2>1 DEF near, far, phase_on
    <3> QED
      BY <1>1, <1>3, <1>4, <2>1, <3>1
         DEF well_phased, both_gone, lock_stage, admits, releases, Phase, None, Some
  <2>2. CASE ~h.outbound
    <3>1. near(h) = h.phase_counterparty /\ far(h) = h.phase_holder
          /\ near(g) = gc /\ far(g) = lh
      BY <1>3, <2>2 DEF near, far, phase_on
    <3> QED
      BY <1>1, <1>3, <1>4, <2>2, <3>1
         DEF well_phased, both_gone, lock_stage, admits, releases, Phase, None, Some
  <2> QED
    BY <2>1, <2>2
<1> QED
  BY <1>3, <1>5 DEF g

\* What the mapped HTLCs keep, payment by payment.
LEMMA ImageSound ==
  ASSUME NEW n \in Party, NEW c \in Channel, NEW d \in Channel, sound(n, c),
         NEW K, NEW f, image_of(n, c, d, K, f)
  PROVE  /\ sound(n, d)
         /\ \A p : /\ has(d, p) <=> has(c, p) /\ rec(c, p) \in K
                   /\ has(d, p) => rec(d, p) = f[rec(c, p)] /\ rec(c, p) \in K
<1>1. unique(c)
  BY DEF sound
<1>2. /\ unique(d)
      /\ \A p : /\ has(d, p) <=> has(c, p) /\ rec(c, p) \in K
                /\ has(d, p) => rec(d, p) = f[rec(c, p)]
  BY <1>1, ImageOf
<1>3. /\ K \in SUBSET c.htlcs /\ d.htlcs = {f[h] : h \in K}
      /\ d.next_holder_htlc_id = c.next_holder_htlc_id
      /\ d.next_counterparty_htlc_id = c.next_counterparty_htlc_id
      /\ \A h \in K : f[h].id = h.id /\ (f[h].outbound <=> h.outbound) /\ well_phased(n, f[h])
  BY DEF image_of
<1>4. ids_fresh(d) /\ \A h \in d.htlcs : well_phased(n, h)
  BY <1>3 DEF sound, ids_fresh
<1> QED
  BY <1>2, <1>4 DEF sound

\* What on_commitment_signed makes of the channel.
LEMMA LockFields ==
  ASSUME NEW n \in Party, NEW c \in Channel, sound(n, c), lock_holder_side(c) \in Channel
  PROVE  LET d == lock_holder_side(c)
         IN  /\ d \in Channel
             /\ d.htlcs = {signed_htlc(h) : h \in {g \in c.htlcs : ~both_gone(signed_htlc(g))}}
             /\ d.next_holder_htlc_id = c.next_holder_htlc_id
             /\ d.next_counterparty_htlc_id = c.next_counterparty_htlc_id
             /\ d.holding_cell = c.holding_cell
<1> DEFINE L == {locked_by_signature(h) : h \in c.htlcs}
           A == {acknowledged(h) : h \in L}
           e == [c EXCEPT !.htlcs = A,
                   !.feerate_counterparty = unwrap_or(c.pending_fee_ack, @),
                   !.pending_fee_ack = None,
                   !.counterparty_dirty = @ \/ newly_unsigned(c, L)]
           d == lock_holder_side(c)
<1>1. d \in Channel
  OBVIOUS
<1>2. d = gc_htlcs(e)
  BY DEF lock_holder_side
<1>3. A = {signed_htlc(h) : h \in c.htlcs}
  BY DEF signed_htlc
<1>4. /\ e.htlcs = A /\ e.next_holder_htlc_id = c.next_holder_htlc_id
      /\ e.next_counterparty_htlc_id = c.next_counterparty_htlc_id
      /\ e.holding_cell = c.holding_cell
      /\ DOMAIN e = DOMAIN c
  <2> HIDE DEF A, L
  <2> QED
    BY DEF Channel
<1> HIDE DEF e, A, d
<1>5. /\ d.htlcs = e.htlcs \ {h \in e.htlcs : both_gone(h)}
      /\ d.next_holder_htlc_id = e.next_holder_htlc_id
      /\ d.next_counterparty_htlc_id = e.next_counterparty_htlc_id
      /\ d.holding_cell = e.holding_cell
  <2>1. DOMAIN e = {"state", "shutdown_sent", "shutdown_received", "htlcs", "to_holder_msat",
                    "to_counterparty_msat", "feerate_holder", "feerate_counterparty",
                    "pending_fee_ack", "counterparty_dirty", "next_holder_htlc_id",
                    "next_counterparty_htlc_id", "holding_cell"}
    BY <1>4 DEF Channel
  <2> QED
    BY <1>2, <2>1 DEF gc_htlcs
<1>6. d.htlcs = {signed_htlc(h) : h \in {g \in c.htlcs : ~both_gone(signed_htlc(g))}}
  BY <1>3, <1>4, <1>5
<1> QED
  BY <1>1, <1>4, <1>5, <1>6 DEF d

\* d has the HTLCs of c at other stages.
same_htlc(c, d, p) ==
  /\ rec(d, p).id = rec(c, p).id /\ rec(d, p).resolution = rec(c, p).resolution
  /\ has(c, p)

\* The stages after on_commitment_signed.
LEMMA LockStages ==
  ASSUME NEW n \in Party, NEW c \in Channel, sound(n, c), lock_holder_side(c) \in Channel
  PROVE  LET d == lock_holder_side(c)
         IN  /\ sound(n, d)
             /\ \A p \in Payment : /\ stage(d, p) = lock_stage(Payer[p] = n, stage(c, p))
                                   /\ has(d, p) => same_htlc(c, d, p)
<1> DEFINE d == lock_holder_side(c)
           K == {g \in c.htlcs : ~both_gone(signed_htlc(g))}
           f == [h \in K |-> signed_htlc(h)]
<1>1. /\ d \in Channel /\ d.htlcs = {signed_htlc(h) : h \in K}
      /\ d.next_holder_htlc_id = c.next_holder_htlc_id
      /\ d.next_counterparty_htlc_id = c.next_counterparty_htlc_id
  BY LockFields
<1>2. ASSUME NEW h \in c.htlcs
      PROVE  /\ signed_htlc(h) \in Htlc /\ signed_htlc(h).payment = h.payment
             /\ signed_htlc(h).id = h.id /\ signed_htlc(h).outbound = h.outbound
             /\ signed_htlc(h).resolution = h.resolution
             /\ h \notin K <=> ~h.outbound /\ near(h) = "Gone"
             /\ h \in K => /\ near(signed_htlc(h)) = lock_stage(h.outbound, near(h))
                           /\ well_phased(n, signed_htlc(h))
             /\ h.outbound <=> Payer[h.payment] = n
  <2>1. h \in Htlc /\ well_phased(n, h)
    BY DEF Channel, sound
  <2>2. h.outbound <=> Payer[h.payment] = n
    BY <2>1 DEF well_phased
  <2> QED
    BY <2>1, <2>2, LockOne
<1>3. /\ f \in [K -> Htlc] /\ K \in SUBSET c.htlcs
      /\ \A h \in K : f[h] = signed_htlc(h)
      /\ d.htlcs = {f[h] : h \in K}
  <2>1. K \in SUBSET c.htlcs /\ \A h \in K : f[h] = signed_htlc(h)
    OBVIOUS
  <2>2. f \in [K -> Htlc]
    BY <1>2
  <2> HIDE DEF f, K, d
  <2> QED
    BY <1>1, <2>1, <2>2
<1>4. \A h \in K : /\ f[h].payment = h.payment /\ f[h].id = h.id
                   /\ f[h].outbound <=> h.outbound
                   /\ f[h].resolution = h.resolution
                   /\ well_phased(n, f[h]) /\ near(f[h]) = lock_stage(h.outbound, near(h))
  BY <1>2, <1>3
<1>5. \A h \in c.htlcs : /\ h \notin K <=> ~h.outbound /\ near(h) = "Gone"
                         /\ h.outbound <=> Payer[h.payment] = n
  BY <1>2
<1> HIDE DEF d, K, f
<1>6. /\ sound(n, d)
      /\ \A p : /\ has(d, p) <=> has(c, p) /\ rec(c, p) \in K
                /\ has(d, p) => rec(d, p) = f[rec(c, p)] /\ rec(c, p) \in K
  <2>1. \A h \in K : /\ f[h].payment = h.payment /\ f[h].id = h.id
                     /\ f[h].outbound <=> h.outbound
                     /\ well_phased(n, f[h])
    BY <1>4
  <2>2. image_of(n, c, d, K, f)
    BY <1>1, <1>3, <2>1 DEF image_of
  <2> QED
    BY <1>1, <2>2, ImageSound
<1>7. ASSUME NEW p \in Payment
      PROVE  /\ stage(d, p) = lock_stage(Payer[p] = n, stage(c, p))
             /\ has(d, p) => same_htlc(c, d, p)
  <2>1. has(c, p) => rec(c, p) \in c.htlcs /\ rec(c, p).payment = p
    BY RecordOf DEF sound
  <2>2. has(d, p) => same_htlc(c, d, p)
    BY <1>4, <1>6 DEF same_htlc
  <2>3. stage(d, p) = lock_stage(Payer[p] = n, stage(c, p))
    <3>1. CASE has(d, p)
      BY <1>4, <1>5, <1>6, <2>1, <3>1 DEF stage, lock_stage
    <3>2. CASE ~has(d, p) /\ has(c, p)
      BY <1>5, <1>6, <2>1, <3>2 DEF stage, lock_stage
    <3>3. CASE ~has(d, p) /\ ~has(c, p)
      BY <3>3 DEF stage, lock_stage
    <3> QED
      BY <1>6, <3>1, <3>2, <3>3
  <2> QED
    BY <2>2, <2>3
<1> QED
  BY <1>6, <1>7 DEF d

\* A revoke_and_ack moves along the HTLCs it acknowledges: i, r tell whether the
\* record lists the HTLC as included, as removed.
revoke_stage(out, s, i, r) ==
  IF out THEN (IF s = "NotYet" /\ i THEN "Pending" ELSE IF s = "Gone" /\ r THEN "none" ELSE s)
         ELSE (IF s = "Pending" /\ i THEN "Committed"
               ELSE IF s = "Removing" /\ r THEN "Gone" ELSE s)

\* An HTLC after on_revoke_and_ack, before the flush.
revoked_htlc(h, x) ==
  LET l == locked_by_revocation(h, x) IN [l EXCEPT !.processed = @ \/ forwardable(l)]

\* One HTLC through on_revoke_and_ack.
LEMMA RevokeOne ==
  ASSUME NEW n \in Party, NEW h \in Htlc, well_phased(n, h), NEW x \in PendingCommitment,
         htlc_ref(h) \in x.included => h.phase_counterparty = "Pending",
         htlc_ref(h) \in x.removed => h.phase_counterparty = "Removing"
  PROVE  LET g == revoked_htlc(h, x)
             i == htlc_ref(h) \in x.included
             r == htlc_ref(h) \in x.removed
         IN  /\ g \in Htlc /\ g.payment = h.payment /\ g.id = h.id
             /\ g.outbound = h.outbound /\ g.resolution = h.resolution
             /\ both_gone(g) <=> both_gone(locked_by_revocation(h, x))
             /\ both_gone(g) <=> h.outbound /\ near(h) = "Gone" /\ r
             /\ ~both_gone(g) => /\ near(g) = revoke_stage(h.outbound, near(h), i, r)
                                 /\ well_phased(n, g)
<1> DEFINE l == locked_by_revocation(h, x)
           g == revoked_htlc(h, x)
           i == htlc_ref(h) \in x.included
           r == htlc_ref(h) \in x.removed
           lc == CASE i /\ h.phase_counterparty = "Pending"  -> "Committed"
                   [] r /\ h.phase_counterparty = "Removing" -> "Gone"
                   [] OTHER -> h.phase_counterparty
           lh == CASE i /\ h.outbound /\ h.phase_holder = "NotYet" -> "Pending"
                   [] r /\ ~h.outbound /\ h.phase_holder = "Committed" -> "Removing"
                   [] OTHER -> h.phase_holder
<1>1. /\ l \in Htlc /\ l.payment = h.payment /\ l.id = h.id /\ l.outbound = h.outbound
      /\ l.resolution = h.resolution /\ l.processed = h.processed
      /\ l.phase_counterparty = lc /\ l.phase_holder = lh
  <2> HIDE DEF i, r
  <2> QED
    BY Zenon DEF locked_by_revocation, Htlc, Phase, i, r
<1>2. g = [l EXCEPT !.processed = @ \/ forwardable(l)]
  BY DEF revoked_htlc
<1> HIDE DEF l, g
<1>3. /\ g \in Htlc /\ g.payment = h.payment /\ g.id = h.id /\ g.outbound = h.outbound
      /\ g.resolution = h.resolution
      /\ g.phase_counterparty = lc /\ g.phase_holder = lh
      /\ g.processed => h.processed \/ forwardable(l)
  BY <1>1, <1>2, Zenon DEF Htlc
<1>4. h.phase_holder \in Phase /\ h.phase_counterparty \in Phase
  BY DEF Htlc
<1> HIDE DEF i, r
<1>5. i => h.phase_counterparty = "Pending"
  BY DEF i
<1>6. r => h.phase_counterparty = "Removing"
  BY DEF r
<1>7. /\ both_gone(g) <=> both_gone(l)
      /\ both_gone(g) <=> h.outbound /\ near(h) = "Gone" /\ r
      /\ ~both_gone(g) => /\ near(g) = revoke_stage(h.outbound, near(h), i, r)
                          /\ well_phased(n, g)
  <2>1. CASE h.outbound
    <3>1. near(h) = h.phase_holder /\ far(h) = h.phase_counterparty
          /\ near(g) = lh /\ far(g) = lc
      BY <1>3, <2>1 DEF near, far, phase_on
    <3> QED
      BY <1>1, <1>3, <1>4, <1>5, <1>6, <2>1, <3>1
         DEF well_phased, both_gone, revoke_stage, forwardable, committed, Phase, None, Some
  <2>2. CASE ~h.outbound
    <3>1. near(h) = h.phase_counterparty /\ far(h) = h.phase_holder
          /\ near(g) = lc /\ far(g) = lh
      BY <1>3, <2>2 DEF near, far, phase_on
    <3> QED
      BY <1>1, <1>3, <1>4, <1>5, <1>6, <2>2, <3>1
         DEF well_phased, both_gone, revoke_stage, forwardable, committed, Phase, None, Some
  <2> QED
    BY <2>1, <2>2
<1> QED
  BY <1>3, <1>7 DEF g, i, r, l

\* What on_revoke_and_ack makes of the channel before the flush.
LEMMA RevokeFields ==
  ASSUME NEW n \in Party, NEW c \in Channel, sound(n, c), NEW x \in PendingCommitment,
         lists(c, x), lock_counterparty_side(c, x) \in Channel, after_revocation(c, x) \in Channel
  PROVE  LET d == after_revocation(c, x)
         IN  /\ d \in Channel
             /\ d.htlcs = {revoked_htlc(h, x) :
                             h \in {g \in c.htlcs : ~both_gone(revoked_htlc(g, x))}}
             /\ d.next_holder_htlc_id = c.next_holder_htlc_id
             /\ d.next_counterparty_htlc_id = c.next_counterparty_htlc_id
             /\ d.holding_cell = c.holding_cell
<1> DEFINE A == {locked_by_revocation(h, x) : h \in c.htlcs}
           e == [c EXCEPT !.htlcs = A, !.feerate_holder = unwrap_or(x.fee_update, @)]
           l == lock_counterparty_side(c, x)
           d == after_revocation(c, x)
           collected(h) == [h EXCEPT !.processed = @ \/ forwardable(h)]
<1>1. l \in Channel /\ d \in Channel
  OBVIOUS
<1>2. l = gc_htlcs(e)
  BY DEF lock_counterparty_side
<1>3. /\ e.htlcs = A /\ e.next_holder_htlc_id = c.next_holder_htlc_id
      /\ e.next_counterparty_htlc_id = c.next_counterparty_htlc_id
      /\ e.holding_cell = c.holding_cell
      /\ DOMAIN e = DOMAIN c
  <2> HIDE DEF A
  <2> QED
    BY DEF Channel
<1>4. d = [l EXCEPT !.htlcs = {collected(h) : h \in @}]
  BY DEF after_revocation, collect_forwardable
<1> HIDE DEF e, A, d, l
<1>5. /\ l.htlcs = e.htlcs \ {h \in e.htlcs : both_gone(h)}
      /\ l.next_holder_htlc_id = e.next_holder_htlc_id
      /\ l.next_counterparty_htlc_id = e.next_counterparty_htlc_id
      /\ l.holding_cell = e.holding_cell
  <2>1. DOMAIN e = {"state", "shutdown_sent", "shutdown_received", "htlcs", "to_holder_msat",
                    "to_counterparty_msat", "feerate_holder", "feerate_counterparty",
                    "pending_fee_ack", "counterparty_dirty", "next_holder_htlc_id",
                    "next_counterparty_htlc_id", "holding_cell"}
    BY <1>3 DEF Channel
  <2> QED
    BY <1>2, <2>1 DEF gc_htlcs
<1>6. /\ d.htlcs = {collected(h) : h \in l.htlcs}
      /\ d.next_holder_htlc_id = l.next_holder_htlc_id
      /\ d.next_counterparty_htlc_id = l.next_counterparty_htlc_id
      /\ d.holding_cell = l.holding_cell
  <2> DEFINE B == {collected(h) : h \in l.htlcs}
  <2>1. d = [l EXCEPT !.htlcs = B]
    BY <1>4
  <2> HIDE DEF B, collected
  <2>2. d.htlcs = B /\ d.next_holder_htlc_id = l.next_holder_htlc_id
        /\ d.next_counterparty_htlc_id = l.next_counterparty_htlc_id
        /\ d.holding_cell = l.holding_cell
    BY <1>1, <2>1 DEF Channel
  <2> QED
    BY <2>2 DEF B
<1>7. \A h \in c.htlcs : /\ both_gone(revoked_htlc(h, x)) <=> both_gone(locked_by_revocation(h, x))
                         /\ revoked_htlc(h, x) = collected(locked_by_revocation(h, x))
  <2> SUFFICES ASSUME NEW h \in c.htlcs
               PROVE  /\ both_gone(revoked_htlc(h, x)) <=> both_gone(locked_by_revocation(h, x))
                      /\ revoked_htlc(h, x) = collected(locked_by_revocation(h, x))
    OBVIOUS
  <2>1. h \in Htlc /\ well_phased(n, h)
    BY DEF Channel, sound
  <2>2. /\ htlc_ref(h) \in x.included => h.phase_counterparty = "Pending"
        /\ htlc_ref(h) \in x.removed => h.phase_counterparty = "Removing"
    BY DEF lists
  <2>3. both_gone(revoked_htlc(h, x)) <=> both_gone(locked_by_revocation(h, x))
    BY <2>1, <2>2, RevokeOne
  <2> QED
    BY <2>3 DEF revoked_htlc
<1>8. d.htlcs = {revoked_htlc(h, x) : h \in {g \in c.htlcs : ~both_gone(revoked_htlc(g, x))}}
  <2> HIDE DEF collected
  <2>1. d.htlcs = {collected(h) : h \in {g \in A : ~both_gone(g)}}
    BY <1>3, <1>5, <1>6
  <2>2. d.htlcs = {collected(locked_by_revocation(h, x)) :
                     h \in {g \in c.htlcs : ~both_gone(locked_by_revocation(g, x))}}
    BY <2>1 DEF A
  <2> QED
    BY <1>7, <2>2
<1> QED
  BY <1>1, <1>3, <1>5, <1>6, <1>8 DEF d

\* The stages after on_revoke_and_ack, before the flush.
LEMMA RevokeStages ==
  ASSUME NEW n \in Party, NEW c \in Channel, sound(n, c), NEW x \in PendingCommitment,
         lists(c, x), lock_counterparty_side(c, x) \in Channel, after_revocation(c, x) \in Channel
  PROVE  LET d == after_revocation(c, x)
         IN  /\ sound(n, d)
             /\ \A p \in Payment :
                  /\ stage(d, p) = revoke_stage(Payer[p] = n, stage(c, p),
                                                htlc_ref(rec(c, p)) \in x.included,
                                                htlc_ref(rec(c, p)) \in x.removed)
                  /\ has(d, p) => same_htlc(c, d, p)
<1> DEFINE d == after_revocation(c, x)
           K == {g \in c.htlcs : ~both_gone(revoked_htlc(g, x))}
           f == [h \in K |-> revoked_htlc(h, x)]
           i(h) == htlc_ref(h) \in x.included
           r(h) == htlc_ref(h) \in x.removed
<1>1. /\ d \in Channel /\ d.htlcs = {revoked_htlc(h, x) : h \in K}
      /\ d.next_holder_htlc_id = c.next_holder_htlc_id
      /\ d.next_counterparty_htlc_id = c.next_counterparty_htlc_id
  BY RevokeFields
<1>2. ASSUME NEW h \in c.htlcs
      PROVE  /\ revoked_htlc(h, x) \in Htlc /\ revoked_htlc(h, x).payment = h.payment
             /\ revoked_htlc(h, x).id = h.id /\ revoked_htlc(h, x).outbound = h.outbound
             /\ revoked_htlc(h, x).resolution = h.resolution
             /\ h \notin K <=> h.outbound /\ near(h) = "Gone" /\ r(h)
             /\ h \in K => /\ near(revoked_htlc(h, x)) = revoke_stage(h.outbound, near(h), i(h), r(h))
                           /\ well_phased(n, revoked_htlc(h, x))
             /\ h.outbound <=> Payer[h.payment] = n
  <2>1. h \in Htlc /\ well_phased(n, h)
    BY DEF Channel, sound
  <2>2. h.outbound <=> Payer[h.payment] = n
    BY <2>1 DEF well_phased
  <2>3. /\ i(h) => h.phase_counterparty = "Pending"
        /\ r(h) => h.phase_counterparty = "Removing"
    BY DEF lists
  <2> QED
    BY <2>1, <2>2, <2>3, RevokeOne
<1>3. /\ f \in [K -> Htlc] /\ K \in SUBSET c.htlcs
      /\ \A h \in K : f[h] = revoked_htlc(h, x)
      /\ d.htlcs = {f[h] : h \in K}
  <2>1. K \in SUBSET c.htlcs /\ \A h \in K : f[h] = revoked_htlc(h, x)
    OBVIOUS
  <2>2. f \in [K -> Htlc]
    BY <1>2
  <2> HIDE DEF f, K, d
  <2> QED
    BY <1>1, <2>1, <2>2
<1> HIDE DEF i, r
<1>4. \A h \in K : /\ f[h].payment = h.payment /\ f[h].id = h.id
                   /\ f[h].outbound <=> h.outbound
                   /\ f[h].resolution = h.resolution
                   /\ well_phased(n, f[h])
                   /\ near(f[h]) = revoke_stage(h.outbound, near(h), i(h), r(h))
  BY <1>2, <1>3
<1>5. \A h \in c.htlcs : /\ h \notin K <=> h.outbound /\ near(h) = "Gone" /\ r(h)
                         /\ h.outbound <=> Payer[h.payment] = n
  BY <1>2
<1> HIDE DEF d, K, f
<1>6. /\ sound(n, d)
      /\ \A p : /\ has(d, p) <=> has(c, p) /\ rec(c, p) \in K
                /\ has(d, p) => rec(d, p) = f[rec(c, p)] /\ rec(c, p) \in K
  <2>1. \A h \in K : /\ f[h].payment = h.payment /\ f[h].id = h.id
                     /\ f[h].outbound <=> h.outbound
                     /\ well_phased(n, f[h])
    BY <1>4
  <2>2. image_of(n, c, d, K, f)
    BY <1>1, <1>3, <2>1 DEF image_of
  <2> QED
    BY <1>1, <2>2, ImageSound
<1>7. ASSUME NEW p \in Payment
      PROVE  /\ stage(d, p) = revoke_stage(Payer[p] = n, stage(c, p), i(rec(c, p)), r(rec(c, p)))
             /\ has(d, p) => same_htlc(c, d, p)
  <2>1. has(c, p) => rec(c, p) \in c.htlcs /\ rec(c, p).payment = p
    BY RecordOf DEF sound
  <2>2. has(d, p) => same_htlc(c, d, p)
    BY <1>4, <1>6 DEF same_htlc
  <2>3. stage(d, p) = revoke_stage(Payer[p] = n, stage(c, p), i(rec(c, p)), r(rec(c, p)))
    <3>1. CASE has(d, p)
      BY <1>4, <1>5, <1>6, <2>1, <3>1 DEF stage, revoke_stage
    <3>2. CASE ~has(d, p) /\ has(c, p)
      BY <1>5, <1>6, <2>1, <3>2 DEF stage, revoke_stage
    <3>3. CASE ~has(d, p) /\ ~has(c, p)
      BY <3>3 DEF stage, revoke_stage
    <3> QED
      BY <1>6, <3>1, <3>2, <3>3
  <2> QED
    BY <2>2, <2>3
<1> QED
  BY <1>6, <1>7 DEF d, i, r

-----------------------------------------------------------------------------
(* Offering and resolving HTLCs: the calls ops[i], i \in S, at once. *)

\* d has the HTLCs of c and those of N, of new payments and with new references.
extended(n, c, d, N) ==
  /\ N \in SUBSET Htlc /\ d.htlcs = c.htlcs \cup N
  /\ \A g \in N : /\ well_phased(n, g) /\ ~has(c, g.payment)
                  /\ \A h \in c.htlcs : htlc_ref(h) # htlc_ref(g)
                  /\ g.outbound => g.id < d.next_holder_htlc_id
                  /\ ~g.outbound => g.id < d.next_counterparty_htlc_id
  /\ \A g, h \in N : g.payment = h.payment \/ htlc_ref(g) = htlc_ref(h) => g = h
  /\ c.next_holder_htlc_id <= d.next_holder_htlc_id
  /\ c.next_counterparty_htlc_id <= d.next_counterparty_htlc_id

\* HTLCs of new payments next to those a channel has.
LEMMA NewSound ==
  ASSUME NEW n \in Party, NEW c \in Channel, NEW d \in Channel, sound(n, c),
         NEW N, extended(n, c, d, N)
  PROVE  /\ sound(n, d)
         /\ \A p : has(c, p) => has(d, p) /\ rec(d, p) = rec(c, p)
         /\ \A g \in N : has(d, g.payment) /\ rec(d, g.payment) = g
         /\ \A p : has(d, p) => has(c, p) \/ \E g \in N : g.payment = p
<1> SUFFICES ASSUME N \in SUBSET Htlc, d.htlcs = c.htlcs \cup N,
                    \A g \in N : /\ well_phased(n, g) /\ ~has(c, g.payment)
                                 /\ \A h \in c.htlcs : htlc_ref(h) # htlc_ref(g)
                                 /\ g.outbound => g.id < d.next_holder_htlc_id
                                 /\ ~g.outbound => g.id < d.next_counterparty_htlc_id,
                    \A g, h \in N : g.payment = h.payment \/ htlc_ref(g) = htlc_ref(h) => g = h,
                    c.next_holder_htlc_id <= d.next_holder_htlc_id,
                    c.next_counterparty_htlc_id <= d.next_counterparty_htlc_id
             PROVE  /\ sound(n, d)
                    /\ \A p : has(c, p) => has(d, p) /\ rec(d, p) = rec(c, p)
                    /\ \A g \in N : has(d, g.payment) /\ rec(d, g.payment) = g
                    /\ \A p : has(d, p) => has(c, p) \/ \E g \in N : g.payment = p
  BY DEF extended
<1>1. c.htlcs \in SUBSET Htlc
  BY DEF Channel
<1>2. unique(d)
  <2> SUFFICES ASSUME NEW g \in d.htlcs, NEW h \in d.htlcs,
                      g.payment = h.payment \/ htlc_ref(g) = htlc_ref(h)
               PROVE  g = h
    BY DEF unique
  <2>1. CASE g \in c.htlcs /\ h \in c.htlcs
    BY <2>1 DEF sound, unique
  <2>2. CASE g \in N /\ h \in N
    BY <2>2
  <2>3. CASE g \in N /\ h \in c.htlcs
    BY <2>3 DEF has
  <2>4. CASE g \in c.htlcs /\ h \in N
    BY <2>4 DEF has
  <2> QED
    BY <2>1, <2>2, <2>3, <2>4
<1>3. ids_fresh(d)
  <2> SUFFICES ASSUME NEW h \in d.htlcs
               PROVE  /\ h.outbound => h.id < d.next_holder_htlc_id
                      /\ ~h.outbound => h.id < d.next_counterparty_htlc_id
    BY DEF ids_fresh
  <2>1. CASE h \in N
    BY <2>1
  <2>2. CASE h \in c.htlcs
    <3>1. /\ h.outbound => h.id < c.next_holder_htlc_id
          /\ ~h.outbound => h.id < c.next_counterparty_htlc_id
      BY <2>2 DEF sound, ids_fresh
    <3>2. h.id \in Nat
      BY <1>1, <2>2 DEF Htlc
    <3>3. /\ c.next_holder_htlc_id \in Nat /\ d.next_holder_htlc_id \in Nat
          /\ c.next_counterparty_htlc_id \in Nat /\ d.next_counterparty_htlc_id \in Nat
      BY DEF Channel
    <3> QED
      BY <3>1, <3>2, <3>3
  <2> QED
    BY <2>1, <2>2
<1>4. sound(n, d)
  BY <1>2, <1>3 DEF sound
<1>5. ASSUME NEW p, has(c, p) PROVE has(d, p) /\ rec(d, p) = rec(c, p)
  <2>1. rec(c, p) \in c.htlcs /\ rec(c, p).payment = p
    BY <1>5 DEF has, rec
  <2> QED
    BY <1>2, <2>1, RecordOf
<1>6. ASSUME NEW g \in N PROVE has(d, g.payment) /\ rec(d, g.payment) = g
  BY <1>2, RecordOf
<1>7. ASSUME NEW p, has(d, p) PROVE has(c, p) \/ \E g \in N : g.payment = p
  BY <1>7 DEF has
<1> QED
  BY <1>4, <1>5, <1>6, <1>7

\* The calls ops[i], i \in S, can all succeed on c: adds of new payments, and one
\* resolution for each of some committed inbound HTLCs.
callable(n, c, ops, S) ==
  \A i \in S :
    /\ ops[i].op = "Add" =>
         /\ Payer[ops[i].payment] = n /\ ~has(c, ops[i].payment)
         /\ \A j \in S : ops[j].op = "Add" /\ ops[j].payment = ops[i].payment => j = i
    /\ ops[i].op # "Add" =>
         /\ \E h \in c.htlcs : inbound_committed(h, ops[i].id)
         /\ \A j \in S : ops[j].op # "Add" /\ ops[j].id = ops[i].id => j = i

\* One HTLC through the calls.
LEMMA ResolveOne ==
  ASSUME NEW n \in Party, NEW h \in Htlc, well_phased(n, h), NEW ops \in Seq(Op),
         NEW S \in SUBSET DOMAIN ops,
         \A i, j \in S : ops[i].op # "Add" /\ ops[j].op # "Add" /\ ops[i].id = ops[j].id => i = j
  PROVE  /\ resolve_htlc(h, ops, S) \in Htlc
         /\ resolve_htlc(h, ops, S).payment = h.payment
         /\ resolve_htlc(h, ops, S).id = h.id
         /\ resolve_htlc(h, ops, S).outbound = h.outbound
         /\ well_phased(n, resolve_htlc(h, ops, S))
         /\ \A j \in S : ops[j].op # "Add" /\ inbound_committed(h, ops[j].id) =>
              /\ near(h) = "Committed" /\ ~h.outbound /\ near(resolve_htlc(h, ops, S)) = "Removing"
              /\ resolve_htlc(h, ops, S).resolution = Some(ops[j].op)
         /\ (~ \E j \in S : ops[j].op # "Add" /\ inbound_committed(h, ops[j].id))
              => resolve_htlc(h, ops, S) = h
<1>1. \A i \in S : ops[i].op # "Add" => ops[i].op \in HtlcResolution
  <2>1. \A i \in S : ops[i] \in Op
    OBVIOUS
  <2> QED
    BY <2>1 DEF Op, HtlcResolution
<1>2. CASE ~ \E j \in S : ops[j].op # "Add" /\ inbound_committed(h, ops[j].id)
  BY <1>2 DEF resolve_htlc
<1>3. ASSUME NEW j \in S, ops[j].op # "Add", inbound_committed(h, ops[j].id)
      PROVE  /\ resolve_htlc(h, ops, S) \in Htlc
             /\ resolve_htlc(h, ops, S).payment = h.payment
             /\ resolve_htlc(h, ops, S).id = h.id
             /\ resolve_htlc(h, ops, S).outbound = h.outbound
             /\ well_phased(n, resolve_htlc(h, ops, S))
             /\ near(h) = "Committed" /\ ~h.outbound /\ near(resolve_htlc(h, ops, S)) = "Removing"
             /\ resolve_htlc(h, ops, S).resolution = Some(ops[j].op)
  <2> DEFINE k == CHOOSE k \in S : ops[k].op # "Add" /\ inbound_committed(h, ops[k].id)
             g == resolve_htlc(h, ops, S)
  <2>1. k \in S /\ ops[k].op # "Add" /\ inbound_committed(h, ops[k].id)
    BY <1>3
  <2>2. g = [h EXCEPT !.resolution = Some(ops[k].op), !.phase_counterparty = "Removing"]
    BY <1>3 DEF resolve_htlc
  <2> HIDE DEF k, g
  <2>3. k = j
    BY <1>3, <2>1, Zenon DEF inbound_committed
  <2>4. ~h.outbound /\ h.phase_holder = "Committed" /\ h.phase_counterparty = "Committed"
    BY <1>3 DEF inbound_committed, committed
  <2>5. ops[k].op \in HtlcResolution
    BY <1>1, <2>1
  <2>6. /\ g \in Htlc /\ g.payment = h.payment /\ g.id = h.id /\ g.outbound = h.outbound
        /\ g.processed = h.processed /\ g.resolution = Some(ops[k].op)
        /\ g.phase_counterparty = "Removing" /\ g.phase_holder = h.phase_holder
    <3>1. Some(ops[k].op) \in SUBSET HtlcResolution
      BY <2>5 DEF Some
    <3> QED
      BY <2>2, <3>1, Zenon DEF Htlc, Phase
  <2>7. near(h) = "Committed" /\ near(g) = "Removing" /\ far(g) = "Committed"
    BY <2>4, <2>6 DEF near, far, phase_on
  <2>8. well_phased(n, g)
    BY <2>4, <2>5, <2>6, <2>7 DEF well_phased
  <2> QED
    BY <2>3, <2>4, <2>6, <2>7, <2>8 DEF g
<1> QED
  BY <1>2, <1>3

\* The call ops[j], j \in S, resolves the HTLC of p.
resolves(c, ops, S, j, p) ==
  j \in S /\ ops[j].op # "Add" /\ has(c, p) /\ inbound_committed(rec(c, p), ops[j].id)

\* The call ops[j], j \in S, offers p.
offers(ops, S, j, p) == j \in S /\ ops[j].op = "Add" /\ ops[j].payment = p

\* The stages once the calls have made d of c.
applied(n, c, ops, S, d) ==
  /\ sound(n, d)
  /\ \A p \in Payment :
       /\ \A j : offers(ops, S, j, p) =>
            /\ Payer[p] = n /\ stage(c, p) = "none" /\ stage(d, p) = "NotYet"
            /\ rec(d, p) = offered_htlc(add_id(c, ops, S, j), p)
       /\ \A j : resolves(c, ops, S, j, p) =>
            /\ Payer[p] # n /\ stage(c, p) = "Committed" /\ stage(d, p) = "Removing"
            /\ rec(c, p).id = ops[j].id /\ rec(d, p).id = ops[j].id
            /\ rec(d, p).resolution = Some(ops[j].op)
       /\ (\A j : ~offers(ops, S, j, p) /\ ~resolves(c, ops, S, j, p)) =>
            /\ stage(d, p) = stage(c, p)
            /\ has(d, p) => has(c, p) /\ rec(d, p) = rec(c, p)
  /\ \A j \in S : ops[j].op # "Add" => \E p \in Payment : resolves(c, ops, S, j, p)

\* Calls that succeed leave the channel sound and move the stages they are about.
LEMMA ApplyStages ==
  ASSUME NEW n \in Party, NEW c \in Channel, sound(n, c), NEW ops \in Seq(Op),
         NEW S \in SUBSET DOMAIN ops, callable(n, c, ops, S),
         apply_ops(c, ops, S) \in Channel, ids_ascend(c, ops, S)
  PROVE  applied(n, c, ops, S, apply_ops(c, ops, S))
<1> DEFINE d == apply_ops(c, ops, S)
           K == c.htlcs
           f == [h \in K |-> resolve_htlc(h, ops, S)]
           adds == {i \in S : ops[i].op = "Add"}
           new(i) == offered_htlc(add_id(c, ops, S, i), ops[i].payment)
           N == {new(i) : i \in adds}
           e == [c EXCEPT !.htlcs = {f[h] : h \in K}]
<1>1. c.htlcs \in SUBSET Htlc /\ \A h \in c.htlcs : well_phased(n, h)
  BY DEF Channel, sound
<1>2. \A i, j \in S : ops[i].op # "Add" /\ ops[j].op # "Add" /\ ops[i].id = ops[j].id => i = j
  BY SMTT(20) DEF callable
<1>3. ASSUME NEW h \in K
      PROVE  /\ f[h] \in Htlc /\ f[h].payment = h.payment /\ f[h].id = h.id
             /\ f[h].outbound = h.outbound /\ well_phased(n, f[h])
             /\ \A j \in S : ops[j].op # "Add" /\ inbound_committed(h, ops[j].id) =>
                  /\ near(h) = "Committed" /\ ~h.outbound /\ near(f[h]) = "Removing"
                  /\ f[h].resolution = Some(ops[j].op)
             /\ (~ \E j \in S : ops[j].op # "Add" /\ inbound_committed(h, ops[j].id)) => f[h] = h
  <2>1. h \in Htlc /\ well_phased(n, h) /\ f[h] = resolve_htlc(h, ops, S)
    BY <1>1, Zenon
  <2> HIDE DEF f
  <2> QED
    BY <1>2, <2>1, ResolveOne
<1>4. f \in [K -> Htlc]
  BY <1>3, Zenon
<1>5. d \in Channel
  OBVIOUS
<1>6. e \in Channel /\ e.htlcs = {f[h] : h \in K}
      /\ e.next_holder_htlc_id = c.next_holder_htlc_id
      /\ e.next_counterparty_htlc_id = c.next_counterparty_htlc_id
  <2> DEFINE H == {f[h] : h \in K}
  <2>1. H \in SUBSET Htlc
    BY <1>4, Zenon
  <2> HIDE DEF H
  <2>2. [c EXCEPT !.htlcs = H] \in Channel /\ [c EXCEPT !.htlcs = H].htlcs = H
        /\ [c EXCEPT !.htlcs = H].next_holder_htlc_id = c.next_holder_htlc_id
        /\ [c EXCEPT !.htlcs = H].next_counterparty_htlc_id = c.next_counterparty_htlc_id
    BY <2>1, Zenon DEF Channel
  <2> QED
    BY <2>2 DEF H
<1>7. /\ d.htlcs = {f[h] : h \in K} \cup N
      /\ d.next_counterparty_htlc_id = c.next_counterparty_htlc_id
  <2> DEFINE old == {resolve_htlc(h, ops, S) : h \in c.htlcs}
             all == old \cup N
             id == c.next_holder_htlc_id + Cardinality(adds)
             dirty == c.counterparty_dirty \/ S # {}
  <2>1. d = [c EXCEPT !.htlcs = all, !.next_holder_htlc_id = id, !.counterparty_dirty = dirty]
    BY DEF apply_ops
  <2>2. {f[h] : h \in K} = old
    BY Zenon
  <2> HIDE DEF all, id, dirty, d
  <2>3. d.htlcs = all /\ d.next_counterparty_htlc_id = c.next_counterparty_htlc_id
    BY <2>1 DEF Channel
  <2> QED
    BY <2>2, <2>3, Zenon DEF all
<1>8. /\ sound(n, e)
      /\ \A p : /\ has(e, p) <=> has(c, p)
                /\ has(e, p) => rec(e, p) = f[rec(c, p)] /\ rec(c, p) \in K
  <2>1. \A h \in K : /\ f[h].payment = h.payment /\ f[h].id = h.id
                     /\ f[h].outbound <=> h.outbound
                     /\ well_phased(n, f[h])
    BY <1>3, Zenon
  <2>2. \A p : has(c, p) => rec(c, p) \in K
    BY DEF has, rec
  <2>4. K \in SUBSET c.htlcs
    OBVIOUS
  <2> HIDE DEF f, e, K
  <2>3. /\ sound(n, e)
        /\ \A p : /\ has(e, p) <=> has(c, p) /\ rec(c, p) \in K
                  /\ has(e, p) => rec(e, p) = f[rec(c, p)] /\ rec(c, p) \in K
    <3>1. image_of(n, c, e, K, f)
      BY <1>4, <1>6, <2>1, <2>4 DEF image_of
    <3> QED
      BY <1>6, <3>1, ImageSound
  <2> QED
    BY <2>2, <2>3
<1>9. /\ d.next_holder_htlc_id \in Nat /\ c.next_holder_htlc_id \in Nat
      /\ c.next_holder_htlc_id <= d.next_holder_htlc_id
  <2>1. d.next_holder_htlc_id \in Nat /\ c.next_holder_htlc_id \in Nat
    BY <1>5 DEF Channel
  <2> QED
    BY <2>1 DEF ids_ascend
<1> HIDE DEF d, e, f
<1>10. ASSUME NEW i \in adds
       PROVE  /\ new(i) \in Htlc /\ new(i).payment = ops[i].payment /\ new(i).outbound
              /\ new(i).id = add_id(c, ops, S, i) /\ near(new(i)) = "NotYet"
              /\ well_phased(n, new(i)) /\ ~has(e, ops[i].payment)
              /\ new(i).id < d.next_holder_htlc_id /\ c.next_holder_htlc_id <= new(i).id
              /\ ops[i].payment \in Payment
  <2>1. ops[i] \in Op
    OBVIOUS
  <2>2. ops[i].payment \in Payment
    BY <2>1 DEF Op, HtlcResolution
  <2>3. Payer[ops[i].payment] = n /\ ~has(c, ops[i].payment)
    BY DEF callable
  <2>4. /\ add_id(c, ops, S, i) \in Nat /\ add_id(c, ops, S, i) < d.next_holder_htlc_id
        /\ c.next_holder_htlc_id <= add_id(c, ops, S, i)
    BY SMTT(20) DEF ids_ascend, d
  <2>5. /\ new(i) \in Htlc /\ new(i).payment = ops[i].payment /\ new(i).outbound
        /\ new(i).id = add_id(c, ops, S, i) /\ new(i).resolution = None /\ ~new(i).processed
        /\ new(i).phase_holder = "NotYet" /\ new(i).phase_counterparty = "Pending"
    BY <2>2, <2>4, Zenon DEF offered_htlc, Htlc, Phase, None
  <2>6. near(new(i)) = "NotYet" /\ far(new(i)) = "Pending"
    BY <2>5, SMTT(20) DEF near, far, phase_on
  <2>7. well_phased(n, new(i))
    BY <2>3, <2>5, <2>6, Zenon DEF well_phased
  <2> QED
    BY <1>8, <2>2, <2>3, <2>4, <2>5, <2>6, <2>7, Zenon
<1>11. N \in SUBSET Htlc
  BY <1>10
<1>12. \A g \in N : /\ well_phased(n, g) /\ ~has(e, g.payment)
                    /\ \A h \in e.htlcs : htlc_ref(h) # htlc_ref(g)
                    /\ g.outbound => g.id < d.next_holder_htlc_id
                    /\ ~g.outbound => g.id < d.next_counterparty_htlc_id
  <2> SUFFICES ASSUME NEW i \in adds
               PROVE  /\ well_phased(n, new(i)) /\ ~has(e, new(i).payment)
                      /\ \A h \in e.htlcs : htlc_ref(h) # htlc_ref(new(i))
                      /\ new(i).outbound => new(i).id < d.next_holder_htlc_id
                      /\ ~new(i).outbound => new(i).id < d.next_counterparty_htlc_id
    OBVIOUS
  <2>1. ASSUME NEW h \in e.htlcs, htlc_ref(h) = htlc_ref(new(i)) PROVE FALSE
    <3>1. h.outbound = new(i).outbound /\ h.id = new(i).id
      BY <2>1 DEF htlc_ref
    <3>2. h.outbound
      BY <1>10, <3>1
    <3>3. h.id < c.next_holder_htlc_id /\ h.id \in Nat
      BY <1>6, <1>8, <3>2, Zenon DEF sound, ids_fresh, Channel, Htlc
    <3> QED
      BY <1>9, <1>10, <3>1, <3>3
  <2> HIDE DEF new
  <2> QED
    BY <1>10, <2>1
<1>13. \A i, j \in adds : new(i).payment = new(j).payment \/ htlc_ref(new(i)) = htlc_ref(new(j))
                            => i = j
  <2> SUFFICES ASSUME NEW i \in adds, NEW j \in adds, i # j
               PROVE  new(i).payment # new(j).payment /\ htlc_ref(new(i)) # htlc_ref(new(j))
    BY Zenon
  <2>1. ops[i].payment # ops[j].payment
    BY DEF callable
  <2>2. add_id(c, ops, S, i) # add_id(c, ops, S, j)
    <3>1. i \in Nat /\ j \in Nat
      OBVIOUS
    <3>2. /\ i \in S /\ ops[i].op = "Add"
          /\ j \in S /\ ops[j].op = "Add"
      OBVIOUS
    <3> HIDE DEF adds
    <3>3. add_id(c, ops, S, i) \in Nat /\ add_id(c, ops, S, j) \in Nat
      BY <3>2 DEF ids_ascend
    <3>4. CASE i < j
      <4>1. add_id(c, ops, S, i) < add_id(c, ops, S, j)
        BY <3>2, <3>4 DEF ids_ascend
      <4> QED
        BY <3>3, <4>1
    <3>5. CASE j < i
      <4>1. add_id(c, ops, S, j) < add_id(c, ops, S, i)
        BY <3>2, <3>5, SMTT(20) DEF ids_ascend
      <4> QED
        BY <3>3, <4>1
    <3> QED
      BY <3>1, <3>4, <3>5
  <2>3. new(i).id # new(j).id /\ new(i).payment # new(j).payment
    BY <1>10, <2>1, <2>2, Zenon
  <2> HIDE DEF new
  <2> QED
    BY <2>3 DEF htlc_ref
<1>14. \A g, h \in N : g.payment = h.payment \/ htlc_ref(g) = htlc_ref(h) => g = h
  BY <1>13
<1>15. /\ sound(n, d)
       /\ \A p : has(e, p) => has(d, p) /\ rec(d, p) = rec(e, p)
       /\ \A g \in N : has(d, g.payment) /\ rec(d, g.payment) = g
       /\ \A p : has(d, p) => has(e, p) \/ \E g \in N : g.payment = p
  <2>1. /\ d.htlcs = e.htlcs \cup N
        /\ e.next_holder_htlc_id <= d.next_holder_htlc_id
        /\ e.next_counterparty_htlc_id <= d.next_counterparty_htlc_id
    BY <1>5, <1>6, <1>7, <1>9 DEF Channel
  <2> HIDE DEF N
  <2>2. extended(n, e, d, N)
    BY <1>11, <1>12, <1>14, <2>1 DEF extended
  <2> QED
    BY <1>5, <1>6, <1>8, <2>2, NewSound
<1>16. ASSUME NEW p \in Payment, NEW j, offers(ops, S, j, p)
       PROVE  /\ Payer[p] = n /\ stage(c, p) = "none" /\ stage(d, p) = "NotYet"
              /\ rec(d, p) = new(j)
  <2>1. j \in adds /\ ops[j].payment = p /\ new(j) \in N
    BY <1>16 DEF offers
  <2>2. Payer[p] = n /\ ~has(c, p)
    BY <2>1, SMTT(20) DEF callable
  <2>3. has(d, p) /\ rec(d, p) = new(j) /\ near(new(j)) = "NotYet"
    <3> HIDE DEF new, N
    <3> QED
      BY <1>10, <1>15, <2>1, Zenon
  <2> QED
    BY <2>2, <2>3 DEF stage
<1>17. ASSUME NEW p \in Payment, NEW j, resolves(c, ops, S, j, p)
       PROVE  /\ Payer[p] # n /\ stage(c, p) = "Committed" /\ stage(d, p) = "Removing"
              /\ rec(c, p).id = ops[j].id /\ rec(d, p).id = ops[j].id
              /\ rec(d, p).resolution = Some(ops[j].op)
  <2> DEFINE h == rec(c, p)
  <2>1. has(c, p) /\ h \in K /\ h.payment = p
    BY <1>17, RecordOf, Zenon DEF resolves, sound
  <2>2. has(d, p) /\ rec(d, p) = f[h]
    BY <1>8, <1>15, <2>1
  <2>3. j \in S /\ ops[j].op # "Add" /\ inbound_committed(h, ops[j].id) /\ h.id = ops[j].id
    BY <1>17 DEF resolves, inbound_committed
  <2>4. well_phased(n, h)
    BY <1>1, <2>1, SMTT(20)
  <2> HIDE DEF h
  <2>5. near(h) = "Committed" /\ ~h.outbound /\ near(f[h]) = "Removing"
        /\ f[h].resolution = Some(ops[j].op) /\ f[h].id = h.id
    BY <1>3, <2>1, <2>3
  <2>6. Payer[p] # n
    BY <2>1, <2>4, <2>5 DEF well_phased
  <2> QED
    BY <2>1, <2>2, <2>3, <2>5, <2>6, Zenon DEF stage, h
<1>18. ASSUME NEW p \in Payment, \A j : ~offers(ops, S, j, p) /\ ~resolves(c, ops, S, j, p)
       PROVE  /\ stage(d, p) = stage(c, p)
              /\ has(d, p) => has(c, p) /\ rec(d, p) = rec(c, p)
  <2>1. ~ \E g \in N : g.payment = p
    <3> SUFFICES ASSUME NEW i \in adds, new(i).payment = p PROVE FALSE
      OBVIOUS
    <3>1. ops[i].payment = p
      BY <1>10, Zenon
    <3> QED
      BY <1>18, <3>1 DEF offers
  <2> HIDE DEF N
  <2>2. has(d, p) <=> has(c, p)
    BY <1>8, <1>15, <2>1
  <2>3. ASSUME has(c, p) PROVE rec(d, p) = rec(c, p)
    <3> DEFINE h == rec(c, p)
    <3>1. h \in K /\ rec(d, p) = f[h]
      BY <1>8, <1>15, <2>3
    <3>2. ~ \E j \in S : ops[j].op # "Add" /\ inbound_committed(h, ops[j].id)
      BY <1>18, <2>3 DEF resolves
    <3> HIDE DEF h
    <3>3. f[h] = h
      BY <1>3, <3>1, <3>2, Zenon
    <3> QED
      BY <3>1, <3>3 DEF h
  <2> QED
    BY <2>2, <2>3 DEF stage
<1>19. ASSUME NEW j \in S, ops[j].op # "Add" PROVE \E p \in Payment : resolves(c, ops, S, j, p)
  <2>1. PICK h \in c.htlcs : inbound_committed(h, ops[j].id)
    BY <1>19 DEF callable
  <2>2. h.payment \in Payment
    BY <1>1 DEF Htlc
  <2>3. has(c, h.payment) /\ rec(c, h.payment) = h
    BY RecordOf DEF sound
  <2> QED
    BY <1>19, <2>1, <2>2, <2>3 DEF resolves
<1>20. ASSUME NEW p \in Payment, NEW j, offers(ops, S, j, p)
       PROVE  new(j) = offered_htlc(add_id(c, ops, S, j), p)
  BY <1>20, SMTT(20) DEF offers
<1> HIDE DEF new
<1>21. \A p \in Payment :
         /\ \A j : offers(ops, S, j, p) =>
              /\ Payer[p] = n /\ stage(c, p) = "none" /\ stage(d, p) = "NotYet"
              /\ rec(d, p) = offered_htlc(add_id(c, ops, S, j), p)
         /\ \A j : resolves(c, ops, S, j, p) =>
              /\ Payer[p] # n /\ stage(c, p) = "Committed" /\ stage(d, p) = "Removing"
              /\ rec(c, p).id = ops[j].id /\ rec(d, p).id = ops[j].id
              /\ rec(d, p).resolution = Some(ops[j].op)
         /\ (\A j : ~offers(ops, S, j, p) /\ ~resolves(c, ops, S, j, p)) =>
              /\ stage(d, p) = stage(c, p)
              /\ has(d, p) => has(c, p) /\ rec(d, p) = rec(c, p)
  BY <1>16, <1>17, <1>18, <1>20, Zenon
<1>22. \A j \in S : ops[j].op # "Add" => \E p \in Payment : resolves(c, ops, S, j, p)
  BY <1>19, Zenon
<1>23. sound(n, d)
  BY <1>15, Zenon
<1> QED
  BY <1>21, <1>22, <1>23, Zenon DEF d, applied

-----------------------------------------------------------------------------
(* Streams and holding cells: whether, and how often, an element of M occurs. *)

\* A sequence that got one more element.
LEMMA AppendOf ==
  ASSUME NEW T, NEW q \in Seq(T), NEW m \in T, NEW M
  PROVE  /\ m \notin M => /\ clear(Append(q, m), M) <=> clear(q, M)
                          /\ lone(q, M) => lone(Append(q, m), M)
         /\ m \in M => /\ clear(q, M) => lone(Append(q, m), M)
                       /\ ~clear(Append(q, m), M)
<1> DEFINE r == Append(q, m)
<1>1. /\ Len(q) \in Nat /\ Len(r) = Len(q) + 1
      /\ \A i \in 1..Len(q) : r[i] = q[i]
      /\ r[Len(q) + 1] = m
  OBVIOUS
<1> HIDE DEF r
<1>2. \A i \in 1..Len(r) : i \in 1..Len(q) \/ i = Len(q) + 1
  BY <1>1
<1>3. \A i \in 1..Len(q) : i \in 1..Len(r)
  BY <1>1
<1>4. Len(q) + 1 \in 1..Len(r)
  BY <1>1
<1>5. m \notin M => (clear(r, M) <=> clear(q, M)) /\ (lone(q, M) => lone(r, M))
  BY <1>1, <1>2, <1>3 DEF clear, lone
<1>6. m \in M => (clear(q, M) => lone(r, M)) /\ ~clear(r, M)
  BY <1>1, <1>2, <1>4 DEF clear, lone
<1> QED
  BY <1>5, <1>6 DEF r

\* A sequence whose first element was taken.
LEMMA TailOf ==
  ASSUME NEW T, NEW q \in Seq(T), q # <<>>, NEW M
  PROVE  /\ clear(q, M) => clear(Tail(q), M)
         /\ lone(q, M) => lone(Tail(q), M)
         /\ Head(q) \in M => ~clear(q, M) /\ (lone(q, M) => clear(Tail(q), M))
         /\ Head(q) \notin M => (clear(Tail(q), M) <=> clear(q, M))
<1> DEFINE r == Tail(q)
<1>1. /\ Len(q) \in Nat /\ Len(q) > 0 /\ Len(r) = Len(q) - 1
      /\ \A i \in 1..Len(r) : r[i] = q[i + 1]
      /\ Head(q) = q[1]
  OBVIOUS
<1> HIDE DEF r
<1>2. \A i \in 1..Len(r) : i + 1 \in 1..Len(q) /\ i + 1 # 1 /\ i \in Nat
  BY <1>1
<1>3. \A i \in 1..Len(q) : i = 1 \/ (i - 1 \in 1..Len(r) /\ q[i] = r[i - 1])
  <2> SUFFICES ASSUME NEW i \in 1..Len(q), i # 1 PROVE i - 1 \in 1..Len(r) /\ q[i] = r[i - 1]
    OBVIOUS
  <2>1. i - 1 \in 1..Len(r) /\ i - 1 + 1 = i
    BY <1>1
  <2> QED
    BY <1>1, <2>1
<1>4. 1 \in 1..Len(q)
  BY <1>1
<1>5. clear(q, M) => clear(r, M)
  BY <1>1, <1>2 DEF clear
<1>6. lone(q, M) => lone(r, M)
  <2> SUFFICES ASSUME lone(q, M), NEW i \in 1..Len(r), NEW j \in 1..Len(r), r[i] \in M, r[j] \in M
               PROVE  i = j
    BY DEF lone
  <2>1. i + 1 = j + 1
    BY <1>1, <1>2, Zenon DEF lone
  <2> QED
    BY <1>2, <2>1
<1>7. Head(q) \in M => ~clear(q, M) /\ (lone(q, M) => clear(r, M))
  BY <1>1, <1>2, <1>4 DEF clear, lone
<1>8. Head(q) \notin M => (clear(r, M) <=> clear(q, M))
  BY <1>1, <1>3, <1>5 DEF clear
<1> QED
  BY <1>5, <1>6, <1>7, <1>8 DEF r

\* A sequence that got several more elements.
LEMMA ConcatOf ==
  ASSUME NEW T, NEW q \in Seq(T), NEW u \in Seq(T), NEW M
  PROVE  /\ q \o u \in Seq(T)
         /\ clear(q \o u, M) <=> clear(q, M) /\ clear(u, M)
         /\ lone(q, M) /\ clear(u, M) => lone(q \o u, M)
         /\ clear(q, M) /\ lone(u, M) => lone(q \o u, M)
<1> DEFINE r == q \o u
<1>1. /\ Len(q) \in Nat /\ Len(u) \in Nat /\ Len(r) = Len(q) + Len(u)
      /\ \A i \in 1..Len(q) + Len(u) : r[i] = IF i <= Len(q) THEN q[i] ELSE u[i - Len(q)]
  OBVIOUS
<1>0. r \in Seq(T)
  OBVIOUS
<1> HIDE DEF r
<1>2. \A i \in 1..Len(r) : \/ i \in 1..Len(q) /\ r[i] = q[i]
                           \/ i - Len(q) \in 1..Len(u) /\ r[i] = u[i - Len(q)] /\ i \in Nat
  BY <1>1
<1>3. \A i \in 1..Len(q) : i \in 1..Len(r) /\ r[i] = q[i]
  BY <1>1
<1>4. \A i \in 1..Len(u) : i + Len(q) \in 1..Len(r) /\ r[i + Len(q)] = u[i]
  <2> SUFFICES ASSUME NEW i \in 1..Len(u)
               PROVE  i + Len(q) \in 1..Len(r) /\ r[i + Len(q)] = u[i]
    OBVIOUS
  <2>1. i + Len(q) \in 1..Len(r) /\ ~(i + Len(q) <= Len(q)) /\ (i + Len(q)) - Len(q) = i
    BY <1>1
  <2> QED
    BY <1>1, <2>1
<1>5. clear(r, M) <=> clear(q, M) /\ clear(u, M)
  <2>1. clear(r, M) => clear(q, M) /\ clear(u, M)
    BY <1>3, <1>4, Zenon DEF clear
  <2>2. clear(q, M) /\ clear(u, M) => clear(r, M)
    BY <1>2 DEF clear
  <2> QED
    BY <2>1, <2>2
<1>6. lone(q, M) /\ clear(u, M) => lone(r, M)
  BY <1>2, Zenon DEF clear, lone
<1>7. clear(q, M) /\ lone(u, M) => lone(r, M)
  <2> SUFFICES ASSUME clear(q, M), lone(u, M), NEW i \in 1..Len(r), NEW j \in 1..Len(r),
                      r[i] \in M, r[j] \in M
               PROVE  i = j
    BY DEF lone
  <2>1. i - Len(q) \in 1..Len(u) /\ u[i - Len(q)] \in M /\ i \in Nat
    BY <1>2 DEF clear
  <2>2. j - Len(q) \in 1..Len(u) /\ u[j - Len(q)] \in M /\ j \in Nat
    BY <1>2 DEF clear
  <2>3. i - Len(q) = j - Len(q)
    BY <2>1, <2>2 DEF lone
  <2> QED
    BY <1>1, <2>1, <2>2, <2>3
<1> QED
  BY <1>0, <1>5, <1>6, <1>7 DEF r

\* Adds of the holding cell are of own payments not offered yet, each once.
cell_sound(n, c) ==
  \A p \in Payment : ~clear(c.holding_cell, {Add(p)}) =>
    Payer[p] = n /\ ~has(c, p) /\ lone(c.holding_cell, {Add(p)})

\* An add in a sequence of calls.
LEMMA AddInCell ==
  ASSUME NEW ops \in Seq(Op), NEW i \in DOMAIN ops, ops[i].op = "Add"
  PROVE  /\ ops[i].payment \in Payment /\ ops[i] = Add(ops[i].payment)
         /\ ~clear(ops, {Add(ops[i].payment)})
<1>1. DOMAIN ops = 1..Len(ops) /\ ops[i] \in Op
  OBVIOUS
<1>2. ops[i] \in [op : {"Add"}, payment : Payment]
  BY <1>1 DEF Op, HtlcResolution
<1>3. ops[i].payment \in Payment /\ ops[i] = Add(ops[i].payment)
  BY <1>2 DEF Add
<1> QED
  BY <1>1, <1>3 DEF clear

\* What the flush performs can be performed at once.
LEMMA FlushCallable ==
  ASSUME NEW n \in Party, NEW c \in Channel, cell_sound(n, c),
         NEW S \in SUBSET DOMAIN c.holding_cell, flushes(n, c, S)
  PROVE  callable(n, c, c.holding_cell, S)
<1> DEFINE ops == c.holding_cell
<1>1. ops \in Seq(Op) /\ DOMAIN ops = 1..Len(ops) /\ Len(ops) \in Nat
  BY DEF Channel
<1>2. ASSUME NEW i \in S, ops[i].op = "Add"
      PROVE  /\ Payer[ops[i].payment] = n /\ ~has(c, ops[i].payment)
             /\ \A j \in S : ops[j].op = "Add" /\ ops[j].payment = ops[i].payment => j = i
  <2> DEFINE p == ops[i].payment
  <2>1. p \in Payment /\ ops[i] = Add(p) /\ ~clear(ops, {Add(p)})
    BY <1>1, <1>2, AddInCell, Zenon
  <2>2. Payer[p] = n /\ ~has(c, p) /\ lone(ops, {Add(p)})
    BY <2>1 DEF cell_sound
  <2>3. \A j \in S : ops[j].op = "Add" /\ ops[j].payment = p => ops[j] = Add(p)
    BY <1>1, AddInCell, Zenon
  <2> HIDE DEF ops, p
  <2> QED
    BY <1>1, <2>1, <2>2, <2>3 DEF lone, p, ops
<1>3. ASSUME NEW i \in S, ops[i].op # "Add"
      PROVE  /\ \E h \in c.htlcs : inbound_committed(h, ops[i].id)
             /\ \A j \in S : j < i => ~(ops[j].op # "Add" /\ ops[j].id = ops[i].id)
  <2> DEFINE T == {j \in S : j < i}
             adds == {k \in T : ops[k].op = "Add"}
             d == apply_ops(c, ops, T)
  <2>1. permits(n, d, ops[i])
    BY DEF flushes
  <2>2. PICK g \in d.htlcs : inbound_committed(g, ops[i].id)
    BY <1>3, <2>1 DEF permits
  <2>3. d.htlcs = {resolve_htlc(h, ops, T) : h \in c.htlcs}
                    \cup {offered_htlc(add_id(c, ops, T, k), ops[k].payment) : k \in adds}
    BY DEF apply_ops, Channel
  <2>4. ~g.outbound
    BY <2>2 DEF inbound_committed
  <2>5. PICK h \in c.htlcs : g = resolve_htlc(h, ops, T)
    <3>1. \A a, b : offered_htlc(a, b).outbound
      BY DEF offered_htlc
    <3> HIDE DEF ops, T, adds, d
    <3> QED
      BY <2>3, <2>4, <3>1
  <2>6. h \in Htlc
    BY DEF Channel
  <2>7. ~ \E j \in T : ops[j].op # "Add" /\ inbound_committed(h, ops[j].id)
    <3> SUFFICES ASSUME NEW k0 \in T, ops[k0].op # "Add", inbound_committed(h, ops[k0].id)
                 PROVE FALSE
      OBVIOUS
    <3> DEFINE k == CHOOSE j \in T : ops[j].op # "Add" /\ inbound_committed(h, ops[j].id)
    <3>1. g = [h EXCEPT !.resolution = Some(ops[k].op), !.phase_counterparty = "Removing"]
      BY <2>5, Zenon DEF resolve_htlc
    <3>2. g.phase_counterparty = "Removing"
      BY <2>6, <3>1 DEF Htlc
    <3> QED
      BY <2>2, <3>2 DEF inbound_committed, committed
  <2>8. g = h
    BY <2>5, <2>7 DEF resolve_htlc
  <2> QED
    BY <2>2, <2>7, <2>8
<1>4. ASSUME NEW i \in S, NEW j \in S, ops[i].op # "Add", ops[j].op # "Add", ops[j].id = ops[i].id
      PROVE  i = j
  <2>1. i \in Nat /\ j \in Nat
    BY <1>1
  <2> QED
    BY <1>3, <1>4, <2>1
<1> QED
  BY <1>2, <1>3, <1>4, Zenon DEF callable

\* A call that succeeds at once.
LEMMA SendCallable ==
  ASSUME NEW n \in Party, NEW c \in Channel, NEW op \in Op, permits(n, c, op),
         op.op = "Add" => Payer[op.payment] = n /\ ~has(c, op.payment)
  PROVE  /\ <<op>> \in Seq(Op) /\ {1} \in SUBSET DOMAIN <<op>> /\ <<op>>[1] = op
         /\ callable(n, c, <<op>>, {1})
  BY DEF callable, permits

-----------------------------------------------------------------------------
(* The HTLCs of a channel on the commitments. *)

\* g is h, perhaps in other phases.
continues(g, h) == g.outbound = h.outbound /\ g.id = h.id /\ g.payment = h.payment

\* No HTLC of d is newly committed on our side.
holder_keeps(c, d) ==
  \A g \in d.htlcs : g.phase_holder = "Committed" =>
    \E h \in c.htlcs : continues(g, h) /\ h.phase_holder = "Committed"

\* No HTLC of d is newly committed on the peer's side, none leaves the phases that
\* records are made of, and those that are new have new ids.
counterparty_keeps(c, d) ==
  /\ c.next_holder_htlc_id <= d.next_holder_htlc_id
  /\ c.next_counterparty_htlc_id <= d.next_counterparty_htlc_id
  /\ \A g \in d.htlcs :
       \/ \E h \in c.htlcs :
            /\ continues(g, h)
            /\ g.phase_counterparty = "Committed" => h.phase_counterparty = "Committed"
            /\ h.phase_counterparty = "Pending" => g.phase_counterparty = "Pending"
            /\ h.phase_counterparty = "Removing" => g.phase_counterparty = "Removing"
       \/ /\ g.phase_counterparty # "Committed"
          /\ g.outbound => c.next_holder_htlc_id <= g.id
          /\ ~g.outbound => c.next_counterparty_htlc_id <= g.id

\* An HTLC has the same output, whatever its phases.
LEMMA SameOutput ==
  ASSUME NEW g, NEW h, continues(g, h)
  PROVE  /\ htlc_ref(g) = htlc_ref(h)
         /\ \A s : htlc_in_commitment(g, s) = htlc_in_commitment(h, s)
  BY DEF continues, htlc_ref, htlc_in_commitment

\* Our commitment is as good for a channel that keeps our side.
LEMMA HolderKept ==
  ASSUME NEW c, NEW d, NEW k, holder_keeps(c, d), on_holder(c, k)
  PROVE  on_holder(d, k)
<1> SUFFICES ASSUME NEW g \in d.htlcs, g.phase_holder = "Committed"
             PROVE  htlc_in_commitment(g, TRUE) \in k.htlcs
  BY Zenon DEF on_holder
<1>1. PICK h \in c.htlcs : continues(g, h) /\ h.phase_holder = "Committed"
  BY DEF holder_keeps
<1>2. htlc_in_commitment(g, TRUE) = htlc_in_commitment(h, TRUE)
  BY <1>1, SameOutput, Zenon
<1> QED
  BY <1>1, <1>2, Zenon DEF on_holder

\* The peer's commitments and the record are as good for a channel that keeps the peer's side.
LEMMA CounterpartyKept ==
  ASSUME NEW c \in Channel, NEW d \in Channel, counterparty_keeps(c, d)
  PROVE  /\ \A k : on_counterparty(c, k) => on_counterparty(d, k)
         /\ \A x \in PendingCommitment : recorded(c, x) => recorded(d, x)
<1>1. ASSUME NEW k, on_counterparty(c, k) PROVE on_counterparty(d, k)
  <2> SUFFICES ASSUME NEW g \in d.htlcs, g.phase_counterparty = "Committed"
               PROVE  htlc_in_commitment(g, FALSE) \in k.htlcs
    BY Zenon DEF on_counterparty
  <2>1. PICK h \in c.htlcs : continues(g, h) /\ h.phase_counterparty = "Committed"
    BY DEF counterparty_keeps
  <2>2. htlc_in_commitment(g, FALSE) = htlc_in_commitment(h, FALSE)
    BY <2>1, SameOutput, Zenon
  <2> QED
    BY <1>1, <2>1, <2>2, Zenon DEF on_counterparty
<1>2. ASSUME NEW x \in PendingCommitment, recorded(c, x) PROVE recorded(d, x)
  <2>1. /\ c.next_holder_htlc_id \in Nat /\ d.next_holder_htlc_id \in Nat
        /\ c.next_counterparty_htlc_id \in Nat /\ d.next_counterparty_htlc_id \in Nat
        /\ c.next_holder_htlc_id <= d.next_holder_htlc_id
        /\ c.next_counterparty_htlc_id <= d.next_counterparty_htlc_id
    BY DEF Channel, counterparty_keeps
  <2>2. \A r \in x.included \cup x.removed : r[2] \in Nat
    BY DEF PendingCommitment
  <2>3. knows_ids(c, x)
    BY <1>2 DEF recorded
  <2>4. knows_ids(d, x)
    BY <2>1, <2>2, <2>3 DEF knows_ids
  <2>5. ASSUME NEW g \in d.htlcs, htlc_ref(g) \in x.included \cup x.removed
        PROVE  \E h \in c.htlcs :
                 /\ continues(g, h)
                 /\ h.phase_counterparty = "Pending" => g.phase_counterparty = "Pending"
                 /\ h.phase_counterparty = "Removing" => g.phase_counterparty = "Removing"
    <3>1. g \in Htlc
      BY DEF Channel
    <3>2. g.id \in Nat
      BY <3>1 DEF Htlc
    <3>3. /\ g.outbound => g.id < c.next_holder_htlc_id
          /\ ~g.outbound => g.id < c.next_counterparty_htlc_id
      BY <2>3, <2>5 DEF knows_ids, htlc_ref
    <3> QED
      BY <2>1, <3>2, <3>3 DEF counterparty_keeps
  <2>6. ASSUME NEW g \in d.htlcs
        PROVE  /\ htlc_ref(g) \in x.included => /\ g.phase_counterparty = "Pending"
                                                /\ htlc_in_commitment(g, FALSE) \in x.info.htlcs
               /\ htlc_ref(g) \in x.removed => g.phase_counterparty = "Removing"
    <3> SUFFICES ASSUME htlc_ref(g) \in x.included \cup x.removed
                 PROVE  /\ htlc_ref(g) \in x.included =>
                             /\ g.phase_counterparty = "Pending"
                             /\ htlc_in_commitment(g, FALSE) \in x.info.htlcs
                        /\ htlc_ref(g) \in x.removed => g.phase_counterparty = "Removing"
      BY Zenon
    <3>1. PICK h \in c.htlcs :
            /\ continues(g, h)
            /\ h.phase_counterparty = "Pending" => g.phase_counterparty = "Pending"
            /\ h.phase_counterparty = "Removing" => g.phase_counterparty = "Removing"
      BY <2>5
    <3>2. htlc_ref(g) = htlc_ref(h) /\ htlc_in_commitment(g, FALSE) = htlc_in_commitment(h, FALSE)
      BY <3>1, SameOutput, Zenon
    <3> QED
      BY <1>2, <3>1, <3>2, Zenon DEF recorded, lists
  <2> QED
    BY <2>4, <2>6, Zenon DEF recorded, lists
<1> QED
  BY <1>1, <1>2

\* What is signed for the peer has what is committed on the peer's side, and the record
\* says what it includes.
LEMMA SignedRecord ==
  ASSUME NEW n \in Party, NEW c \in Channel, sound(n, c), NEW k, NEW pt
  PROVE  LET x == pending_commitment(n, c, k, pt)
         IN  on_counterparty(c, x.info) /\ recorded(c, x)
<1> DEFINE x == pending_commitment(n, c, k, pt)
<1>1. /\ x.info.htlcs = {htlc_in_commitment(h, FALSE) : h \in escrowed(c, FALSE)}
      /\ x.included = {htlc_ref(h) : h \in {g \in c.htlcs : g.phase_counterparty = "Pending"}}
      /\ x.removed = {htlc_ref(h) : h \in {g \in c.htlcs : g.phase_counterparty = "Removing"}}
  BY Zenon DEF pending_commitment, build_counterparty_commitment_at
<1>2. \A h \in c.htlcs : h.phase_counterparty \in {"Pending", "Committed"}
                           => htlc_in_commitment(h, FALSE) \in x.info.htlcs
  BY <1>1, Zenon DEF escrowed, included, phase_on
<1>3. \A h \in c.htlcs : /\ htlc_ref(h) \in x.included => h.phase_counterparty = "Pending"
                         /\ htlc_ref(h) \in x.removed => h.phase_counterparty = "Removing"
  BY <1>1, Zenon DEF sound, unique
<1>4. knows_ids(c, x)
  <2> SUFFICES ASSUME NEW h \in c.htlcs
               PROVE  /\ htlc_ref(h)[1] => htlc_ref(h)[2] < c.next_holder_htlc_id
                      /\ ~htlc_ref(h)[1] => htlc_ref(h)[2] < c.next_counterparty_htlc_id
    BY <1>1 DEF knows_ids
  <2> QED
    BY DEF sound, ids_fresh, htlc_ref
<1> HIDE DEF x
<1> QED
  BY <1>2, <1>3, <1>4, Zenon DEF on_counterparty, recorded, lists, x

\* on_commitment_signed commits on our side what is on the commitment it locks, and
\* nothing on the peer's side.
LEMMA LockKeeps ==
  ASSUME NEW n \in Party, NEW c \in Channel, sound(n, c), NEW k,
         lock_holder_side(c) \in Channel
  PROVE  /\ counterparty_keeps(c, lock_holder_side(c))
         /\ on_holder(lock_holder_side(c), build_holder_commitment_at(c, k))
<1> DEFINE d == lock_holder_side(c)
           b == build_holder_commitment_at(c, k)
<1>1. /\ d \in Channel
      /\ d.htlcs = {signed_htlc(h) : h \in {g \in c.htlcs : ~both_gone(signed_htlc(g))}}
      /\ d.next_holder_htlc_id = c.next_holder_htlc_id
      /\ d.next_counterparty_htlc_id = c.next_counterparty_htlc_id
  BY LockFields
<1>2. ASSUME NEW h \in c.htlcs
      PROVE  /\ continues(signed_htlc(h), h)
             /\ signed_htlc(h).phase_counterparty = "Committed" => h.phase_counterparty = "Committed"
             /\ h.phase_counterparty = "Pending" => signed_htlc(h).phase_counterparty = "Pending"
             /\ h.phase_counterparty = "Removing" => signed_htlc(h).phase_counterparty = "Removing"
             /\ signed_htlc(h).phase_holder = "Committed" =>
                  h.phase_holder \in {"Pending", "Committed"}
  <2> DEFINE l == locked_by_signature(h)
             g == acknowledged(l)
             lh == CASE h.phase_holder = "Pending" -> "Committed"
                     [] h.phase_holder = "Removing" -> "Gone"
                     [] OTHER -> h.phase_holder
             gc == CASE admits(l) -> "Pending"
                     [] releases(l) -> "Removing"
                     [] OTHER -> h.phase_counterparty
  <2>1. h \in Htlc
    BY DEF Channel
  <2>2. /\ l \in Htlc /\ l.payment = h.payment /\ l.id = h.id /\ l.outbound = h.outbound
        /\ l.phase_counterparty = h.phase_counterparty /\ l.phase_holder = lh
    BY <2>1 DEF locked_by_signature, Htlc, Phase
  <2> HIDE DEF l
  <2>3. /\ g.payment = h.payment /\ g.id = h.id /\ g.outbound = h.outbound
        /\ g.phase_counterparty = gc /\ g.phase_holder = lh
    BY <2>2 DEF acknowledged, Htlc, Phase
  <2>4. signed_htlc(h) = g
    BY DEF signed_htlc, l
  <2> HIDE DEF g
  <2>5. lh = "Committed" => h.phase_holder \in {"Pending", "Committed"}
    BY <2>1 DEF Htlc, Phase
  <2>6. /\ gc = "Committed" => h.phase_counterparty = "Committed"
        /\ h.phase_counterparty = "Pending" => gc = "Pending"
        /\ h.phase_counterparty = "Removing" => gc = "Removing"
    BY <2>2 DEF admits, releases
  <2> QED
    BY <2>3, <2>4, <2>5, <2>6 DEF continues
<1>3. counterparty_keeps(c, d)
  <2>1. /\ c.next_holder_htlc_id <= d.next_holder_htlc_id
        /\ c.next_counterparty_htlc_id <= d.next_counterparty_htlc_id
    BY <1>1 DEF Channel
  <2> HIDE DEF d
  <2> QED
    BY <1>1, <1>2, <2>1 DEF counterparty_keeps
<1>4. on_holder(d, b)
  <2>1. b.htlcs = {htlc_in_commitment(h, TRUE) : h \in escrowed(c, TRUE)}
    BY DEF build_holder_commitment_at
  <2> SUFFICES ASSUME NEW g \in d.htlcs, g.phase_holder = "Committed"
               PROVE  htlc_in_commitment(g, TRUE) \in b.htlcs
    BY Zenon DEF on_holder
  <2>2. PICK h \in c.htlcs : g = signed_htlc(h)
    BY <1>1
  <2>3. continues(g, h) /\ h.phase_holder \in {"Pending", "Committed"}
    BY <1>2, <2>2
  <2>4. h \in escrowed(c, TRUE)
    BY <2>3 DEF escrowed, phase_on, included
  <2>5. htlc_in_commitment(g, TRUE) = htlc_in_commitment(h, TRUE)
    BY <2>3, SameOutput, Zenon
  <2> QED
    BY <2>1, <2>4, <2>5, Zenon
<1> QED
  BY <1>3, <1>4

\* A revoke_and_ack commits on the peer's side what is on the commitment it locks, and
\* nothing on our side.
LEMMA RevokeKeeps ==
  ASSUME NEW n \in Party, NEW c \in Channel, sound(n, c), NEW x \in PendingCommitment,
         recorded(c, x), on_counterparty(c, x.info),
         lock_counterparty_side(c, x) \in Channel, after_revocation(c, x) \in Channel
  PROVE  /\ holder_keeps(c, after_revocation(c, x))
         /\ on_counterparty(after_revocation(c, x), x.info)
<1> DEFINE d == after_revocation(c, x)
<1>1. /\ lists(c, x)
      /\ d.htlcs = {revoked_htlc(h, x) : h \in {g \in c.htlcs : ~both_gone(revoked_htlc(g, x))}}
  BY RevokeFields, Zenon DEF recorded
<1>2. ASSUME NEW h \in c.htlcs
      PROVE  /\ continues(revoked_htlc(h, x), h)
             /\ revoked_htlc(h, x).phase_holder = "Committed" => h.phase_holder = "Committed"
             /\ revoked_htlc(h, x).phase_counterparty = "Committed" =>
                  h.phase_counterparty = "Committed" \/ htlc_ref(h) \in x.included
  <2> DEFINE l == locked_by_revocation(h, x)
             g == [l EXCEPT !.processed = @ \/ forwardable(l)]
             i == htlc_ref(h) \in x.included
             r == htlc_ref(h) \in x.removed
             lc == CASE i /\ h.phase_counterparty = "Pending" -> "Committed"
                     [] r /\ h.phase_counterparty = "Removing" -> "Gone"
                     [] OTHER -> h.phase_counterparty
             lh == CASE i /\ h.outbound /\ h.phase_holder = "NotYet" -> "Pending"
                     [] r /\ ~h.outbound /\ h.phase_holder = "Committed" -> "Removing"
                     [] OTHER -> h.phase_holder
  <2>1. h \in Htlc
    BY DEF Channel
  <2>2. /\ l \in Htlc /\ l.payment = h.payment /\ l.id = h.id /\ l.outbound = h.outbound
        /\ l.phase_counterparty = lc /\ l.phase_holder = lh
    BY <2>1, Zenon DEF locked_by_revocation, Htlc, Phase
  <2> HIDE DEF l
  <2>3. /\ g.payment = h.payment /\ g.id = h.id /\ g.outbound = h.outbound
        /\ g.phase_counterparty = lc /\ g.phase_holder = lh
    BY <2>2 DEF Htlc
  <2>4. revoked_htlc(h, x) = g
    BY DEF revoked_htlc, l
  <2> HIDE DEF g, i, r
  <2>5. lh = "Committed" => h.phase_holder = "Committed"
    OBVIOUS
  <2>6. lc = "Committed" => h.phase_counterparty = "Committed" \/ i
    BY SMTT(20)
  <2> QED
    BY <2>3, <2>4, <2>5, <2>6 DEF continues, i
<1>3. holder_keeps(c, d)
  <2> HIDE DEF d
  <2> QED
    BY <1>1, <1>2, Zenon DEF holder_keeps
<1>4. on_counterparty(d, x.info)
  <2> SUFFICES ASSUME NEW g \in d.htlcs, g.phase_counterparty = "Committed"
               PROVE  htlc_in_commitment(g, FALSE) \in x.info.htlcs
    BY Zenon DEF on_counterparty
  <2>1. PICK h \in c.htlcs : g = revoked_htlc(h, x)
    BY <1>1, Zenon
  <2>2. continues(g, h) /\ (h.phase_counterparty = "Committed" \/ htlc_ref(h) \in x.included)
    BY <1>2, <2>1
  <2>3. htlc_in_commitment(g, FALSE) = htlc_in_commitment(h, FALSE)
    BY <2>2, SameOutput, Zenon
  <2> QED
    BY <2>2, <2>3, Zenon DEF on_counterparty, recorded
<1> QED
  BY <1>3, <1>4

\* The calls commit nothing.
LEMMA ApplyKeeps ==
  ASSUME NEW c \in Channel, NEW ops \in Seq(Op), NEW S \in SUBSET DOMAIN ops,
         ids_ascend(c, ops, S)
  PROVE  holder_keeps(c, apply_ops(c, ops, S)) /\ counterparty_keeps(c, apply_ops(c, ops, S))
<1> DEFINE d == apply_ops(c, ops, S)
           adds == {i \in S : ops[i].op = "Add"}
           new(i) == offered_htlc(add_id(c, ops, S, i), ops[i].payment)
<1>1. d.htlcs = {resolve_htlc(h, ops, S) : h \in c.htlcs} \cup {new(i) : i \in adds}
  BY DEF apply_ops, Channel
<1>2. /\ c.next_holder_htlc_id <= d.next_holder_htlc_id
      /\ c.next_counterparty_htlc_id <= d.next_counterparty_htlc_id
  <2>1. d.next_counterparty_htlc_id = c.next_counterparty_htlc_id
        /\ c.next_counterparty_htlc_id \in Nat
    BY DEF apply_ops, Channel
  <2> QED
    BY <2>1 DEF ids_ascend
<1>3. ASSUME NEW h \in c.htlcs
      PROVE  LET g == resolve_htlc(h, ops, S)
             IN  /\ continues(g, h) /\ g.phase_holder = h.phase_holder
                 /\ g.phase_counterparty = h.phase_counterparty
                      \/ (h.phase_counterparty = "Committed" /\ g.phase_counterparty = "Removing")
  <2>1. h \in Htlc
    BY DEF Channel
  <2>2. CASE \E j \in S : ops[j].op # "Add" /\ inbound_committed(h, ops[j].id)
    <3> DEFINE j == CHOOSE j \in S : ops[j].op # "Add" /\ inbound_committed(h, ops[j].id)
    <3>1. resolve_htlc(h, ops, S) =
            [h EXCEPT !.resolution = Some(ops[j].op), !.phase_counterparty = "Removing"]
      BY <2>2 DEF resolve_htlc
    <3>2. h.phase_counterparty = "Committed"
      BY <2>2 DEF inbound_committed, committed
    <3> HIDE DEF j
    <3> QED
      BY <2>1, <3>1, <3>2 DEF Htlc, continues
  <2>3. CASE ~ \E j \in S : ops[j].op # "Add" /\ inbound_committed(h, ops[j].id)
    BY <2>3 DEF resolve_htlc, continues
  <2> QED
    BY <2>2, <2>3, Zenon
<1>4. ASSUME NEW i \in adds
      PROVE  /\ new(i).phase_holder = "NotYet" /\ new(i).phase_counterparty = "Pending"
             /\ new(i).outbound /\ c.next_holder_htlc_id <= new(i).id
  <2>1. c.next_holder_htlc_id <= add_id(c, ops, S, i)
    BY DEF ids_ascend
  <2> QED
    BY <2>1, Zenon DEF offered_htlc
<1> HIDE DEF d, adds, new
<1>5. holder_keeps(c, d)
  BY <1>1, <1>3, <1>4 DEF holder_keeps
<1>6. counterparty_keeps(c, d)
  <2> SUFFICES ASSUME NEW g \in d.htlcs
               PROVE  \/ \E h \in c.htlcs :
                           /\ continues(g, h)
                           /\ g.phase_counterparty = "Committed" => h.phase_counterparty = "Committed"
                           /\ h.phase_counterparty = "Pending" => g.phase_counterparty = "Pending"
                           /\ h.phase_counterparty = "Removing" => g.phase_counterparty = "Removing"
                      \/ /\ g.phase_counterparty # "Committed"
                         /\ g.outbound => c.next_holder_htlc_id <= g.id
                         /\ ~g.outbound => c.next_counterparty_htlc_id <= g.id
    BY <1>2 DEF counterparty_keeps
  <2>1. CASE g \in {resolve_htlc(h, ops, S) : h \in c.htlcs}
    BY <1>3, <2>1
  <2>2. CASE g \in {new(i) : i \in adds}
    BY <1>4, <2>2
  <2> QED
    BY <1>1, <2>1, <2>2, Zenon
<1> QED
  BY <1>5, <1>6 DEF d

-----------------------------------------------------------------------------
(* The peer's updates. *)

\* The channel after an update_add_htlc that is accepted.
added(c, m) ==
  [c EXCEPT !.htlcs = @ \cup {received_htlc(m)}, !.next_counterparty_htlc_id = @ + 1]

\* The stages after an update_add_htlc.
LEMMA AddStages ==
  ASSUME NEW n \in Party, NEW c \in Channel, sound(n, c),
         NEW m \in Message, m.type = "update_add_htlc",
         Payer[m.payment] # n, ~has(c, m.payment), m.id = c.next_counterparty_htlc_id
  PROVE  LET d == added(c, m)
         IN  /\ d \in Channel /\ sound(n, d)
             /\ holder_keeps(c, d) /\ counterparty_keeps(c, d)
             /\ has(d, m.payment) /\ rec(d, m.payment) = received_htlc(m)
             /\ stage(d, m.payment) = "NotYet"
             /\ \A p : p # m.payment => /\ has(d, p) <=> has(c, p)
                                        /\ has(d, p) => rec(d, p) = rec(c, p)
                                        /\ stage(d, p) = stage(c, p)
<1> DEFINE d == added(c, m)
           g == received_htlc(m)
           N == {g}
<1>1. m.payment \in Payment /\ m.id \in Nat
  BY DEF Message
<1>2. /\ g \in Htlc /\ g.payment = m.payment /\ g.id = m.id /\ ~g.outbound
      /\ g.resolution = None /\ ~g.processed
      /\ g.phase_holder = "Pending" /\ g.phase_counterparty = "NotYet"
  BY <1>1, Zenon DEF received_htlc, Htlc, Phase, None
<1> HIDE DEF g
<1>3. near(g) = "NotYet" /\ far(g) = "Pending"
  BY <1>2 DEF near, far, phase_on
<1>4. well_phased(n, g)
  BY <1>2, <1>3 DEF well_phased
<1>5. /\ d \in Channel /\ d.htlcs = c.htlcs \cup N
      /\ d.next_holder_htlc_id = c.next_holder_htlc_id
      /\ d.next_counterparty_htlc_id = c.next_counterparty_htlc_id + 1
  <2> DEFINE H == c.htlcs \cup N
             id == c.next_counterparty_htlc_id + 1
  <2>1. d = [c EXCEPT !.htlcs = H, !.next_counterparty_htlc_id = id]
    BY DEF added, g
  <2>2. H \in SUBSET Htlc /\ id \in Nat
    BY <1>2 DEF Channel
  <2> HIDE DEF H, d, id
  <2>3. /\ d \in Channel /\ d.htlcs = H /\ d.next_holder_htlc_id = c.next_holder_htlc_id
        /\ d.next_counterparty_htlc_id = id
    BY <2>1, <2>2, Zenon DEF Channel
  <2> QED
    BY <2>3 DEF H, id
<1> HIDE DEF d
<1>6. c.next_holder_htlc_id \in Nat /\ c.next_counterparty_htlc_id \in Nat
  BY DEF Channel
<1>7. \A h \in c.htlcs : htlc_ref(h) # htlc_ref(g)
  <2> SUFFICES ASSUME NEW h \in c.htlcs, htlc_ref(h) = htlc_ref(g) PROVE FALSE
    OBVIOUS
  <2>1. h.outbound = g.outbound /\ h.id = g.id
    BY DEF htlc_ref
  <2>2. ~h.outbound
    BY <1>2, <2>1
  <2>3. h.id < c.next_counterparty_htlc_id
    BY <2>2 DEF sound, ids_fresh
  <2> QED
    BY <1>2, <1>6, <2>1, <2>3
<1>8. extended(n, c, d, N)
  BY <1>2, <1>4, <1>5, <1>6, <1>7, SMTT(20) DEF extended
<1>9. /\ sound(n, d)
      /\ \A p : has(c, p) => has(d, p) /\ rec(d, p) = rec(c, p)
      /\ \A h \in N : has(d, h.payment) /\ rec(d, h.payment) = h
      /\ \A p : has(d, p) => has(c, p) \/ \E h \in N : h.payment = p
  BY <1>5, <1>8, NewSound
<1>10. holder_keeps(c, d) /\ counterparty_keeps(c, d)
  <2>1. \A h \in d.htlcs : h \in c.htlcs \/ h = g
    BY <1>5
  <2>2. \A h : continues(h, h)
    BY DEF continues
  <2>3. holder_keeps(c, d)
    BY <1>2, <2>1, <2>2 DEF holder_keeps
  <2>4. counterparty_keeps(c, d)
    BY <1>2, <1>5, <1>6, <2>1, <2>2, SMTT(20) DEF counterparty_keeps
  <2> QED
    BY <2>3, <2>4
<1>11. has(d, m.payment) /\ rec(d, m.payment) = g /\ stage(d, m.payment) = "NotYet"
  BY <1>2, <1>3, <1>9, SMTT(20) DEF stage
<1>12. ASSUME NEW p, p # m.payment
       PROVE  /\ has(d, p) <=> has(c, p)
              /\ has(d, p) => rec(d, p) = rec(c, p)
              /\ stage(d, p) = stage(c, p)
  BY <1>2, <1>9, <1>12, SMTT(20) DEF stage
<1> QED
  BY <1>5, <1>9, <1>10, <1>11, <1>12, Zenon DEF d, g

\* The channel after a removal that is accepted.
removal(c, m) ==
  LET gone == {h \in c.htlcs : outbound_committed(h, m.id)}
  IN  [c EXCEPT !.htlcs = (@ \ gone) \cup
         {[h EXCEPT !.resolution = Some(m.resolution), !.phase_holder = "Removing"] : h \in gone}]

\* The stages after a removal.
LEMMA RemoveStages ==
  ASSUME NEW n \in Party, NEW c \in Channel, sound(n, c),
         NEW m \in Message, m.type = "update_remove_htlc"
  PROVE  LET d == removal(c, m)
         IN  /\ d \in Channel /\ sound(n, d)
             /\ holder_keeps(c, d) /\ counterparty_keeps(c, d)
             /\ \A p : /\ has(d, p) <=> has(c, p)
                       /\ has(d, p) => rec(d, p).id = rec(c, p).id
                       /\ has(c, p) /\ outbound_committed(rec(c, p), m.id) =>
                            /\ Payer[p] = n /\ stage(c, p) = "Committed"
                            /\ stage(d, p) = "Removing" /\ rec(c, p).id = m.id
                            /\ rec(d, p).resolution = Some(m.resolution)
                       /\ ~(has(c, p) /\ outbound_committed(rec(c, p), m.id)) =>
                            /\ stage(d, p) = stage(c, p)
                            /\ has(d, p) => rec(d, p) = rec(c, p)
<1> DEFINE d == removal(c, m)
           K == c.htlcs
           changed(h) == [h EXCEPT !.resolution = Some(m.resolution), !.phase_holder = "Removing"]
           f == [h \in K |-> IF outbound_committed(h, m.id) THEN changed(h) ELSE h]
           gone == {h \in K : outbound_committed(h, m.id)}
<1>1. m.resolution \in HtlcResolution
  BY Zenon DEF Message
<1>2. ASSUME NEW h \in K
      PROVE  /\ h \in Htlc /\ well_phased(n, h) /\ f[h] \in Htlc /\ continues(f[h], h)
             /\ well_phased(n, f[h]) /\ f[h].phase_counterparty = h.phase_counterparty
             /\ f[h].phase_holder = "Committed" => h.phase_holder = "Committed"
             /\ outbound_committed(h, m.id) =>
                  /\ f[h] = changed(h) /\ h.outbound /\ h.id = m.id
                  /\ near(h) = "Committed" /\ near(f[h]) = "Removing"
                  /\ f[h].resolution = Some(m.resolution)
             /\ ~outbound_committed(h, m.id) => f[h] = h
  <2>1. h \in Htlc /\ well_phased(n, h)
    BY DEF Channel, sound
  <2>2. CASE outbound_committed(h, m.id)
    <3> DEFINE g == changed(h)
    <3>1. f[h] = g
      BY <2>2, Zenon
    <3>2. Some(m.resolution) \in SUBSET HtlcResolution
      BY <1>1 DEF Some
    <3>3. /\ g \in Htlc /\ g.payment = h.payment /\ g.id = h.id /\ g.outbound = h.outbound
          /\ g.processed = h.processed /\ g.resolution = Some(m.resolution)
          /\ g.phase_counterparty = h.phase_counterparty /\ g.phase_holder = "Removing"
      BY <2>1, <3>2, Zenon DEF Htlc, Phase
    <3>4. /\ h.outbound /\ h.id = m.id /\ h.resolution = None
          /\ h.phase_holder = "Committed" /\ h.phase_counterparty = "Committed"
      BY <2>2 DEF outbound_committed, committed
    <3> HIDE DEF g, f
    <3>5. near(h) = "Committed" /\ near(g) = "Removing" /\ far(g) = "Committed"
      BY <3>3, <3>4 DEF near, far, phase_on
    <3>6. well_phased(n, g)
      BY <1>1, <2>1, <3>3, <3>4, <3>5 DEF well_phased
    <3>7. continues(g, h)
      BY <3>3, SMTT(20) DEF continues
    <3> QED
      BY <2>1, <2>2, <3>1, <3>3, <3>4, <3>5, <3>6, <3>7 DEF g
  <2>3. CASE ~outbound_committed(h, m.id)
    BY <2>1, <2>3, Zenon DEF continues
  <2> QED
    BY <2>2, <2>3, Zenon
<1>3. {f[h] : h \in K} = (K \ gone) \cup {changed(h) : h \in gone}
  BY Zenon
<1>4. f \in [K -> Htlc]
  BY <1>2, Zenon
<1>5. /\ d \in Channel /\ d.htlcs = {f[h] : h \in K}
      /\ d.next_holder_htlc_id = c.next_holder_htlc_id
      /\ d.next_counterparty_htlc_id = c.next_counterparty_htlc_id
  <2> DEFINE H == (K \ gone) \cup {changed(h) : h \in gone}
  <2>1. d = [c EXCEPT !.htlcs = H]
    BY DEF removal
  <2>2. H \in SUBSET Htlc
    BY <1>3, <1>4, Zenon
  <2> HIDE DEF H, d
  <2>3. /\ d \in Channel /\ d.htlcs = H
        /\ d.next_holder_htlc_id = c.next_holder_htlc_id
        /\ d.next_counterparty_htlc_id = c.next_counterparty_htlc_id
    BY <2>1, <2>2, Zenon DEF Channel
  <2> QED
    BY <1>3, <2>3, Zenon DEF H
<1> HIDE DEF d, f
<1>6. image_of(n, c, d, K, f)
  <2>1. \A h \in K : /\ f[h].payment = h.payment /\ f[h].id = h.id
                     /\ f[h].outbound <=> h.outbound
                     /\ well_phased(n, f[h])
    BY <1>2, Zenon DEF continues
  <2> HIDE DEF K
  <2>2. K \in SUBSET c.htlcs
    BY DEF K
  <2> QED
    BY <1>4, <1>5, <2>1, <2>2, Zenon DEF image_of
<1>7. /\ sound(n, d)
      /\ \A p : /\ has(d, p) <=> has(c, p) /\ rec(c, p) \in K
                /\ has(d, p) => rec(d, p) = f[rec(c, p)] /\ rec(c, p) \in K
  <2> HIDE DEF K
  <2> QED
    BY <1>5, <1>6, ImageSound, Zenon
<1>8. holder_keeps(c, d) /\ counterparty_keeps(c, d)
  <2>1. \A g \in d.htlcs : \E h \in c.htlcs :
          /\ continues(g, h) /\ g.phase_counterparty = h.phase_counterparty
          /\ g.phase_holder = "Committed" => h.phase_holder = "Committed"
    <3> SUFFICES ASSUME NEW h \in K
                 PROVE  /\ continues(f[h], h) /\ f[h].phase_counterparty = h.phase_counterparty
                        /\ f[h].phase_holder = "Committed" => h.phase_holder = "Committed"
      BY <1>5
    <3> QED
      BY <1>2, Zenon
  <2>2. c.next_holder_htlc_id \in Nat /\ c.next_counterparty_htlc_id \in Nat
    BY DEF Channel
  <2>3. holder_keeps(c, d)
    BY <2>1 DEF holder_keeps
  <2>4. counterparty_keeps(c, d)
    BY <1>5, <2>1, <2>2, SMTT(20) DEF counterparty_keeps
  <2> QED
    BY <2>3, <2>4
<1>9. ASSUME NEW p
      PROVE  /\ has(d, p) <=> has(c, p)
             /\ has(d, p) => rec(d, p).id = rec(c, p).id
             /\ has(c, p) /\ outbound_committed(rec(c, p), m.id) =>
                  /\ Payer[p] = n /\ stage(c, p) = "Committed"
                  /\ stage(d, p) = "Removing" /\ rec(c, p).id = m.id
                  /\ rec(d, p).resolution = Some(m.resolution)
             /\ ~(has(c, p) /\ outbound_committed(rec(c, p), m.id)) =>
                  /\ stage(d, p) = stage(c, p)
                  /\ has(d, p) => rec(d, p) = rec(c, p)
  <2>1. has(c, p) => rec(c, p) \in K /\ rec(c, p).payment = p
    BY RecordOf, Zenon DEF sound
  <2>2. has(d, p) <=> has(c, p)
    BY <1>7, <2>1, SMTT(20)
  <2>3. CASE ~has(c, p)
    BY <2>2, <2>3, SMTT(20) DEF stage
  <2>4. CASE has(c, p)
    <3> DEFINE h == rec(c, p)
    <3>1. h \in K /\ h.payment = p /\ rec(d, p) = f[h] /\ has(d, p)
      BY <1>7, <2>1, <2>2, <2>4, Zenon
    <3>2. stage(c, p) = near(h) /\ stage(d, p) = near(f[h])
      BY <2>4, <3>1, SMTT(20) DEF stage
    <3> HIDE DEF h
    <3>3. f[h].id = h.id
      BY <1>2, <3>1, Zenon DEF continues
    <3>4. CASE outbound_committed(h, m.id)
      <4>1. /\ h.outbound /\ h.id = m.id /\ near(h) = "Committed" /\ near(f[h]) = "Removing"
            /\ f[h].resolution = Some(m.resolution)
        BY <1>2, <3>1, <3>4, Zenon
      <4>2. Payer[p] = n
        BY <1>2, <3>1, <4>1, Zenon DEF well_phased
      <4> QED
        BY <2>4, <3>1, <3>2, <3>3, <3>4, <4>1, <4>2, Zenon DEF h
    <3>5. CASE ~outbound_committed(h, m.id)
      <4>1. f[h] = h
        BY <1>2, <3>1, <3>5, Zenon
      <4> QED
        BY <2>4, <3>1, <3>2, <3>3, <3>5, <4>1, Zenon DEF h
    <3> QED
      BY <3>4, <3>5, Zenon
  <2> QED
    BY <2>3, <2>4, Zenon
<1> QED
  BY <1>5, <1>7, <1>8, <1>9, Zenon DEF d

=============================================================================
