--------------------------- MODULE ArtifactProofs ---------------------------
(* ArtifactInv holds of every run of the units of work and of the recovery,   *)
(* for any set of paths, any number of units and any number of crashes, and   *)
(* the properties of ArtifactRecovery follow from it.  One lemma per action,  *)
(* and in it one step per part of the invariant.                              *)
EXTENDS ArtifactRecovery, TLAPS

(* What is aside from a path, other than a handoff, that a live unit holds    *)
(* and no unit abandoned is that unit's, and it has begun with the path.      *)
LEMMA Alone ==
    ASSUME BackupOK, NEW u \in Units, UnitOK(u), Live(u), NEW p \in items[u] \ Handoffs, p \in Paths, ~Abandoned(p),
           NEW v \in Units, backup[v][p] # Absent
    PROVE  v = u /\ p \in (placed[u] \cup busy[u]) \ settled[u]
<1>1. CASE v = u
  BY <1>1 DEF BackupOK, Live
<1>2. CASE v # u
  <2>1. p \in items[v] /\ Live(v)
    BY DEF BackupOK, UnitOK, Live, Abandoned
  <2> QED
    BY <1>2, <2>1 DEF UnitOK
<1> QED
  BY <1>1, <1>2

(* A unit begins with paths nobody else holds. *)
LEMMA BeginOK ==
    ASSUME ArtifactInv, NEW u \in Units, NEW P \in Guarded \cup Unguarded, NEW B \in SUBSET {u},
           NEW R \in SUBSET (P \cap (Files \cup Directories)),
           Begin(u, P, R, B)
    PROVE  ArtifactInv'
<1>0. /\ TypeOK /\ BackupOK /\ TraceOK /\ KeptOK /\ PluginOK /\ HandoffOK
      /\ \A w \in Units : UnitOK(w) /\ ItemsOK(w)
    BY DEF ArtifactInv
<1>b. \A q \in Paths : Abandoned(q) => Abandoned(q)'
    BY <1>0 DEF Abandoned, TypeOK, Begin, Guarded, Unguarded, dbVars
<1>1. TypeOK'
    BY <1>0 DEF TypeOK, Content, Paths, Begin, Guarded, Unguarded, dbVars
<1>2. ASSUME NEW w \in Units PROVE UnitOK(w)'
  <2>0. /\ UNCHANGED <<row, author, server, placed, settled, busy>>
        /\ \A v \in Units \ {u} : /\ phase'[v] = phase[v] /\ items'[v] = items[v]
                               /\ removes'[v] = removes[v] /\ stage'[v] = stage[v]
        /\ phase[u] = "idle" /\ phase'[u] = "promoting" /\ server = "up"
        /\ bare' = bare \cup B /\ B \subseteq {u}
        /\ items'[u] = P /\ removes'[u] = R /\ stage'[u] = P \ R
        /\ \A v \in Units : Live(v) => P \cap items[v] = {}
    BY <1>0 DEF Begin, Held, TypeOK, dbVars
  <2>1. UnitOK(w)
    BY <1>0
  <2>2. CASE w # u
    BY <2>0, <2>1, <2>2 DEF UnitOK, Live
  <2>3. CASE w = u
    <3>1. /\ R \subseteq P /\ R \cap (Plugins \cup Handoffs) = {}
          /\ B # {} => P \cap Plugins = {}
          /\ P \cap Handoffs # {} => B = {u} /\ P \subseteq Handoffs /\ \A x, y \in P : x = y
      BY <1>0, ArtifactAssumption DEF Guarded, Unguarded, Begin
    <3> QED
      BY <2>0, <2>1, <2>3, <3>1 DEF UnitOK, Live
  <2> QED
    BY <2>2, <2>3
<1>3. ASSUME NEW w \in Units PROVE ItemsOK(w)'
    BY <1>0 DEF ItemsOK, UnitOK, Unrecorded, Live, TypeOK, Begin, Guarded, Unguarded, dbVars
<1>4. BackupOK'
    BY <1>0, <1>b DEF BackupOK, UnitOK, Live, TypeOK, Begin, Guarded, Unguarded, dbVars
<1>5. TraceOK'
    BY <1>0 DEF TraceOK, BackupOK, UnitOK, ItemsOK, Unrecorded, Live, TypeOK, Begin, Guarded, Unguarded, dbVars
<1>6. KeptOK'
    BY <1>0, <1>b DEF KeptOK, TraceOK, BackupOK, UnitOK, ItemsOK, Returned, Standing, Unrecorded, Live, TypeOK, Begin, Guarded, Unguarded, dbVars
<1>7. PluginOK'
    BY <1>0 DEF PluginOK, TraceOK, BackupOK, UnitOK, ItemsOK, Named, Live, TypeOK, Begin, Guarded, Unguarded, dbVars
<1>8. HandoffOK'
    BY <1>0 DEF HandoffOK, TraceOK, BackupOK, UnitOK, ItemsOK, Named, Held, Unrecorded, Live, TypeOK, Begin, Guarded, Unguarded, dbVars
<1> QED
    BY <1>1, <1>2, <1>3, <1>4, <1>5, <1>6, <1>7, <1>8 DEF ArtifactInv

(* The old content goes aside. *)
LEMMA SetAsideOK ==
    ASSUME ArtifactInv, NEW u \in Units, NEW p \in Paths, SetAside(u, p)
    PROVE  ArtifactInv'
<1>0. /\ TypeOK /\ BackupOK /\ TraceOK /\ KeptOK /\ PluginOK /\ HandoffOK
      /\ \A w \in Units : UnitOK(w) /\ ItemsOK(w)
    BY DEF ArtifactInv
<1>b. \A q \in Paths : Abandoned(q) => Abandoned(q)'
    BY <1>0 DEF Abandoned, TypeOK, SetAside, Still, dbVars
<1>1. TypeOK'
    BY <1>0 DEF TypeOK, Content, Paths, SetAside, Still, dbVars
<1>2. ASSUME NEW w \in Units PROVE UnitOK(w)'
  <2>1. CASE w # u
    <3>1. /\ UNCHANGED <<row, author, server, phase, items, removes, bare, placed, settled, stage>>
          /\ busy'[w] = busy[w]
      BY <1>0, <2>1 DEF SetAside, TypeOK, dbVars
    <3>2. UnitOK(w)
      BY <1>0
    <3> QED
      BY <3>1, <3>2 DEF UnitOK, Live
  <2>2. CASE w = u
    <3>1. /\ UNCHANGED <<row, author, server, phase, items, removes, bare, placed, settled, stage>>
          /\ phase[u] = "promoting" /\ p \in items[u] \ (placed[u] \cup removes[u])
          /\ busy'[u] = {p}
      BY <1>0 DEF SetAside, Still, dbVars, TypeOK
    <3>2. UnitOK(u)
      BY <1>0
    <3> QED
      BY <2>2, <3>1, <3>2 DEF UnitOK, Live
  <2> QED
    BY <2>1, <2>2
<1>3. ASSUME NEW w \in Units PROVE ItemsOK(w)'
    BY <1>0 DEF ItemsOK, UnitOK, Unrecorded, Live, TypeOK, SetAside, Still, dbVars
<1>4. BackupOK'
  <2>0. /\ UNCHANGED <<items, phase, settled, server>>
        /\ \A w \in Units, q \in Paths : backup'[w][q] = IF w = u /\ q = p THEN disk[p] ELSE backup[w][q]
        /\ \A w \in Units : placed[w] \cup busy[w] \subseteq placed'[w] \cup busy'[w]
        /\ p \in (placed'[u] \cup busy'[u]) \ settled'[u] /\ p \in items[u] \ placed[u]
        /\ busy[u] = {} /\ Live(u)
    BY <1>0 DEF TypeOK, UnitOK, SetAside, Still, Live
  <2>1. ASSUME NEW w \in Units, backup[w][p] # Absent, p \notin Handoffs, ~Abandoned(p) PROVE FALSE
    BY <1>0, <2>0, <2>1, Alone
  <2>2. ASSUME NEW w \in Units, NEW q \in Paths, backup'[w][q] # Absent
        PROVE  /\ q \in items[w]
               /\ \/ Live(w) /\ q \in (placed'[w] \cup busy'[w]) \ settled[w]
                  \/ phase[w] \in {"crashed", "broken"} /\ server # "up"
                  \/ phase[w] = "left"
    BY <1>0, <2>0, <2>2 DEF BackupOK
  <2>3. ASSUME NEW w \in Units, NEW v \in Units, NEW q \in Paths \ Handoffs, ~Abandoned(q),
               backup'[w][q] # Absent, backup'[v][q] # Absent
        PROVE  w = v
    BY <1>0, <2>0, <2>1, <2>3 DEF BackupOK
  <2> QED
    BY <1>b, <2>0, <2>2, <2>3 DEF BackupOK, Live
<1>5. TraceOK'
    BY <1>0 DEF TraceOK, BackupOK, UnitOK, ItemsOK, Unrecorded, Live, TypeOK, SetAside, Still, dbVars
<1>6. KeptOK'
  <2>0. /\ UNCHANGED <<row, author, phase, items>>
        /\ \A w \in Units, q \in Paths : backup'[w][q] = IF w = u /\ q = p THEN disk[p] ELSE backup[w][q]
        /\ \A q \in Paths : disk'[q] = IF q = p THEN Absent ELSE disk[q]
    BY <1>0 DEF TypeOK, SetAside, Still, dbVars
  <2>1. SUFFICES ASSUME NEW q \in Paths \ Handoffs, Returned(q)', ~Abandoned(q)'
        PROVE (IF \E w \in Units : backup[w][q] # Absent
               THEN \A w \in Units : backup[w][q] # Absent => Standing(backup[w][q], q)
               ELSE Standing(disk[q], q))'
    BY DEF KeptOK
  <2>2. Returned(q) /\ ~Abandoned(q) /\ \A c : Standing(c, q)' <=> Standing(c, q)
    BY <2>0, <2>1 DEF Returned, Abandoned, Standing, Unrecorded
  <2>3. CASE q # p
    <3>1. /\ \A w \in Units : backup'[w][q] = backup[w][q]
          /\ disk'[q] = disk[q]
      BY <2>0, <2>3
    <3> QED
      BY <1>0, <2>1, <2>2, <3>1 DEF KeptOK
  <2>4. CASE ~(q # p)
    <3>1. /\ p \in items[u] \ placed[u] /\ busy[u] = {} /\ Live(u)
      BY <1>0 DEF SetAside, Still, UnitOK, Live
    <3>2. \A w \in Units : backup[w][q] = Absent
      BY <1>0, <2>1, <2>2, <2>4, <3>1, Alone
    <3>3. Standing(disk[q], q)
      BY <1>0, <2>1, <2>2, <3>2 DEF KeptOK
    <3> QED
      BY <1>0, <2>0, <2>2, <2>4, <3>2, <3>3 DEF Standing
  <2> QED
    BY <2>3, <2>4
<1>7. PluginOK'
    BY <1>0, ArtifactAssumption DEF Paths, Content, PluginOK, TraceOK, BackupOK, UnitOK, ItemsOK, Named, Live, TypeOK, SetAside, Still, dbVars
<1>8. HandoffOK'
    BY <1>0 DEF HandoffOK, TraceOK, BackupOK, UnitOK, ItemsOK, Named, Held, Unrecorded, Live, TypeOK, SetAside, Still, dbVars
<1> QED
    BY <1>1, <1>2, <1>3, <1>4, <1>5, <1>6, <1>7, <1>8 DEF ArtifactInv

(* The staged content goes to its path. *)
LEMMA PlaceOK ==
    ASSUME ArtifactInv, NEW u \in Units, NEW p \in Paths, Place(u, p)
    PROVE  ArtifactInv'
<1>0. /\ TypeOK /\ BackupOK /\ TraceOK /\ KeptOK /\ PluginOK /\ HandoffOK
      /\ \A w \in Units : UnitOK(w) /\ ItemsOK(w)
    BY DEF ArtifactInv
<1>b. \A q \in Paths : Abandoned(q) => Abandoned(q)'
    BY <1>0 DEF Abandoned, TypeOK, Place, Still, dbVars
<1>1. TypeOK'
    BY <1>0 DEF TypeOK, Content, Paths, Place, Still, dbVars
<1>2. ASSUME NEW w \in Units PROVE UnitOK(w)'
    BY <1>0 DEF UnitOK, Live, TypeOK, Place, Still, dbVars
<1>3. ASSUME NEW w \in Units PROVE ItemsOK(w)'
    BY <1>0 DEF ItemsOK, UnitOK, Unrecorded, Live, TypeOK, Place, Still, dbVars
<1>4. BackupOK'
    BY <1>0, <1>b DEF BackupOK, UnitOK, Live, TypeOK, Place, Still, dbVars
<1>5. TraceOK'
    BY <1>0 DEF TraceOK, BackupOK, UnitOK, ItemsOK, Unrecorded, Live, TypeOK, Place, Still, dbVars
<1>6. KeptOK'
    BY <1>0, <1>b DEF KeptOK, TraceOK, BackupOK, UnitOK, ItemsOK, Returned, Standing, Unrecorded, Live, TypeOK, Place, Still, dbVars
<1>7. PluginOK'
    BY <1>0, ArtifactAssumption DEF Paths, Content, PluginOK, TraceOK, BackupOK, UnitOK, ItemsOK, Named, Live, TypeOK, Place, Still, dbVars
<1>8. HandoffOK'
  <2>0. /\ UNCHANGED <<author, phase, items, settled, server, backup>>
        /\ \A q \in Paths : disk'[q] = IF q = p THEN u ELSE disk[q]
        /\ phase[u] = "promoting" /\ p \in items[u] /\ UnitOK(u)
        /\ \A w \in Units \ {u} : placed'[w] = placed[w] /\ busy'[w] = busy[w]
        /\ placed'[u] = placed[u] \cup {p} /\ busy'[u] = {} /\ busy[u] \subseteq {p}
        /\ disk[p] = Absent /\ settled[u] = {}
    BY <1>0 DEF TypeOK, Place, Still, UnitOK, dbVars
  <2>1. \A q \in Handoffs : q \in Paths
    BY DEF Paths
  <2>2. Live(u) /\ Unrecorded(u) /\ Held(p)
    BY <2>0 DEF Live, Unrecorded, Held
  <2>3. ASSUME p \in Handoffs, Named(p) PROVE backup[u][p] # Absent
    <3>1. PICK w \in Units : backup[w][p] # Absent /\ (server = "up" => Live(w))
      BY <1>0, <2>0, <2>3 DEF HandoffOK
    <3>2. p \in items[w] /\ Live(w)
      BY <1>0, <2>0, <2>2, <3>1 DEF BackupOK, UnitOK
    <3> QED
      BY <2>0, <2>2, <3>1, <3>2 DEF UnitOK
  <2>4. ASSUME NEW q \in Handoffs
        PROVE /\ Named(q) /\ disk'[q] = Absent => \E w \in Units : backup[w][q] # Absent /\ (server = "up" => Live(w))
              /\ ~Named(q) /\ disk'[q] # Absent /\ server = "up" => Held(q)
    BY <1>0, <2>0, <2>1, <2>2, ArtifactAssumption DEF HandoffOK
  <2>5. ASSUME NEW q \in Handoffs, NEW w \in Units
        PROVE  /\ backup[w][q] # Absent => Named(q)
               /\ Named(q) /\ Unrecorded(w) /\ q \in (placed'[w] \cup busy'[w]) \ settled[w] => backup[w][q] # Absent
               /\ ~Named(q) /\ Unrecorded(w) /\ q \in (items[w] \ placed'[w]) \cup settled[w] => disk'[q] = Absent
    <3>1. CASE w = u
      BY <1>0, <2>0, <2>1, <2>2, <2>3, <3>1 DEF HandoffOK
    <3>2. CASE w # u
      <4>1. Unrecorded(w) => items[u] \cap items[w] = {}
        BY <2>0, <2>2, <3>2 DEF UnitOK, Live, Unrecorded
      <4>2. settled[w] \subseteq items[w]
        BY <1>0 DEF UnitOK
      <4> QED
        BY <1>0, <2>0, <2>1, <3>2, <4>1, <4>2 DEF HandoffOK
    <3> QED
      BY <3>1, <3>2
  <2> QED
    BY <2>0, <2>4, <2>5 DEF HandoffOK, Named, Held, Live, Unrecorded
<1> QED
    BY <1>1, <1>2, <1>3, <1>4, <1>5, <1>6, <1>7, <1>8 DEF ArtifactInv

(* A path is removed by setting it aside. *)
LEMMA RemoveOK ==
    ASSUME ArtifactInv, NEW u \in Units, NEW p \in Paths, Remove(u, p)
    PROVE  ArtifactInv'
<1>0. /\ TypeOK /\ BackupOK /\ TraceOK /\ KeptOK /\ PluginOK /\ HandoffOK
      /\ \A w \in Units : UnitOK(w) /\ ItemsOK(w)
    BY DEF ArtifactInv
<1>b. \A q \in Paths : Abandoned(q) => Abandoned(q)'
    BY <1>0 DEF Abandoned, TypeOK, Remove, Still, dbVars
<1>1. TypeOK'
    BY <1>0 DEF TypeOK, Content, Paths, Remove, Still, dbVars
<1>2. ASSUME NEW w \in Units PROVE UnitOK(w)'
  <2>1. CASE w # u
    <3>1. /\ UNCHANGED <<row, author, server, phase, items, removes, bare, settled, stage, busy>>
          /\ placed'[w] = placed[w]
      BY <1>0, <2>1 DEF Remove, TypeOK, dbVars
    <3>2. UnitOK(w)
      BY <1>0
    <3> QED
      BY <3>1, <3>2 DEF UnitOK, Live
  <2>2. CASE w = u
    <3>1. /\ UNCHANGED <<row, author, server, phase, items, removes, bare, settled, stage, busy>>
          /\ phase[u] = "promoting" /\ p \in removes[u] /\ busy[u] = {}
          /\ placed'[u] = placed[u] \cup {p}
      BY <1>0 DEF Remove, Still, dbVars, TypeOK
    <3>2. UnitOK(u)
      BY <1>0
    <3> QED
      BY <2>2, <3>1, <3>2 DEF UnitOK, Live
  <2> QED
    BY <2>1, <2>2
<1>3. ASSUME NEW w \in Units PROVE ItemsOK(w)'
    BY <1>0 DEF ItemsOK, UnitOK, Unrecorded, Live, TypeOK, Remove, Still, dbVars
<1>4. BackupOK'
  <2>0. /\ UNCHANGED <<items, phase, settled, server>>
        /\ \A w \in Units, q \in Paths : backup'[w][q] = IF w = u /\ q = p THEN disk[p] ELSE backup[w][q]
        /\ \A w \in Units : placed[w] \cup busy[w] \subseteq placed'[w] \cup busy'[w]
        /\ p \in (placed'[u] \cup busy'[u]) \ settled'[u] /\ p \in items[u] \ placed[u]
        /\ busy[u] = {} /\ Live(u)
    BY <1>0 DEF TypeOK, UnitOK, Remove, Still, Live
  <2>1. ASSUME NEW w \in Units, backup[w][p] # Absent, p \notin Handoffs, ~Abandoned(p) PROVE FALSE
    BY <1>0, <2>0, <2>1, Alone
  <2>2. ASSUME NEW w \in Units, NEW q \in Paths, backup'[w][q] # Absent
        PROVE  /\ q \in items[w]
               /\ \/ Live(w) /\ q \in (placed'[w] \cup busy'[w]) \ settled[w]
                  \/ phase[w] \in {"crashed", "broken"} /\ server # "up"
                  \/ phase[w] = "left"
    BY <1>0, <2>0, <2>2 DEF BackupOK
  <2>3. ASSUME NEW w \in Units, NEW v \in Units, NEW q \in Paths \ Handoffs, ~Abandoned(q),
               backup'[w][q] # Absent, backup'[v][q] # Absent
        PROVE  w = v
    BY <1>0, <2>0, <2>1, <2>3 DEF BackupOK
  <2> QED
    BY <1>b, <2>0, <2>2, <2>3 DEF BackupOK, Live
<1>5. TraceOK'
    BY <1>0 DEF TraceOK, BackupOK, UnitOK, ItemsOK, Unrecorded, Live, TypeOK, Remove, Still, dbVars
<1>6. KeptOK'
  <2>0. /\ UNCHANGED <<row, author, phase, items>>
        /\ \A w \in Units, q \in Paths : backup'[w][q] = IF w = u /\ q = p THEN disk[p] ELSE backup[w][q]
        /\ \A q \in Paths : disk'[q] = IF q = p THEN Absent ELSE disk[q]
    BY <1>0 DEF TypeOK, Remove, Still, dbVars
  <2>1. SUFFICES ASSUME NEW q \in Paths \ Handoffs, Returned(q)', ~Abandoned(q)'
        PROVE (IF \E w \in Units : backup[w][q] # Absent
               THEN \A w \in Units : backup[w][q] # Absent => Standing(backup[w][q], q)
               ELSE Standing(disk[q], q))'
    BY DEF KeptOK
  <2>2. Returned(q) /\ ~Abandoned(q) /\ \A c : Standing(c, q)' <=> Standing(c, q)
    BY <2>0, <2>1 DEF Returned, Abandoned, Standing, Unrecorded
  <2>3. CASE q # p
    <3>1. /\ \A w \in Units : backup'[w][q] = backup[w][q]
          /\ disk'[q] = disk[q]
      BY <2>0, <2>3
    <3> QED
      BY <1>0, <2>1, <2>2, <3>1 DEF KeptOK
  <2>4. CASE ~(q # p)
    <3>1. /\ p \in items[u] \ placed[u] /\ busy[u] = {} /\ Live(u)
      BY <1>0 DEF Remove, Still, UnitOK, Live
    <3>2. \A w \in Units : backup[w][q] = Absent
      BY <1>0, <2>1, <2>2, <2>4, <3>1, Alone
    <3>3. Standing(disk[q], q)
      BY <1>0, <2>1, <2>2, <3>2 DEF KeptOK
    <3> QED
      BY <1>0, <2>0, <2>2, <2>4, <3>2, <3>3 DEF Standing
  <2> QED
    BY <2>3, <2>4
<1>7. PluginOK'
    BY <1>0 DEF PluginOK, TraceOK, BackupOK, UnitOK, ItemsOK, Named, Live, TypeOK, Remove, Still, dbVars
<1>8. HandoffOK'
    BY <1>0 DEF HandoffOK, TraceOK, BackupOK, UnitOK, ItemsOK, Named, Held, Unrecorded, Live, TypeOK, Remove, Still, dbVars
<1> QED
    BY <1>1, <1>2, <1>3, <1>4, <1>5, <1>6, <1>7, <1>8 DEF ArtifactInv

(* A directory that was set aside is half deleted. *)
LEMMA TearOK ==
    ASSUME ArtifactInv, NEW u \in Units, NEW p \in Paths, Tear(u, p)
    PROVE  ArtifactInv'
<1>0. /\ TypeOK /\ BackupOK /\ TraceOK /\ KeptOK /\ PluginOK /\ HandoffOK
      /\ \A w \in Units : UnitOK(w) /\ ItemsOK(w)
    BY DEF ArtifactInv
<1>b. \A q \in Paths : Abandoned(q) => Abandoned(q)'
    BY <1>0 DEF Abandoned, TypeOK, Tear, dbVars
<1>1. TypeOK'
    BY <1>0 DEF TypeOK, Content, Paths, Tear, dbVars
<1>2. ASSUME NEW w \in Units PROVE UnitOK(w)'
  <2>1. CASE w # u
    <3>1. /\ UNCHANGED <<row, author, server, phase, items, removes, bare, placed, settled, stage>>
          /\ busy'[w] = busy[w]
      BY <1>0, <2>1 DEF Tear, TypeOK, dbVars
    <3>2. UnitOK(w)
      BY <1>0
    <3> QED
      BY <3>1, <3>2 DEF UnitOK, Live
  <2>2. CASE w = u
    <3>1. /\ UNCHANGED <<row, author, server, phase, items, removes, bare, placed, settled, stage>>
          /\ phase[u] = "committing" /\ p \in items[u] \ settled[u]
          /\ busy'[u] = {p}
      BY <1>0 DEF Tear, dbVars, TypeOK
    <3>2. UnitOK(u)
      BY <1>0
    <3> QED
      BY <2>2, <3>1, <3>2 DEF UnitOK, Live
  <2> QED
    BY <2>1, <2>2
<1>3. ASSUME NEW w \in Units PROVE ItemsOK(w)'
    BY <1>0 DEF ItemsOK, UnitOK, Unrecorded, Live, TypeOK, Tear, dbVars
<1>4. BackupOK'
    BY <1>0, <1>b DEF BackupOK, UnitOK, Live, TypeOK, Tear, dbVars
<1>5. TraceOK'
    BY <1>0, ArtifactAssumption DEF Paths, Content, TraceOK, BackupOK, UnitOK, ItemsOK, Unrecorded, Live, TypeOK, Tear, dbVars
<1>6. KeptOK'
  <2>0. /\ UNCHANGED <<row, author, phase, items>>
        /\ \A w \in Units, q \in Paths : backup'[w][q] = IF w = u /\ q = p THEN Torn ELSE backup[w][q]
        /\ \A q \in Paths : disk'[q] = disk[q]
    BY <1>0 DEF TypeOK, Tear, dbVars
  <2>1. SUFFICES ASSUME NEW q \in Paths \ Handoffs, Returned(q)', ~Abandoned(q)'
        PROVE (IF \E w \in Units : backup[w][q] # Absent
               THEN \A w \in Units : backup[w][q] # Absent => Standing(backup[w][q], q)
               ELSE Standing(disk[q], q))'
    BY DEF KeptOK
  <2>2. Returned(q) /\ ~Abandoned(q) /\ \A c : Standing(c, q)' <=> Standing(c, q)
    BY <2>0, <2>1 DEF Returned, Abandoned, Standing, Unrecorded
  <2>3. CASE q # p
    <3>1. /\ \A w \in Units : backup'[w][q] = backup[w][q]
          /\ disk'[q] = disk[q]
      BY <2>0, <2>3
    <3> QED
      BY <1>0, <2>1, <2>2, <3>1 DEF KeptOK
  <2>4. CASE ~(q # p)
    <3>1. author[p] = u /\ phase[u] = "committing"
      BY <1>0 DEF ItemsOK, Tear
    <3> QED
      BY <2>2, <2>4, <3>1, ArtifactAssumption DEF Returned
  <2> QED
    BY <2>3, <2>4
<1>7. PluginOK'
    BY <1>0 DEF PluginOK, TraceOK, BackupOK, UnitOK, ItemsOK, Named, Live, TypeOK, Tear, dbVars
<1>8. HandoffOK'
    BY <1>0, ArtifactAssumption DEF Paths, Content, HandoffOK, TraceOK, BackupOK, UnitOK, ItemsOK, Named, Held, Unrecorded, Live, TypeOK, Tear, dbVars
<1> QED
    BY <1>1, <1>2, <1>3, <1>4, <1>5, <1>6, <1>7, <1>8 DEF ArtifactInv

(* What was set aside from a path is deleted. *)
LEMMA CommitOK ==
    ASSUME ArtifactInv, NEW u \in Units, NEW p \in Paths, Commit(u, p)
    PROVE  ArtifactInv'
<1>0. /\ TypeOK /\ BackupOK /\ TraceOK /\ KeptOK /\ PluginOK /\ HandoffOK
      /\ \A w \in Units : UnitOK(w) /\ ItemsOK(w)
    BY DEF ArtifactInv
<1>b. \A q \in Paths : Abandoned(q) => Abandoned(q)'
    BY <1>0 DEF Abandoned, TypeOK, Commit, dbVars
<1>1. TypeOK'
    BY <1>0 DEF TypeOK, Content, Paths, Commit, dbVars
<1>2. ASSUME NEW w \in Units PROVE UnitOK(w)'
  <2>1. CASE w # u
    <3>1. /\ UNCHANGED <<row, author, server, phase, items, removes, bare, placed, stage>>
          /\ busy'[w] = busy[w] /\ settled'[w] = settled[w]
      BY <1>0, <2>1 DEF Commit, TypeOK, dbVars
    <3>2. UnitOK(w)
      BY <1>0
    <3> QED
      BY <3>1, <3>2 DEF UnitOK, Live
  <2>2. CASE w = u
    <3>1. /\ UNCHANGED <<row, author, server, phase, items, removes, bare, placed, stage>>
          /\ phase[u] = "committing" /\ p \in items[u] \ settled[u]
          /\ settled'[u] = settled[u] \cup {p} /\ busy'[u] = {}
      BY <1>0 DEF Commit, dbVars, TypeOK
    <3>2. UnitOK(u)
      BY <1>0
    <3> QED
      BY <2>2, <3>1, <3>2 DEF UnitOK, Live
  <2> QED
    BY <2>1, <2>2
<1>3. ASSUME NEW w \in Units PROVE ItemsOK(w)'
    BY <1>0 DEF ItemsOK, UnitOK, Unrecorded, Live, TypeOK, Commit, dbVars
<1>4. BackupOK'
    BY <1>0, <1>b DEF BackupOK, UnitOK, Live, TypeOK, Commit, dbVars
<1>5. TraceOK'
    BY <1>0 DEF TraceOK, BackupOK, UnitOK, ItemsOK, Unrecorded, Live, TypeOK, Commit, dbVars
<1>6. KeptOK'
  <2>0. /\ UNCHANGED <<row, author, phase, items>>
        /\ \A w \in Units, q \in Paths : backup'[w][q] = IF w = u /\ q = p THEN Absent ELSE backup[w][q]
        /\ \A q \in Paths : disk'[q] = disk[q]
    BY <1>0 DEF TypeOK, Commit, dbVars
  <2>1. SUFFICES ASSUME NEW q \in Paths \ Handoffs, Returned(q)', ~Abandoned(q)'
        PROVE (IF \E w \in Units : backup[w][q] # Absent
               THEN \A w \in Units : backup[w][q] # Absent => Standing(backup[w][q], q)
               ELSE Standing(disk[q], q))'
    BY DEF KeptOK
  <2>2. Returned(q) /\ ~Abandoned(q) /\ \A c : Standing(c, q)' <=> Standing(c, q)
    BY <2>0, <2>1 DEF Returned, Abandoned, Standing, Unrecorded
  <2>3. CASE q # p
    <3>1. /\ \A w \in Units : backup'[w][q] = backup[w][q]
          /\ disk'[q] = disk[q]
      BY <2>0, <2>3
    <3> QED
      BY <1>0, <2>1, <2>2, <3>1 DEF KeptOK
  <2>4. CASE ~(q # p)
    <3>1. author[p] = u /\ phase[u] = "committing"
      BY <1>0 DEF ItemsOK, Commit
    <3> QED
      BY <2>2, <2>4, <3>1, ArtifactAssumption DEF Returned
  <2> QED
    BY <2>3, <2>4
<1>7. PluginOK'
    BY <1>0 DEF PluginOK, TraceOK, BackupOK, UnitOK, ItemsOK, Named, Live, TypeOK, Commit, dbVars
<1>8. HandoffOK'
    BY <1>0, ArtifactAssumption DEF Paths, Content, HandoffOK, TraceOK, BackupOK, UnitOK, ItemsOK, Named, Held, Unrecorded, Live, TypeOK, Commit, dbVars
<1> QED
    BY <1>1, <1>2, <1>3, <1>4, <1>5, <1>6, <1>7, <1>8 DEF ArtifactInv

(* The new content is deleted before the old one returns. *)
LEMMA DiscardOK ==
    ASSUME ArtifactInv, NEW u \in Units, NEW p \in Paths, Discard(u, p)
    PROVE  ArtifactInv'
<1>0. /\ TypeOK /\ BackupOK /\ TraceOK /\ KeptOK /\ PluginOK /\ HandoffOK
      /\ \A w \in Units : UnitOK(w) /\ ItemsOK(w)
    BY DEF ArtifactInv
<1>b. \A q \in Paths : Abandoned(q) => Abandoned(q)'
    BY <1>0 DEF Abandoned, TypeOK, Discard, Rolling, Replaced, dbVars
<1>1. TypeOK'
    BY <1>0 DEF TypeOK, Content, Paths, Discard, Rolling, Replaced, dbVars
<1>2. ASSUME NEW w \in Units PROVE UnitOK(w)'
    BY <1>0 DEF UnitOK, Live, TypeOK, Discard, Rolling, Replaced, dbVars
<1>3. ASSUME NEW w \in Units PROVE ItemsOK(w)'
    BY <1>0 DEF ItemsOK, UnitOK, Unrecorded, Live, TypeOK, Discard, Rolling, Replaced, dbVars
<1>4. BackupOK'
    BY <1>0, <1>b DEF BackupOK, UnitOK, Live, TypeOK, Discard, Rolling, Replaced, dbVars
<1>5. TraceOK'
    BY <1>0, ArtifactAssumption DEF Paths, Content, TraceOK, BackupOK, UnitOK, ItemsOK, Unrecorded, Live, TypeOK, Discard, Rolling, Replaced, dbVars
<1>6. KeptOK'
    BY <1>0, <1>b, ArtifactAssumption DEF Paths, Content, KeptOK, TraceOK, BackupOK, UnitOK, ItemsOK, Returned, Standing, Unrecorded, Live, TypeOK, Discard, Rolling, Replaced, dbVars
<1>7. PluginOK'
  <2>0. /\ UNCHANGED <<row, author, phase, backup>>
        /\ \A q \in Paths : disk'[q] = IF q = p THEN Absent ELSE disk[q]
        /\ Rolling(u) /\ p \in placed[u] \ (removes[u] \cup settled[u] \cup busy[u])
    BY <1>0 DEF TypeOK, Discard, Replaced, dbVars
  <2>1. SUFFICES ASSUME NEW q \in Plugins, Named(q), phase[author[q]] \notin {"breaking", "broken"}
                 PROVE  row[q] \in Units /\ (disk'[q] = row[q] \/ \E w \in Units : backup[w][q] = row[q])
    BY <2>0 DEF PluginOK, Named
  <2>2. /\ row[q] \in Units /\ author[q] = row[q] /\ q \in Paths
        /\ disk[q] = row[q] \/ \E w \in Units : backup[w][q] = row[q]
    BY <1>0, <2>1 DEF PluginOK, TraceOK, Paths
  <2>3. ASSUME q = p PROVE disk[q] # row[q]
    <3>1. phase[u] = "rolling" => disk[p] = u /\ author[p] # u
      BY <1>0, <2>0 DEF ItemsOK, TraceOK, Unrecorded
    <3>2. phase[u] = "breaking" => author[p] = u
      BY <1>0, <2>0 DEF ItemsOK, UnitOK
    <3> QED
      BY <2>0, <2>1, <2>2, <2>3, <3>1, <3>2 DEF Rolling
  <2> QED
    BY <2>0, <2>2, <2>3
<1>8. HandoffOK'
  <2>0. /\ UNCHANGED <<author, phase, items, placed, settled, server, backup>>
        /\ \A q \in Paths : disk'[q] = IF q = p THEN Absent ELSE disk[q]
        /\ busy' = [busy EXCEPT ![u] = {p}]
        /\ Rolling(u) /\ p \in placed[u] \ settled[u] /\ UnitOK(u) /\ Live(u)
    BY <1>0 DEF TypeOK, Discard, Replaced, Rolling, Live, dbVars
  <2>1. ASSUME p \in Handoffs PROVE Unrecorded(u) /\ (Named(p) => backup[u][p] # Absent)
    BY <1>0, <2>0, <2>1 DEF HandoffOK, UnitOK, Rolling, Unrecorded
  <2>2. \A q \in Handoffs : q \in Paths
    BY DEF Paths
  <2>3. ASSUME NEW q \in Handoffs
        PROVE /\ Named(q) /\ disk'[q] = Absent => \E w \in Units : backup[w][q] # Absent /\ (server = "up" => Live(w))
              /\ ~Named(q) /\ disk'[q] # Absent /\ server = "up" => Held(q)
    BY <1>0, <2>0, <2>1, <2>2, ArtifactAssumption DEF HandoffOK
  <2>4. ASSUME NEW q \in Handoffs, NEW w \in Units
        PROVE  /\ backup[w][q] # Absent => Named(q)
               /\ Named(q) /\ Unrecorded(w) /\ q \in (placed[w] \cup busy'[w]) \ settled[w] => backup[w][q] # Absent
               /\ ~Named(q) /\ Unrecorded(w) /\ q \in (items[w] \ placed[w]) \cup settled[w] => disk'[q] = Absent
    BY <1>0, <2>0, <2>1, <2>2 DEF HandoffOK, TypeOK
  <2> QED
    BY <2>0, <2>3, <2>4 DEF HandoffOK, Named, Held, Live, Unrecorded
<1> QED
    BY <1>1, <1>2, <1>3, <1>4, <1>5, <1>6, <1>7, <1>8 DEF ArtifactInv

(* The old content returns. *)
LEMMA UndoOK ==
    ASSUME ArtifactInv, NEW u \in Units, NEW p \in Paths, Undo(u, p)
    PROVE  ArtifactInv'
<1>0. /\ TypeOK /\ BackupOK /\ TraceOK /\ KeptOK /\ PluginOK /\ HandoffOK
      /\ \A w \in Units : UnitOK(w) /\ ItemsOK(w)
    BY DEF ArtifactInv
<1>b. \A q \in Paths : Abandoned(q) => Abandoned(q)'
    BY <1>0 DEF Abandoned, TypeOK, Undo, HasBackup, Rolling, Replaced, dbVars
<1>a. HasBackup(u, p) <=> backup[u][p] # Absent
    BY <1>0 DEF HasBackup, BackupOK, UnitOK, Undo, Rolling, Live
<1>1. TypeOK'
    BY <1>0 DEF TypeOK, Content, Paths, Undo, HasBackup, Rolling, Replaced, dbVars
<1>2. ASSUME NEW w \in Units PROVE UnitOK(w)'
    BY <1>0, ArtifactAssumption DEF Paths, Content, UnitOK, Live, TypeOK, Undo, HasBackup, Rolling, Replaced, dbVars
<1>3. ASSUME NEW w \in Units PROVE ItemsOK(w)'
    BY <1>0 DEF ItemsOK, UnitOK, Unrecorded, Live, TypeOK, Undo, HasBackup, Rolling, Replaced, dbVars
<1>4. BackupOK'
    BY <1>0, <1>a, <1>b DEF BackupOK, UnitOK, Live, TypeOK, Undo, Rolling
<1>5. TraceOK'
    BY <1>0 DEF TraceOK, BackupOK, UnitOK, ItemsOK, Unrecorded, Live, TypeOK, Undo, HasBackup, Rolling, Replaced, dbVars
<1>6. KeptOK'
  <2>0. /\ UNCHANGED <<row, author, phase, items>>
        /\ \A w \in Units, q \in Paths : backup'[w][q] = IF w = u /\ q = p THEN Absent ELSE backup[w][q]
        /\ \A q \in Paths : disk'[q] = IF q = p /\ backup[u][p] # Absent THEN backup[u][p] ELSE disk[q]
    BY <1>0, <1>a DEF TypeOK, Undo, dbVars
  <2>1. SUFFICES ASSUME NEW q \in Paths \ Handoffs, Returned(q)', ~Abandoned(q)'
        PROVE (IF \E w \in Units : backup[w][q] # Absent
               THEN \A w \in Units : backup[w][q] # Absent => Standing(backup[w][q], q)
               ELSE Standing(disk[q], q))'
    BY DEF KeptOK
  <2>2. Returned(q) /\ ~Abandoned(q) /\ \A c : Standing(c, q)' <=> Standing(c, q)
    BY <2>0, <2>1 DEF Returned, Abandoned, Standing, Unrecorded
  <2>3. CASE q # p
    <3>1. /\ \A w \in Units : backup'[w][q] = backup[w][q]
          /\ disk'[q] = disk[q]
      BY <2>0, <2>3
    <3> QED
      BY <1>0, <2>1, <2>2, <3>1 DEF KeptOK
  <2>4. CASE ~(q # p)
    <3>1. Live(u) /\ p \in items[u]
      BY <1>0 DEF Undo, Rolling, Live
    <3>2. \A w \in Units \ {u} : backup[w][q] = Absent
      BY <1>0, <2>1, <2>2, <2>4, <3>1, Alone
    <3> QED
      BY <1>0, <2>0, <2>1, <2>2, <2>4, <3>2 DEF KeptOK
  <2> QED
    BY <2>3, <2>4
<1>7. PluginOK'
  <2>0. /\ UNCHANGED <<row, author, phase>>
        /\ \A w \in Units, q \in Paths : backup'[w][q] = IF w = u /\ q = p THEN Absent ELSE backup[w][q]
        /\ \A q \in Paths : disk'[q] = IF q = p /\ backup[u][p] # Absent THEN backup[u][p] ELSE disk[q]
        /\ Rolling(u) /\ p \in items[u] \ settled[u]
        /\ busy[u] = IF p \in placed[u] \ removes[u] THEN {p} ELSE {}
    BY <1>0, <1>a DEF TypeOK, Undo, Replaced, dbVars
  <2>1. SUFFICES ASSUME NEW q \in Plugins, Named(q), phase[author[q]] \notin {"breaking", "broken"}
                 PROVE  row[q] \in Units /\ (disk'[q] = row[q] \/ \E w \in Units : backup'[w][q] = row[q])
    BY <2>0 DEF PluginOK, Named
  <2>2. /\ row[q] \in Units /\ author[q] = row[q] /\ q \in Paths /\ q \notin Handoffs
        /\ disk[q] = row[q] \/ \E w \in Units : backup[w][q] = row[q]
    BY <1>0, <2>1, ArtifactAssumption DEF PluginOK, TraceOK, Paths
  <2>3. row[q] # Absent
    BY <2>2, ArtifactAssumption
  <2>4. ASSUME q = p, backup[u][p] # Absent PROVE disk[p] = Absent
    <3>1. phase[u] = "rolling"
      BY <1>0, <2>0, <2>1, <2>4 DEF ItemsOK, Rolling
    <3>2. p \in (placed[u] \cup busy[u]) \ removes[u]
      BY <1>0, <2>0, <2>1, <2>4, <3>1 DEF BackupOK, UnitOK
    <3> QED
      BY <1>0, <2>0, <2>4, <3>1, <3>2 DEF ItemsOK, Unrecorded, UnitOK
  <2> QED
    BY <2>0, <2>2, <2>3, <2>4
<1>8. HandoffOK'
    BY <1>0, <1>a DEF HandoffOK, BackupOK, UnitOK, ItemsOK, Named, Held, Unrecorded, Live, TypeOK,
                       Undo, Rolling, Replaced, dbVars
<1> QED
    BY <1>1, <1>2, <1>3, <1>4, <1>5, <1>6, <1>7, <1>8 DEF ArtifactInv

(* A backup is dropped because the database confirms what is there. *)
LEMMA DropBackupOK ==
    ASSUME ArtifactInv, NEW u \in Units, NEW p \in Paths, DropBackup(u, p)
    PROVE  ArtifactInv'
<1>0. /\ TypeOK /\ BackupOK /\ TraceOK /\ KeptOK /\ PluginOK /\ HandoffOK
      /\ \A w \in Units : UnitOK(w) /\ ItemsOK(w)
    BY DEF ArtifactInv
<1>b. \A q \in Paths : Abandoned(q) => Abandoned(q)'
    BY <1>0 DEF Abandoned, TypeOK, DropBackup, Confirmed, Named, dbVars, unitVars
<1>1. TypeOK'
    BY <1>0 DEF TypeOK, Content, Paths, DropBackup, Confirmed, Named, dbVars, unitVars
<1>2. ASSUME NEW w \in Units PROVE UnitOK(w)'
    BY <1>0 DEF UnitOK, Live, TypeOK, DropBackup, Confirmed, Named, dbVars, unitVars
<1>3. ASSUME NEW w \in Units PROVE ItemsOK(w)'
    BY <1>0 DEF ItemsOK, UnitOK, Unrecorded, Live, TypeOK, DropBackup, Confirmed, Named, dbVars, unitVars
<1>4. BackupOK'
    BY <1>0, <1>b DEF BackupOK, UnitOK, Live, TypeOK, DropBackup, Confirmed, Named, dbVars, unitVars
<1>5. TraceOK'
  <2>0. /\ UNCHANGED <<disk, row, author, phase, items, removes, placed, settled, busy>>
        /\ \A w \in Units, q \in Paths : backup'[w][q] = IF w = u /\ q = p THEN Absent ELSE backup[w][q]
    BY <1>0 DEF TypeOK, DropBackup, dbVars, unitVars
  <2> QED
    BY <1>0, <2>0, ArtifactAssumption DEF TraceOK, Unrecorded
<1>6. KeptOK'
  <2>0. /\ UNCHANGED <<row, author, phase, items>>
        /\ \A w \in Units, q \in Paths : backup'[w][q] = IF w = u /\ q = p THEN Absent ELSE backup[w][q]
        /\ \A q \in Paths : disk'[q] = disk[q]
        /\ backup[u][p] # Absent /\ Confirmed(p)
    BY <1>0 DEF TypeOK, DropBackup, dbVars, unitVars
  <2>1. SUFFICES ASSUME NEW q \in Paths \ Handoffs, Returned(q)', ~Abandoned(q)'
        PROVE (IF \E w \in Units : backup[w][q] # Absent
               THEN \A w \in Units : backup[w][q] # Absent => Standing(backup[w][q], q)
               ELSE Standing(disk[q], q))'
    BY DEF KeptOK
  <2>2. Returned(q) /\ ~Abandoned(q) /\ \A c : Standing(c, q)' <=> Standing(c, q)
    BY <2>0, <2>1 DEF Returned, Abandoned, Standing, Unrecorded
  <2>3. CASE q # p
    <3>1. /\ \A w \in Units : backup'[w][q] = backup[w][q]
          /\ disk'[q] = disk[q]
      BY <2>0, <2>3
    <3> QED
      BY <1>0, <2>1, <2>2, <3>1 DEF KeptOK
  <2>4. CASE ~(q # p)
    <3>1. \A w \in Units \ {u} : backup[w][q] = Absent
      BY <1>0, <2>0, <2>1, <2>2, <2>4 DEF BackupOK
    <3> QED
      BY <2>0, <2>1, <2>2, <2>4, <3>1 DEF Confirmed, Standing
  <2> QED
    BY <2>3, <2>4
<1>7. PluginOK'
    BY <1>0, ArtifactAssumption DEF Paths, Content, PluginOK, TraceOK, BackupOK, UnitOK, ItemsOK, Named, Live, TypeOK, DropBackup, Confirmed, dbVars, unitVars
<1>8. HandoffOK'
    BY <1>0 DEF HandoffOK, TraceOK, BackupOK, UnitOK, ItemsOK, Named, Held, Unrecorded, Live, TypeOK, DropBackup, Confirmed, dbVars, unitVars
<1> QED
    BY <1>1, <1>2, <1>3, <1>4, <1>5, <1>6, <1>7, <1>8 DEF ArtifactInv

(* The unconfirmed content is deleted first. *)
LEMMA ClearFinalOK ==
    ASSUME ArtifactInv, NEW u \in Units, NEW p \in Paths, ClearFinal(u, p)
    PROVE  ArtifactInv'
<1>0. /\ TypeOK /\ BackupOK /\ TraceOK /\ KeptOK /\ PluginOK /\ HandoffOK
      /\ \A w \in Units : UnitOK(w) /\ ItemsOK(w)
    BY DEF ArtifactInv
<1>b. \A q \in Paths : Abandoned(q) => Abandoned(q)'
    BY <1>0 DEF Abandoned, TypeOK, ClearFinal, Confirmed, Named, dbVars, unitVars
<1>1. TypeOK'
    BY <1>0 DEF TypeOK, Content, Paths, ClearFinal, Confirmed, Named, dbVars, unitVars
<1>2. ASSUME NEW w \in Units PROVE UnitOK(w)'
    BY <1>0 DEF UnitOK, Live, TypeOK, ClearFinal, Confirmed, Named, dbVars, unitVars
<1>3. ASSUME NEW w \in Units PROVE ItemsOK(w)'
    BY <1>0 DEF ItemsOK, UnitOK, Unrecorded, Live, TypeOK, ClearFinal, Confirmed, Named, dbVars, unitVars
<1>4. BackupOK'
    BY <1>0, <1>b DEF BackupOK, UnitOK, Live, TypeOK, ClearFinal, Confirmed, Named, dbVars, unitVars
<1>5. TraceOK'
    BY <1>0, ArtifactAssumption DEF Paths, Content, TraceOK, BackupOK, UnitOK, ItemsOK, Unrecorded, Live, TypeOK, ClearFinal, Confirmed, Named, dbVars, unitVars
<1>6. KeptOK'
    BY <1>0, <1>b DEF KeptOK, TraceOK, BackupOK, UnitOK, ItemsOK, Returned, Standing, Unrecorded, Live, TypeOK, ClearFinal, Confirmed, Named, dbVars, unitVars
<1>7. PluginOK'
    BY <1>0 DEF PluginOK, TraceOK, BackupOK, UnitOK, ItemsOK, Named, Live, TypeOK, ClearFinal, Confirmed, dbVars, unitVars
<1>8. HandoffOK'
    BY <1>0 DEF HandoffOK, TraceOK, BackupOK, UnitOK, ItemsOK, Named, Held, Unrecorded, Live, TypeOK, ClearFinal, Confirmed, dbVars, unitVars
<1> QED
    BY <1>1, <1>2, <1>3, <1>4, <1>5, <1>6, <1>7, <1>8 DEF ArtifactInv

(* The backup returns to its path. *)
LEMMA RestoreBackupOK ==
    ASSUME ArtifactInv, NEW u \in Units, NEW p \in Paths, RestoreBackup(u, p)
    PROVE  ArtifactInv'
<1>0. /\ TypeOK /\ BackupOK /\ TraceOK /\ KeptOK /\ PluginOK /\ HandoffOK
      /\ \A w \in Units : UnitOK(w) /\ ItemsOK(w)
    BY DEF ArtifactInv
<1>b. \A q \in Paths : Abandoned(q) => Abandoned(q)'
    BY <1>0 DEF Abandoned, TypeOK, RestoreBackup, dbVars, unitVars
<1>1. TypeOK'
    BY <1>0 DEF TypeOK, Content, Paths, RestoreBackup, dbVars, unitVars
<1>2. ASSUME NEW w \in Units PROVE UnitOK(w)'
    BY <1>0, ArtifactAssumption DEF Paths, Content, UnitOK, Live, TypeOK, RestoreBackup, dbVars, unitVars
<1>3. ASSUME NEW w \in Units PROVE ItemsOK(w)'
    BY <1>0 DEF ItemsOK, UnitOK, Unrecorded, Live, TypeOK, RestoreBackup, dbVars, unitVars
<1>4. BackupOK'
    BY <1>0, <1>b DEF BackupOK, UnitOK, Live, TypeOK, RestoreBackup, dbVars, unitVars
<1>5. TraceOK'
    BY <1>0 DEF TraceOK, BackupOK, UnitOK, ItemsOK, Unrecorded, Live, TypeOK, RestoreBackup, dbVars, unitVars
<1>6. KeptOK'
  <2>0. /\ UNCHANGED <<row, author, phase, items>>
        /\ \A w \in Units, q \in Paths : backup'[w][q] = IF w = u /\ q = p THEN Absent ELSE backup[w][q]
        /\ \A q \in Paths : disk'[q] = IF q = p THEN backup[u][p] ELSE disk[q]
        /\ backup[u][p] # Absent
    BY <1>0 DEF TypeOK, RestoreBackup, dbVars, unitVars
  <2>1. SUFFICES ASSUME NEW q \in Paths \ Handoffs, Returned(q)', ~Abandoned(q)'
        PROVE (IF \E w \in Units : backup[w][q] # Absent
               THEN \A w \in Units : backup[w][q] # Absent => Standing(backup[w][q], q)
               ELSE Standing(disk[q], q))'
    BY DEF KeptOK
  <2>2. Returned(q) /\ ~Abandoned(q) /\ \A c : Standing(c, q)' <=> Standing(c, q)
    BY <2>0, <2>1 DEF Returned, Abandoned, Standing, Unrecorded
  <2>3. CASE q # p
    <3>1. /\ \A w \in Units : backup'[w][q] = backup[w][q]
          /\ disk'[q] = disk[q]
      BY <2>0, <2>3
    <3> QED
      BY <1>0, <2>1, <2>2, <3>1 DEF KeptOK
  <2>4. CASE ~(q # p)
    <3>1. \A w \in Units \ {u} : backup[w][q] = Absent
      BY <1>0, <2>0, <2>1, <2>2, <2>4 DEF BackupOK
    <3> QED
      BY <1>0, <2>0, <2>1, <2>2, <2>4, <3>1 DEF KeptOK
  <2> QED
    BY <2>3, <2>4
<1>7. PluginOK'
    BY <1>0 DEF PluginOK, TraceOK, BackupOK, UnitOK, ItemsOK, Named, Live, TypeOK, RestoreBackup, dbVars, unitVars
<1>8. HandoffOK'
    BY <1>0 DEF HandoffOK, TraceOK, BackupOK, UnitOK, ItemsOK, Named, Held, Unrecorded, Live, TypeOK, RestoreBackup, dbVars, unitVars
<1> QED
    BY <1>1, <1>2, <1>3, <1>4, <1>5, <1>6, <1>7, <1>8 DEF ArtifactInv

(* The item in the middle of its step is put back. *)
LEMMA PromoteFailsOK ==
    ASSUME ArtifactInv, NEW u \in Units, PromoteFails(u)
    PROVE  ArtifactInv'
<1>0. /\ TypeOK /\ BackupOK /\ TraceOK /\ KeptOK /\ PluginOK /\ HandoffOK
      /\ \A w \in Units : UnitOK(w) /\ ItemsOK(w)
    BY DEF ArtifactInv
<1>b. \A q \in Paths : Abandoned(q) => Abandoned(q)'
    BY <1>0 DEF Abandoned, TypeOK, PromoteFails, AfterError, dbVars
<1>1. TypeOK'
    BY <1>0 DEF TypeOK, Content, Paths, PromoteFails, AfterError, dbVars
<1>2. ASSUME NEW w \in Units PROVE UnitOK(w)'
  <2>0. /\ UNCHANGED <<row, author, server, items, removes, bare, placed, settled, stage>>
        /\ \A v \in Units \ {u} : busy'[v] = busy[v] /\ phase'[v] = phase[v]
        /\ phase[u] = "promoting" /\ busy'[u] = {}
        /\ phase'[u] = IF u \in bare THEN "left" ELSE "rolling"
    BY <1>0 DEF PromoteFails, AfterError, TypeOK, dbVars
  <2>1. UnitOK(w)
    BY <1>0
  <2>2. CASE w # u
    BY <2>0, <2>1, <2>2 DEF UnitOK, Live
  <2>3. CASE w = u
    BY <2>0, <2>1, <2>3 DEF UnitOK, Live
  <2> QED
    BY <2>2, <2>3
<1>3. ASSUME NEW w \in Units PROVE ItemsOK(w)'
    BY <1>0 DEF ItemsOK, UnitOK, Unrecorded, Live, TypeOK, PromoteFails, AfterError, dbVars
<1>4. BackupOK'
  <2>0. /\ UNCHANGED <<items, placed, settled, server>>
        /\ \A w \in Units, q \in Paths : backup'[w][q] = IF w = u /\ q \in busy[u] THEN Absent ELSE backup[w][q]
        /\ phase[u] = "promoting"
        /\ \A w \in Units \ {u} : phase'[w] = phase[w] /\ busy'[w] = busy[w]
        /\ phase'[u] = IF u \in bare THEN "left" ELSE "rolling"
    BY <1>0 DEF TypeOK, PromoteFails, AfterError
  <2>1. ASSUME NEW w \in Units, NEW q \in Paths, backup'[w][q] # Absent
        PROVE  /\ backup[w][q] # Absent
               /\ q \in items[w]
               /\ w = u => q \notin busy[u]
    BY <1>0, <2>0, <2>1 DEF BackupOK
  <2>2. UnitOK(u)
    BY <1>0
  <2>3. ASSUME NEW w \in Units, NEW q \in Paths, backup'[w][q] # Absent
        PROVE  \/ Live(w)' /\ q \in (placed'[w] \cup busy'[w]) \ settled'[w]
               \/ phase'[w] \in {"crashed", "broken"} /\ server' # "up"
               \/ phase'[w] = "left"
    <3>1. CASE w # u
      BY <1>0, <2>0, <2>1, <2>3, <3>1 DEF BackupOK, Live
    <3>2. CASE w = u
      BY <1>0, <2>0, <2>1, <2>2, <2>3, <3>2 DEF BackupOK, Live, UnitOK
    <3> QED
      BY <3>1, <3>2
  <2> QED
    BY <1>0, <1>b, <2>0, <2>1, <2>3 DEF BackupOK
<1>5. TraceOK'
    BY <1>0 DEF TraceOK, BackupOK, UnitOK, ItemsOK, Unrecorded, Live, TypeOK, PromoteFails, AfterError, dbVars
<1>6. KeptOK'
  <2>0. /\ UNCHANGED <<row, author, items>>
        /\ \A w \in Units, q \in Paths : backup'[w][q] = IF w = u /\ q \in busy[u] THEN Absent ELSE backup[w][q]
        /\ \A q \in Paths : disk'[q] = IF q \in busy[u] THEN backup[u][q] ELSE disk[q]
        /\ phase[u] = "promoting" /\ \A w \in Units \ {u} : phase'[w] = phase[w]
        /\ phase'[u] = IF u \in bare THEN "left" ELSE "rolling"
    BY <1>0 DEF TypeOK, PromoteFails, AfterError, dbVars
  <2>1. SUFFICES ASSUME NEW q \in Paths \ Handoffs, Returned(q)', ~Abandoned(q)'
        PROVE (IF \E w \in Units : backup[w][q] # Absent
               THEN \A w \in Units : backup[w][q] # Absent => Standing(backup[w][q], q)
               ELSE Standing(disk[q], q))'
    BY DEF KeptOK
  <2>2. Returned(q) /\ ~Abandoned(q) /\ (q \in items[u] => u \notin bare)
    BY <1>0, <2>0, <2>1 DEF Returned, Abandoned, TypeOK
  <2>3. ASSUME NEW c, Standing(c, q), c = u => q \in items[u] PROVE Standing(c, q)'
    BY <1>0, <2>0, <2>1, <2>2, <2>3 DEF Standing, Unrecorded
  <2>4. (disk[q] = u \/ \E w \in Units : backup[w][q] = u) => q \in items[u]
    BY <1>0 DEF TraceOK
  <2>5. CASE q \notin busy[u]
    BY <1>0, <2>0, <2>1, <2>2, <2>3, <2>4, <2>5 DEF KeptOK
  <2>6. CASE q \in busy[u]
    <3>1. q \in items[u] /\ Live(u) /\ disk[q] = Absent
      BY <1>0, <2>0, <2>6 DEF UnitOK, ItemsOK, Unrecorded, Live
    <3>2. \A w \in Units \ {u} : backup[w][q] = Absent
      BY <1>0, <2>1, <2>2, <3>1, Alone
    <3> QED
      BY <1>0, <2>0, <2>1, <2>2, <2>3, <2>4, <2>6, <3>1, <3>2 DEF KeptOK
  <2> QED
    BY <2>5, <2>6
<1>7. PluginOK'
  <2>0. /\ UNCHANGED <<row, author>>
        /\ \A w \in Units, q \in Paths : backup'[w][q] = IF w = u /\ q \in busy[u] THEN Absent ELSE backup[w][q]
        /\ \A q \in Paths : disk'[q] = IF q \in busy[u] THEN backup[u][q] ELSE disk[q]
        /\ phase[u] = "promoting" /\ \A w \in Units \ {u} : phase'[w] = phase[w]
    BY <1>0 DEF TypeOK, PromoteFails, AfterError, dbVars
  <2>1. SUFFICES ASSUME NEW q \in Plugins, Named(q), phase'[author[q]] \notin {"breaking", "broken"}
                 PROVE  row[q] \in Units /\ (disk'[q] = row[q] \/ \E w \in Units : backup'[w][q] = row[q])
    BY <2>0 DEF PluginOK, Named
  <2>2. phase[author[q]] \notin {"breaking", "broken"} /\ q \in Paths
    BY <1>0, <2>0, <2>1 DEF Named, TypeOK, Paths
  <2>3. /\ row[q] \in Units /\ row[q] # Absent
        /\ disk[q] = row[q] \/ \E w \in Units : backup[w][q] = row[q]
    BY <1>0, <2>1, <2>2, ArtifactAssumption DEF PluginOK
  <2>4. q \in busy[u] => disk[q] = Absent
    BY <1>0, <2>0 DEF ItemsOK, UnitOK, Unrecorded
  <2> QED
    BY <2>0, <2>2, <2>3, <2>4
<1>8. HandoffOK'
  <2>0. /\ UNCHANGED <<author, bare, items, placed, settled, server>>
        /\ \A w \in Units, q \in Paths : backup'[w][q] = IF w = u /\ q \in busy[u] THEN Absent ELSE backup[w][q]
        /\ \A q \in Paths : disk'[q] = IF q \in busy[u] THEN backup[u][q] ELSE disk[q]
        /\ phase[u] = "promoting" /\ busy'[u] = {} /\ placed[u] # items[u]
        /\ \A w \in Units \ {u} : phase'[w] = phase[w] /\ busy'[w] = busy[w]
        /\ phase'[u] = IF u \in bare THEN "left" ELSE "rolling"
        /\ UnitOK(u)
    BY <1>0 DEF TypeOK, PromoteFails, AfterError, dbVars
  <2>1. ASSUME NEW q \in Handoffs PROVE q \in Paths
    BY DEF Paths
  <2>2. ASSUME NEW q \in Handoffs, q \in items[u]
        PROVE  /\ phase'[u] = "left" /\ placed[u] = {} /\ settled[u] = {} /\ Unrecorded(u) /\ Live(u)
               /\ Named(q) /\ q \in busy[u] => backup[u][q] # Absent
               /\ q \in busy[u] => disk[q] = Absent
               /\ backup[u][q] # Absent => Named(q) /\ q \in busy[u]
               /\ ~Named(q) => disk[q] = Absent
    <3>1. /\ u \in bare /\ settled[u] = {} /\ \A x, y \in items[u] : x = y
          /\ placed[u] \cup busy[u] \subseteq items[u]
      BY <2>0, <2>2 DEF UnitOK
    <3>2. placed[u] = {} /\ Unrecorded(u) /\ Live(u)
      BY <2>0, <2>2, <3>1 DEF Unrecorded, Live
    <3>3. /\ backup[u][q] # Absent => Named(q)
          /\ Named(q) /\ q \in busy[u] => backup[u][q] # Absent
          /\ ~Named(q) => disk[q] = Absent
      BY <1>0, <2>2, <3>1, <3>2 DEF HandoffOK
    <3>4. backup[u][q] # Absent => q \in busy[u]
      BY <1>0, <2>0, <2>1, <3>2 DEF BackupOK, Live
    <3>5. q \in busy[u] => disk[q] = Absent
      BY <1>0, <3>1, <3>2 DEF ItemsOK
    <3> QED
      BY <2>0, <3>1, <3>2, <3>3, <3>4, <3>5
  <2>3. busy[u] \subseteq items[u] /\ Live(u)
    BY <2>0 DEF UnitOK, Live
  <2>4. ASSUME NEW q \in Handoffs, Named(q), disk'[q] = Absent
        PROVE  \E w \in Units : backup'[w][q] # Absent /\ (server = "up" => Live(w)')
    BY <1>0, <2>0, <2>1, <2>2, <2>3, <2>4 DEF HandoffOK, Live, BackupOK
  <2>5. ASSUME NEW q \in Handoffs, ~Named(q), disk'[q] # Absent, server = "up"
        PROVE  Held(q)'
    BY <1>0, <2>0, <2>1, <2>2, <2>3, <2>5 DEF HandoffOK, Live, Held
  <2>6. ASSUME NEW q \in Handoffs, NEW w \in Units
        PROVE (/\ backup[w][q] # Absent => Named(q)
               /\ Named(q) /\ Unrecorded(w) /\ q \in (placed[w] \cup busy[w]) \ settled[w] => backup[w][q] # Absent
               /\ ~Named(q) /\ Unrecorded(w) /\ q \in (items[w] \ placed[w]) \cup settled[w] => disk[q] = Absent)'
    BY <1>0, <2>0, <2>1, <2>2, <2>3 DEF HandoffOK, Unrecorded, Named, UnitOK
  <2> QED
    BY <2>0, <2>4, <2>5, <2>6 DEF HandoffOK, Named
<1> QED
    BY <1>1, <1>2, <1>3, <1>4, <1>5, <1>6, <1>7, <1>8 DEF ArtifactInv

(* The database has the unit's rows. *)
LEMMA RecordOK ==
    ASSUME ArtifactInv, NEW u \in Units, Record(u)
    PROVE  ArtifactInv'
<1>0. /\ TypeOK /\ BackupOK /\ TraceOK /\ KeptOK /\ PluginOK /\ HandoffOK
      /\ \A w \in Units : UnitOK(w) /\ ItemsOK(w)
    BY DEF ArtifactInv
<1>b. \A q \in Paths : Abandoned(q) => Abandoned(q)'
    BY <1>0 DEF Abandoned, TypeOK, Record, fileVars
<1>1. TypeOK'
    BY <1>0 DEF TypeOK, Content, Paths, Record, fileVars
<1>2. ASSUME NEW w \in Units PROVE UnitOK(w)'
  <2>0. /\ UNCHANGED <<server, items, removes, bare, placed, settled, stage, busy>>
        /\ \A v \in Units \ {u} : phase'[v] = phase[v]
        /\ phase[u] = "promoting" /\ phase'[u] = "committing" /\ placed[u] = items[u]
        /\ \A q \in items[u] : author'[q] = u /\ row'[q] = IF q \in removes[u] THEN Absent ELSE u
        /\ \A q \in Paths \ items[u] : author'[q] = author[q] /\ row'[q] = row[q]
        /\ items[u] \subseteq Paths /\ items[w] \subseteq Paths
        /\ removes[u] \subseteq items[u]
    BY <1>0 DEF Record, TypeOK, fileVars, UnitOK
  <2>1. UnitOK(w)
    BY <1>0
  <2>2. CASE w # u
    BY <2>0, <2>1, <2>2 DEF UnitOK, Live
  <2>3. CASE w = u
    BY <2>0, <2>1, <2>3 DEF UnitOK, Live
  <2> QED
    BY <2>2, <2>3
<1>3. ASSUME NEW w \in Units PROVE ItemsOK(w)'
    BY <1>0 DEF ItemsOK, UnitOK, Unrecorded, Live, TypeOK, Record, fileVars
<1>4. BackupOK'
    BY <1>0, <1>b DEF BackupOK, UnitOK, Live, TypeOK, Record, fileVars
<1>5. TraceOK'
    BY <1>0, ArtifactAssumption DEF Paths, Content, TraceOK, BackupOK, UnitOK, ItemsOK, Unrecorded, Live, TypeOK, Record, fileVars
<1>6. KeptOK'
    BY <1>0, <1>b, ArtifactAssumption DEF Paths, Content, KeptOK, TraceOK, BackupOK, UnitOK, ItemsOK, Returned, Standing, Unrecorded, Live, TypeOK, Record, fileVars
<1>7. PluginOK'
  <2>0. /\ UNCHANGED <<disk, backup>> /\ placed[u] = items[u] /\ phase[u] = "promoting"
        /\ \A w \in Units \ {u} : phase'[w] = phase[w]
        /\ \A q \in Paths : author'[q] = IF q \in items[u] THEN u ELSE author[q]
        /\ \A q \in Paths : row'[q] = IF q \in removes[u] THEN Absent ELSE IF q \in items[u] THEN u ELSE row[q]
    BY <1>0 DEF TypeOK, Record, fileVars
  <2>1. SUFFICES ASSUME NEW q \in Plugins, Named(q)', phase'[author'[q]] \notin {"breaking", "broken"}
                 PROVE  row'[q] \in Units /\ (disk[q] = row'[q] \/ \E w \in Units : backup[w][q] = row'[q])
    BY <2>0 DEF PluginOK
  <2>2. q \in Paths /\ q \notin removes[u] /\ removes[u] \subseteq items[u]
    BY <1>0 DEF UnitOK, Paths
  <2>3. CASE q \in items[u]
    BY <1>0, <2>0, <2>2, <2>3 DEF ItemsOK, UnitOK, Unrecorded
  <2>4. CASE q \notin items[u]
    <3>1. author[q] # u
      BY <1>0, <2>0, <2>2 DEF TraceOK, Unrecorded
    <3> QED
      BY <1>0, <2>0, <2>1, <2>2, <2>4, <3>1 DEF PluginOK, Named, TypeOK
  <2> QED
    BY <2>3, <2>4
<1>8. HandoffOK'
    BY <1>0, ArtifactAssumption DEF Paths, Content, HandoffOK, TraceOK, BackupOK, UnitOK, ItemsOK, Named, Held, Unrecorded, Live, TypeOK, Record, fileVars
<1> QED
    BY <1>1, <1>2, <1>3, <1>4, <1>5, <1>6, <1>7, <1>8 DEF ArtifactInv

(* The database transaction fails; nothing is recorded. *)
LEMMA RecordFailsOK ==
    ASSUME ArtifactInv, NEW u \in Units, RecordFails(u)
    PROVE  ArtifactInv'
<1>0. /\ TypeOK /\ BackupOK /\ TraceOK /\ KeptOK /\ PluginOK /\ HandoffOK
      /\ \A w \in Units : UnitOK(w) /\ ItemsOK(w)
    BY DEF ArtifactInv
<1>b. \A q \in Paths : Abandoned(q) => Abandoned(q)'
    BY <1>0 DEF Abandoned, TypeOK, RecordFails, fileVars, dbVars
<1>1. TypeOK'
    BY <1>0 DEF TypeOK, Content, Paths, RecordFails, fileVars, dbVars
<1>2. ASSUME NEW w \in Units PROVE UnitOK(w)'
    BY <1>0 DEF UnitOK, Live, TypeOK, RecordFails, fileVars, dbVars
<1>3. ASSUME NEW w \in Units PROVE ItemsOK(w)'
    BY <1>0 DEF ItemsOK, UnitOK, Unrecorded, Live, TypeOK, RecordFails, fileVars, dbVars
<1>4. BackupOK'
    BY <1>0, <1>b DEF BackupOK, UnitOK, Live, TypeOK, RecordFails, fileVars, dbVars
<1>5. TraceOK'
    BY <1>0 DEF TraceOK, BackupOK, UnitOK, ItemsOK, Unrecorded, Live, TypeOK, RecordFails, fileVars, dbVars
<1>6. KeptOK'
    BY <1>0, <1>b DEF KeptOK, TraceOK, BackupOK, UnitOK, ItemsOK, Returned, Standing, Unrecorded, Live, TypeOK, RecordFails, fileVars, dbVars
<1>7. PluginOK'
    BY <1>0 DEF PluginOK, TraceOK, BackupOK, UnitOK, ItemsOK, Named, Live, TypeOK, RecordFails, fileVars, dbVars
<1>8. HandoffOK'
    BY <1>0 DEF HandoffOK, TraceOK, BackupOK, UnitOK, ItemsOK, Named, Held, Unrecorded, Live, TypeOK, RecordFails, fileVars, dbVars
<1> QED
    BY <1>1, <1>2, <1>3, <1>4, <1>5, <1>6, <1>7, <1>8 DEF ArtifactInv

(* A deletion raises after the database has the rows. *)
LEMMA CommitFailsOK ==
    ASSUME ArtifactInv, NEW u \in Units, CommitFails(u)
    PROVE  ArtifactInv'
<1>0. /\ TypeOK /\ BackupOK /\ TraceOK /\ KeptOK /\ PluginOK /\ HandoffOK
      /\ \A w \in Units : UnitOK(w) /\ ItemsOK(w)
    BY DEF ArtifactInv
<1>b. \A q \in Paths : Abandoned(q) => Abandoned(q)'
    BY <1>0 DEF Abandoned, TypeOK, CommitFails, AfterError, fileVars, dbVars
<1>1. TypeOK'
    BY <1>0 DEF TypeOK, Content, Paths, CommitFails, AfterError, fileVars, dbVars
<1>2. ASSUME NEW w \in Units PROVE UnitOK(w)'
    BY <1>0, ArtifactAssumption DEF Paths, Content, UnitOK, Live, TypeOK, CommitFails, AfterError, fileVars, dbVars
<1>3. ASSUME NEW w \in Units PROVE ItemsOK(w)'
    BY <1>0 DEF ItemsOK, UnitOK, Unrecorded, Live, TypeOK, CommitFails, AfterError, fileVars, dbVars
<1>4. BackupOK'
  <2>0. /\ UNCHANGED <<items, placed, settled, server, backup>>
        /\ phase[u] = "committing"
        /\ \A w \in Units \ {u} : phase'[w] = phase[w] /\ busy'[w] = busy[w]
        /\ phase'[u] = IF u \in bare THEN "left" ELSE "breaking"
    BY <1>0 DEF TypeOK, CommitFails, AfterError, fileVars
  <2>1. UnitOK(u)
    BY <1>0
  <2>2. ASSUME NEW w \in Units, NEW q \in Paths, backup[w][q] # Absent
        PROVE  \/ Live(w)' /\ q \in (placed[w] \cup busy'[w]) \ settled[w]
               \/ phase'[w] \in {"crashed", "broken"} /\ server # "up"
               \/ phase'[w] = "left"
    <3>1. CASE w # u
      BY <1>0, <2>0, <2>2, <3>1 DEF BackupOK, Live
    <3>2. CASE w = u
      BY <1>0, <2>0, <2>1, <2>2, <3>2 DEF BackupOK, Live, UnitOK
    <3> QED
      BY <3>1, <3>2
  <2> QED
    BY <1>0, <1>b, <2>0, <2>2 DEF BackupOK
<1>5. TraceOK'
    BY <1>0 DEF TraceOK, BackupOK, UnitOK, ItemsOK, Unrecorded, Live, TypeOK, CommitFails, AfterError, fileVars, dbVars
<1>6. KeptOK'
    BY <1>0, <1>b DEF KeptOK, TraceOK, BackupOK, UnitOK, ItemsOK, Returned, Standing, Unrecorded, Live, TypeOK, CommitFails, AfterError, fileVars, dbVars
<1>7. PluginOK'
    BY <1>0 DEF PluginOK, TraceOK, BackupOK, UnitOK, ItemsOK, Named, Live, TypeOK, CommitFails, AfterError, fileVars, dbVars
<1>8. HandoffOK'
    BY <1>0, ArtifactAssumption DEF Paths, Content, HandoffOK, TraceOK, BackupOK, UnitOK, ItemsOK, Named, Held, Unrecorded, Live, TypeOK, CommitFails, AfterError, fileVars, dbVars
<1> QED
    BY <1>1, <1>2, <1>3, <1>4, <1>5, <1>6, <1>7, <1>8 DEF ArtifactInv

(* A unit is closed. *)
LEMMA FinishOK ==
    ASSUME ArtifactInv, NEW u \in Units, Finish(u)
    PROVE  ArtifactInv'
<1>0. /\ TypeOK /\ BackupOK /\ TraceOK /\ KeptOK /\ PluginOK /\ HandoffOK
      /\ \A w \in Units : UnitOK(w) /\ ItemsOK(w)
    BY DEF ArtifactInv
<1>b. \A q \in Paths : Abandoned(q) => Abandoned(q)'
    BY <1>0 DEF Abandoned, TypeOK, Finish, Outcome, fileVars, dbVars
<1>1. TypeOK'
    BY <1>0 DEF TypeOK, Content, Paths, Finish, Outcome, fileVars, dbVars
<1>2. ASSUME NEW w \in Units PROVE UnitOK(w)'
  <2>0. /\ UNCHANGED <<row, author, server, items, removes, bare, placed, settled, stage, busy>>
        /\ \A v \in Units \ {u} : phase'[v] = phase[v]
        /\ phase[u] \in {"committing", "rolling", "breaking"}
        /\ phase'[u] = CASE phase[u] = "committing" -> "done" [] phase[u] = "rolling" -> "failed"
                        [] phase[u] = "breaking" -> "broken"
        /\ settled[u] = items[u]
    BY <1>0 DEF Finish, Outcome, TypeOK, fileVars, dbVars
  <2>1. UnitOK(w)
    BY <1>0
  <2>2. CASE w # u
    BY <2>0, <2>1, <2>2 DEF UnitOK, Live
  <2>3. CASE w = u
    BY <2>0, <2>1, <2>3 DEF UnitOK, Live
  <2> QED
    BY <2>2, <2>3
<1>3. ASSUME NEW w \in Units PROVE ItemsOK(w)'
    BY <1>0 DEF ItemsOK, UnitOK, Unrecorded, Live, TypeOK, Finish, Outcome, fileVars, dbVars
<1>4. BackupOK'
    BY <1>0, <1>b DEF BackupOK, UnitOK, Live, TypeOK, Finish, Outcome, fileVars, dbVars
<1>5. TraceOK'
    BY <1>0 DEF TraceOK, BackupOK, UnitOK, ItemsOK, Unrecorded, Live, TypeOK, Finish, Outcome, fileVars, dbVars
<1>6. KeptOK'
  <2>0. /\ UNCHANGED <<disk, backup, row, author, items>>
        /\ \A w \in Units \ {u} : phase'[w] = phase[w]
        /\ phase[u] \in {"committing", "rolling", "breaking"} /\ settled[u] = items[u]
        /\ phase'[u] = "done" <=> phase[u] = "committing"
    BY <1>0 DEF TypeOK, Finish, Outcome, fileVars, dbVars
  <2>1. SUFFICES ASSUME NEW q \in Paths \ Handoffs, Returned(q)', ~Abandoned(q)'
        PROVE (IF \E w \in Units : backup[w][q] # Absent
               THEN \A w \in Units : backup[w][q] # Absent => Standing(backup[w][q], q)
               ELSE Standing(disk[q], q))'
    BY DEF KeptOK
  <2>2. ASSUME NEW c, Standing(c, q), c = u => phase[u] # "rolling" PROVE Standing(c, q)'
    BY <2>0, <2>2 DEF Standing, Unrecorded
  <2>3. phase[u] = "rolling" => disk[q] # u /\ \A w \in Units : backup[w][q] # u
    <3>1. phase[u] = "rolling" /\ disk[q] = u => q \in items[u] \ settled[u]
      BY <1>0 DEF TraceOK, UnitOK, Unrecorded
    <3> QED
      BY <1>0, <2>0, <3>1 DEF TraceOK, Unrecorded
  <2>4. CASE Returned(q)
    BY <1>0, <1>b, <2>0, <2>1, <2>2, <2>3, <2>4 DEF KeptOK
  <2>5. CASE ~Returned(q)
    <3>1. author[q] = u /\ phase[u] = "committing" /\ q \in items[u]
      BY <1>0, <2>0, <2>1, <2>5 DEF Returned, TypeOK, TraceOK
    <3>2. ASSUME NEW w \in Units, backup[w][q] # Absent PROVE FALSE
      BY <1>0, <1>b, <2>0, <2>1, <3>1, <3>2, Alone DEF Live
    <3>3. row[q] = disk[q]
      BY <1>0, <3>1 DEF ItemsOK, UnitOK
    <3> QED
      BY <2>0, <3>2, <3>3 DEF Standing
  <2> QED
    BY <2>4, <2>5
<1>7. PluginOK'
    BY <1>0 DEF PluginOK, TraceOK, BackupOK, UnitOK, ItemsOK, Named, Live, TypeOK, Finish, Outcome, fileVars, dbVars
<1>8. HandoffOK'
    BY <1>0, ArtifactAssumption DEF Paths, Content, HandoffOK, TraceOK, BackupOK, UnitOK, ItemsOK, Named, Held, Unrecorded, Live, TypeOK, Finish, Outcome, fileVars, dbVars
<1> QED
    BY <1>1, <1>2, <1>3, <1>4, <1>5, <1>6, <1>7, <1>8 DEF ArtifactInv

(* The process dies. *)
LEMMA CrashOK ==
    ASSUME ArtifactInv, Crash
    PROVE  ArtifactInv'
<1>0. /\ TypeOK /\ BackupOK /\ TraceOK /\ KeptOK /\ PluginOK /\ HandoffOK
      /\ \A w \in Units : UnitOK(w) /\ ItemsOK(w)
    BY DEF ArtifactInv
<1>b. \A q \in Paths : Abandoned(q) => Abandoned(q)'
    BY <1>0 DEF Abandoned, TypeOK, Crash, fileVars, dbVars, Live
<1>1. TypeOK'
    BY <1>0, ArtifactAssumption DEF Paths, Content, TypeOK, Crash, fileVars, dbVars, Live
<1>2. ASSUME NEW w \in Units PROVE UnitOK(w)'
    BY <1>0 DEF UnitOK, Live, TypeOK, Crash, fileVars, dbVars
<1>3. ASSUME NEW w \in Units PROVE ItemsOK(w)'
    BY <1>0 DEF ItemsOK, UnitOK, Unrecorded, Live, TypeOK, Crash, fileVars, dbVars
<1>4. BackupOK'
    BY <1>0, <1>b DEF BackupOK, UnitOK, Live, TypeOK, Crash, fileVars, dbVars
<1>5. TraceOK'
    BY <1>0 DEF TraceOK, BackupOK, UnitOK, ItemsOK, Unrecorded, Live, TypeOK, Crash, fileVars, dbVars
<1>6. KeptOK'
    BY <1>0, <1>b DEF KeptOK, TraceOK, BackupOK, UnitOK, ItemsOK, Returned, Standing, Unrecorded, Live, TypeOK, Crash, fileVars, dbVars
<1>7. PluginOK'
    BY <1>0, ArtifactAssumption DEF Paths, Content, PluginOK, TraceOK, BackupOK, UnitOK, ItemsOK, Named, Live, TypeOK, Crash, fileVars, dbVars
<1>8. HandoffOK'
    BY <1>0 DEF HandoffOK, TraceOK, BackupOK, UnitOK, ItemsOK, Named, Held, Unrecorded, Live, TypeOK, Crash, fileVars, dbVars
<1> QED
    BY <1>1, <1>2, <1>3, <1>4, <1>5, <1>6, <1>7, <1>8 DEF ArtifactInv

(* Recovery starts by removing the staged entries. *)
LEMMA StartupOK ==
    ASSUME ArtifactInv, Startup
    PROVE  ArtifactInv'
<1>0. /\ TypeOK /\ BackupOK /\ TraceOK /\ KeptOK /\ PluginOK /\ HandoffOK
      /\ \A w \in Units : UnitOK(w) /\ ItemsOK(w)
    BY DEF ArtifactInv
<1>b. \A q \in Paths : Abandoned(q) => Abandoned(q)'
    BY <1>0 DEF Abandoned, TypeOK, Startup, dbVars, unitVars
<1>1. TypeOK'
    BY <1>0 DEF TypeOK, Content, Paths, Startup, dbVars, unitVars
<1>2. ASSUME NEW w \in Units PROVE UnitOK(w)'
    BY <1>0 DEF UnitOK, Live, TypeOK, Startup, dbVars, unitVars
<1>3. ASSUME NEW w \in Units PROVE ItemsOK(w)'
    BY <1>0 DEF ItemsOK, UnitOK, Unrecorded, Live, TypeOK, Startup, dbVars, unitVars
<1>4. BackupOK'
    BY <1>0, <1>b DEF BackupOK, UnitOK, Live, TypeOK, Startup, dbVars, unitVars
<1>5. TraceOK'
    BY <1>0 DEF TraceOK, BackupOK, UnitOK, ItemsOK, Unrecorded, Live, TypeOK, Startup, dbVars, unitVars
<1>6. KeptOK'
    BY <1>0, <1>b DEF KeptOK, TraceOK, BackupOK, UnitOK, ItemsOK, Returned, Standing, Unrecorded, Live, TypeOK, Startup, dbVars, unitVars
<1>7. PluginOK'
    BY <1>0 DEF PluginOK, TraceOK, BackupOK, UnitOK, ItemsOK, Named, Live, TypeOK, Startup, dbVars, unitVars
<1>8. HandoffOK'
    BY <1>0 DEF HandoffOK, TraceOK, BackupOK, UnitOK, ItemsOK, Named, Held, Unrecorded, Live, TypeOK, Startup, dbVars, unitVars
<1> QED
    BY <1>1, <1>2, <1>3, <1>4, <1>5, <1>6, <1>7, <1>8 DEF ArtifactInv

(* Recovery is over. *)
LEMMA ServeOK ==
    ASSUME ArtifactInv, Serve
    PROVE  ArtifactInv'
<1>0. /\ TypeOK /\ BackupOK /\ TraceOK /\ KeptOK /\ PluginOK /\ HandoffOK
      /\ \A w \in Units : UnitOK(w) /\ ItemsOK(w)
    BY DEF ArtifactInv
<1>b. \A q \in Paths : Abandoned(q) => Abandoned(q)'
    BY <1>0 DEF Abandoned, TypeOK, Serve, Unpaired, Named, fileVars, dbVars, unitVars
<1>1. TypeOK'
    BY <1>0 DEF TypeOK, Content, Paths, Serve, Unpaired, Named, fileVars, dbVars, unitVars
<1>2. ASSUME NEW w \in Units PROVE UnitOK(w)'
    BY <1>0 DEF UnitOK, Live, TypeOK, Serve, Unpaired, Named, fileVars, dbVars, unitVars
<1>3. ASSUME NEW w \in Units PROVE ItemsOK(w)'
    BY <1>0 DEF ItemsOK, UnitOK, Unrecorded, Live, TypeOK, Serve, Unpaired, Named, fileVars, dbVars, unitVars
<1>4. BackupOK'
    BY <1>0, <1>b DEF BackupOK, UnitOK, Live, TypeOK, Serve, Unpaired, Named, fileVars, dbVars, unitVars
<1>5. TraceOK'
    BY <1>0 DEF TraceOK, BackupOK, UnitOK, ItemsOK, Unrecorded, Live, TypeOK, Serve, Unpaired, Named, fileVars, dbVars, unitVars
<1>6. KeptOK'
    BY <1>0, <1>b DEF KeptOK, TraceOK, BackupOK, UnitOK, ItemsOK, Returned, Standing, Unrecorded, Live, TypeOK, Serve, Unpaired, Named, fileVars, dbVars, unitVars
<1>7. PluginOK'
    BY <1>0 DEF PluginOK, TraceOK, BackupOK, UnitOK, ItemsOK, Named, Live, TypeOK, Serve, Unpaired, fileVars, dbVars, unitVars
<1>8. HandoffOK'
    BY <1>0, ArtifactAssumption DEF Paths, Content, HandoffOK, TraceOK, BackupOK, UnitOK, ItemsOK, Named, Held, Unrecorded, Live, TypeOK, Serve, Unpaired, fileVars, dbVars, unitVars
<1> QED
    BY <1>1, <1>2, <1>3, <1>4, <1>5, <1>6, <1>7, <1>8 DEF ArtifactInv

(* A handoff directory without a task is deleted. *)
LEMMA RemoveOrphanOK ==
    ASSUME ArtifactInv, NEW p \in Paths, RemoveOrphan(p)
    PROVE  ArtifactInv'
<1>0. /\ TypeOK /\ BackupOK /\ TraceOK /\ KeptOK /\ PluginOK /\ HandoffOK
      /\ \A w \in Units : UnitOK(w) /\ ItemsOK(w)
    BY DEF ArtifactInv
<1>b. \A q \in Paths : Abandoned(q) => Abandoned(q)'
    BY <1>0 DEF Abandoned, TypeOK, RemoveOrphan, Unpaired, Named, dbVars, unitVars
<1>1. TypeOK'
    BY <1>0 DEF TypeOK, Content, Paths, RemoveOrphan, Unpaired, Named, dbVars, unitVars
<1>2. ASSUME NEW w \in Units PROVE UnitOK(w)'
    BY <1>0, ArtifactAssumption DEF Paths, Content, UnitOK, Live, TypeOK, RemoveOrphan, Unpaired, Named, dbVars, unitVars
<1>3. ASSUME NEW w \in Units PROVE ItemsOK(w)'
    BY <1>0 DEF ItemsOK, UnitOK, Unrecorded, Live, TypeOK, RemoveOrphan, Unpaired, Named, dbVars, unitVars
<1>4. BackupOK'
    BY <1>0, <1>b DEF BackupOK, UnitOK, Live, TypeOK, RemoveOrphan, Unpaired, Named, dbVars, unitVars
<1>5. TraceOK'
    BY <1>0 DEF TraceOK, BackupOK, UnitOK, ItemsOK, Unrecorded, Live, TypeOK, RemoveOrphan, Unpaired, Named, dbVars, unitVars
<1>6. KeptOK'
    BY <1>0, <1>b DEF KeptOK, TraceOK, BackupOK, UnitOK, ItemsOK, Returned, Standing, Unrecorded, Live, TypeOK, RemoveOrphan, Unpaired, Named, dbVars, unitVars
<1>7. PluginOK'
    BY <1>0 DEF PluginOK, TraceOK, BackupOK, UnitOK, ItemsOK, Named, Live, TypeOK, RemoveOrphan, Unpaired, dbVars, unitVars
<1>8. HandoffOK'
    BY <1>0 DEF HandoffOK, TraceOK, BackupOK, UnitOK, ItemsOK, Named, Held, Unrecorded, Live, TypeOK, RemoveOrphan, Unpaired, dbVars, unitVars
<1> QED
    BY <1>1, <1>2, <1>3, <1>4, <1>5, <1>6, <1>7, <1>8 DEF ArtifactInv

(* Nothing has begun: what the database records is what is there.             *)
LEMMA InitOK == Init => ArtifactInv
<1> SUFFICES ASSUME Init PROVE ArtifactInv
    OBVIOUS
<1>1. TypeOK
    BY ArtifactAssumption DEF Init, TypeOK, Content
<1>2. ASSUME NEW w \in Units PROVE UnitOK(w)
    BY DEF Init, UnitOK, Live
<1>3. ASSUME NEW w \in Units PROVE ItemsOK(w)
    BY DEF Init, ItemsOK, Unrecorded
<1>4. BackupOK
    BY DEF Init, BackupOK
<1>5. TraceOK
    BY ArtifactAssumption DEF Init, TraceOK, Unrecorded
<1>6. KeptOK
    BY DEF Init, KeptOK, Standing
<1>7. PluginOK
    BY DEF Init, PluginOK, Named, Paths
<1>8. HandoffOK
    BY DEF Init, HandoffOK, Named, Unrecorded, Paths
<1> QED
    BY <1>1, <1>2, <1>3, <1>4, <1>5, <1>6, <1>7, <1>8 DEF ArtifactInv

(* A step that changes nothing.                                               *)
LEMMA StutterOK == ArtifactInv /\ UNCHANGED vars => ArtifactInv'
<1> SUFFICES ASSUME ArtifactInv, UNCHANGED vars PROVE ArtifactInv'
    OBVIOUS
<1>0. UNCHANGED <<disk, backup, stage, row, author, phase, items, removes, bare, placed, settled,
                  busy, server, crashes>>
    BY DEF vars, fileVars, dbVars, unitVars
<1>1. TypeOK'
    BY <1>0 DEF ArtifactInv, TypeOK
<1>2. ASSUME NEW w \in Units PROVE UnitOK(w)' /\ ItemsOK(w)'
    BY <1>0 DEF ArtifactInv, UnitOK, ItemsOK, Live, Unrecorded
<1>3. BackupOK' /\ TraceOK'
    BY <1>0 DEF ArtifactInv, BackupOK, TraceOK, Live, Abandoned, Unrecorded
<1>4. KeptOK' /\ PluginOK'
    BY <1>0 DEF ArtifactInv, KeptOK, PluginOK, Returned, Abandoned, Standing, Named, Unrecorded
<1>5. HandoffOK'
    BY <1>0 DEF ArtifactInv, HandoffOK, Named, Held, Live, Unrecorded
<1> QED
    BY <1>1, <1>2, <1>3, <1>4, <1>5 DEF ArtifactInv

LEMMA NextOK == ArtifactInv /\ [Next]_vars => ArtifactInv'
<1> SUFFICES ASSUME ArtifactInv, [Next]_vars PROVE ArtifactInv'
    OBVIOUS
<1>1. CASE UNCHANGED vars
    BY <1>1, StutterOK
<1>2. CASE Crash
    BY <1>2, CrashOK
<1>3. CASE UnitNext
  <2> SUFFICES ASSUME NEW u \in Units,
                      \/ \E P \in Guarded \cup Unguarded, B \in SUBSET {u} :
                          \E R \in SUBSET (P \cap (Files \cup Directories)) : Begin(u, P, R, B)
                      \/ \E p \in Paths : \/ SetAside(u, p) \/ Place(u, p) \/ Remove(u, p)
                                          \/ Tear(u, p) \/ Commit(u, p)
                                          \/ Discard(u, p) \/ Undo(u, p)
                      \/ PromoteFails(u) \/ Record(u) \/ RecordFails(u) \/ CommitFails(u) \/ Finish(u)
               PROVE  ArtifactInv'
    BY <1>3 DEF UnitNext
  <2>1. CASE \E P \in Guarded \cup Unguarded, B \in SUBSET {u} :
                 \E R \in SUBSET (P \cap (Files \cup Directories)) : Begin(u, P, R, B)
    BY <2>1, BeginOK
  <2>2. CASE \E p \in Paths : \/ SetAside(u, p) \/ Place(u, p) \/ Remove(u, p)
                             \/ Tear(u, p) \/ Commit(u, p) \/ Discard(u, p) \/ Undo(u, p)
    BY <2>2, SetAsideOK, PlaceOK, RemoveOK, TearOK, CommitOK, DiscardOK, UndoOK
  <2>3. CASE PromoteFails(u) \/ Record(u) \/ RecordFails(u) \/ CommitFails(u) \/ Finish(u)
    BY <2>3, PromoteFailsOK, RecordOK, RecordFailsOK, CommitFailsOK, FinishOK
  <2> QED
    BY <2>1, <2>2, <2>3
<1>4. CASE StartupNext
    BY <1>4, StartupOK, ServeOK, RemoveOrphanOK, DropBackupOK, ClearFinalOK, RestoreBackupOK DEF StartupNext
<1> QED
    BY <1>1, <1>2, <1>3, <1>4 DEF Next

(* The invariant of the artifacts: types, where each unit stands, what is in  *)
(* place, what is aside, and what a path returns to.                          *)
THEOREM ArtifactInvariant == Spec => []ArtifactInv
<1>1. Init => ArtifactInv
    BY InitOK
<1>2. ArtifactInv /\ [Next]_vars => ArtifactInv'
    BY NextOK
<1> QED
    BY <1>1, <1>2, PTL DEF Spec

(* At rest nothing is aside from a path that is no handoff and that no unit   *)
(* abandoned.                                                                 *)
LEMMA NothingAside ==
    ASSUME ArtifactInv, NEW p \in Paths \ Handoffs, AtRest(p), ~Abandoned(p)
    PROVE  Unpaired(p)
  BY DEF ArtifactInv, BackupOK, Abandoned, AtRest, Held, Unpaired

(* What a unit recorded before it returned stays at its path: every failure,  *)
(* crash and recovery of another unit puts it back.                           *)
THEOREM ReportedIsKeptHolds == Spec => []ReportedIsKept
<1>1. ArtifactInv => ReportedIsKept
  <2> SUFFICES ASSUME ArtifactInv, NEW p \in Paths \ Handoffs, AtRest(p), Returned(p), ~Abandoned(p)
               PROVE  IF row[p] # Absent THEN disk[p] = row[p]
                      ELSE disk[p] = Absent \/ (disk[p] \in Units /\ phase[disk[p]] = "crashed")
    BY DEF ReportedIsKept
  <2>1. Standing(disk[p], p)
    BY NothingAside DEF ArtifactInv, KeptOK, Unpaired
  <2>2. ASSUME disk[p] \in Units, Unrecorded(disk[p]) PROVE FALSE
    <3>1. p \in items[disk[p]] /\ Live(disk[p])
      BY <2>2 DEF ArtifactInv, TraceOK, Unrecorded, Live
    <3> QED
      BY <2>2, <3>1 DEF AtRest, Held
  <2> QED
    BY <2>1, <2>2 DEF Standing
<1> QED
    BY <1>1, ArtifactInvariant, PTL

(* At rest a registered plugin is the one registered, and a handoff directory *)
(* is there exactly when a task names it.                                     *)
THEOREM DatabaseDecidesHolds == Spec => []DatabaseDecides
<1>1. ASSUME ArtifactInv, NEW p \in Plugins, AtRest(p), Named(p), phase[author[p]] # "broken"
      PROVE  disk[p] = row[p]
  <2>1. p \in Paths \ Handoffs
    BY ArtifactAssumption DEF Paths
  <2>2. author[p] \in Units /\ p \in items[author[p]]
    BY <1>1, <2>1 DEF ArtifactInv, TypeOK, TraceOK, Named
  <2>3. phase[author[p]] # "breaking"
    BY <1>1, <2>2 DEF AtRest, Held, Live
  <2>4. row[p] \in Units /\ (disk[p] = row[p] \/ \E u \in Units : backup[u][p] = row[p])
    BY <1>1, <2>3 DEF ArtifactInv, PluginOK
  <2> QED
    <3>1. ~Abandoned(p)
      BY <1>1 DEF ArtifactInv, UnitOK, Abandoned
    <3> QED
      BY <1>1, <2>1, <2>4, <3>1, NothingAside, ArtifactAssumption DEF Unpaired
<1>2. ASSUME ArtifactInv, NEW p \in Handoffs, AtRest(p)
      PROVE  disk[p] # Absent <=> Named(p)
  <2>1. ASSUME NEW u \in Units, backup[u][p] # Absent PROVE ~Live(u)
    BY <1>2, <2>1 DEF ArtifactInv, BackupOK, AtRest, Held, Paths
  <2> QED
    BY <1>2, <2>1 DEF ArtifactInv, HandoffOK, AtRest
<1>3. ArtifactInv => DatabaseDecides
    BY <1>1, <1>2 DEF DatabaseDecides
<1> QED
    BY <1>3, ArtifactInvariant, PTL

(* A unit whose failure was reported left nothing behind.                     *)
THEOREM FailureLeavesNoTraceHolds == Spec => []FailureLeavesNoTrace
<1>1. ArtifactInv => FailureLeavesNoTrace
    BY DEF ArtifactInv, FailureLeavesNoTrace, UnitOK, BackupOK, TraceOK, Live
<1> QED
    BY <1>1, ArtifactInvariant, PTL
(* What is found at a path does not change when nothing there is touched.     *)
LEMMA FoundSame ==
    ASSUME NEW q, disk'[q] = disk[q], \A w \in Units : backup'[w][q] = backup[w][q]
    PROVE  Found(q)' = Found(q)
  BY DEF Found, Aside

(* With nothing aside but what one unit may have set aside, one content is    *)
(* found, now and after a step.                                               *)
LEMMA FoundOne ==
    ASSUME NEW u \in Units, NEW q, \A w \in Units \ {u} : backup[w][q] = Absent
    PROVE  Found(q) = {IF backup[u][q] # Absent THEN backup[u][q] ELSE disk[q]}
<1>1. CASE backup[u][q] # Absent
  <2>1. Aside(q) = {backup[u][q]}
    BY <1>1 DEF Aside
  <2> QED
    BY <1>1, <2>1 DEF Found
<1>2. CASE ~(backup[u][q] # Absent)
  <2>1. Aside(q) = {}
    BY <1>2 DEF Aside
  <2> QED
    BY <1>2, <2>1 DEF Found
<1> QED
  BY <1>1, <1>2

LEMMA FoundOneNext ==
    ASSUME NEW u \in Units, NEW q, \A w \in Units \ {u} : backup'[w][q] = Absent
    PROVE  Found(q)' = {IF backup'[u][q] # Absent THEN backup'[u][q] ELSE disk'[q]}
<1>1. CASE backup'[u][q] # Absent
  <2>1. Aside(q)' = {backup'[u][q]}
    BY <1>1 DEF Aside
  <2> QED
    BY <1>1, <2>1 DEF Found
<1>2. CASE ~(backup'[u][q] # Absent)
  <2>1. Aside(q)' = {}
    BY <1>2 DEF Aside
  <2> QED
    BY <1>2, <2>1 DEF Found
<1> QED
  BY <1>1, <1>2

(* A step of a unit on a path p: it leaves the other paths alone, and what    *)
(* other units have aside; at p one content is found before and after it.     *)
LEMMA FoundAt ==
    ASSUME ArtifactInv, NEW u \in Units, Live(u), NEW p \in items[u] \ Handoffs, p \in Paths, ~Abandoned(p),
           \A w \in Units \ {u} : backup'[w][p] = backup[w][p]
    PROVE  /\ Found(p) = {IF backup[u][p] # Absent THEN backup[u][p] ELSE disk[p]}
           /\ Found(p)' = {IF backup'[u][p] # Absent THEN backup'[u][p] ELSE disk'[p]}
<1>1. \A w \in Units \ {u} : backup[w][p] = Absent
  BY Alone DEF ArtifactInv
<1> QED
  BY <1>1, FoundOne, FoundOneNext

(* What is set aside is what was in place.                                    *)
LEMMA SetAsideKeeps ==
    ASSUME ArtifactInv, NEW u \in Units, NEW p \in Paths, SetAside(u, p),
           NEW q \in Paths \ Handoffs, ~Abandoned(q)
    PROVE  FoundKept(q)
<1>0. /\ \A w \in Units, x \in Paths : backup'[w][x] = IF w = u /\ x = p THEN disk[p] ELSE backup[w][x]
      /\ \A x \in Paths : disk'[x] = IF x = p THEN Absent ELSE disk[x]
      /\ disk[p] # Absent /\ Live(u) /\ p \in items[u] \ placed[u] /\ busy[u] = {}
  BY DEF SetAside, Still, ArtifactInv, TypeOK, Live
<1>1. CASE q # p
  BY <1>0, <1>1, FoundSame DEF FoundKept
<1>2. CASE q = p
  <2>1. backup[u][p] = Absent
    BY <1>0, <1>2, Alone DEF ArtifactInv
  <2>2. Found(p) = {disk[p]} /\ Found(p)' = {disk[p]}
    BY <1>0, <1>2, <2>1, FoundAt
  <2> QED
    BY <1>2, <2>2 DEF FoundKept
<1> QED
  BY <1>1, <1>2

(* New content shows at once only where nothing was recorded.                 *)
LEMMA PlaceKeeps ==
    ASSUME ArtifactInv, SoundOK, NEW u \in Units, NEW p \in Paths, Place(u, p),
           NEW q \in Paths \ Handoffs, ~Abandoned(q), ~Undone(q)
    PROVE  FoundKept(q)
<1>0. /\ \A w \in Units, x \in Paths : backup'[w][x] = backup[w][x]
      /\ \A x \in Paths : disk'[x] = IF x = p THEN u ELSE disk[x]
      /\ disk[p] = Absent /\ phase[u] = "promoting" /\ Live(u) /\ p \in items[u]
  BY DEF Place, Still, ArtifactInv, TypeOK, Live
<1>1. CASE q # p
  BY <1>0, <1>1, FoundSame DEF FoundKept
<1>2. CASE q = p
  <2>1. /\ Found(p) = {IF backup[u][p] # Absent THEN backup[u][p] ELSE Absent}
        /\ Found(p)' = {IF backup[u][p] # Absent THEN backup[u][p] ELSE u}
    BY <1>0, <1>2, FoundAt
  <2>2. CASE backup[u][p] # Absent
    <3>1. Found(p)' = Found(p)
      BY <2>1, <2>2
    <3> QED
      BY <1>2, <3>1 DEF FoundKept
  <2>3. CASE ~(backup[u][p] # Absent)
    <3>1. Found(p) = {Absent} /\ Found(p)' = {u}
      BY <2>1, <2>3
    <3>2. row[p] = Absent
      BY <1>2, <3>1 DEF SoundOK
    <3> QED
      BY <1>0, <1>2, <3>1, <3>2 DEF FoundKept, FirstContent
  <2> QED
    BY <2>2, <2>3
<1> QED
  BY <1>1, <1>2

(* A removal sets aside what was in place, if anything was.                   *)
LEMMA RemoveKeeps ==
    ASSUME ArtifactInv, NEW u \in Units, NEW p \in Paths, Remove(u, p),
           NEW q \in Paths \ Handoffs, ~Abandoned(q)
    PROVE  FoundKept(q)
<1>0. /\ \A w \in Units, x \in Paths : backup'[w][x] = IF w = u /\ x = p THEN disk[p] ELSE backup[w][x]
      /\ \A x \in Paths : disk'[x] = IF x = p THEN Absent ELSE disk[x]
      /\ Live(u) /\ p \in items[u] \ placed[u] /\ busy[u] = {}
  BY DEF Remove, Still, ArtifactInv, TypeOK, Live
<1>1. CASE q # p
  BY <1>0, <1>1, FoundSame DEF FoundKept
<1>2. CASE q = p
  <2>1. backup[u][p] = Absent
    BY <1>0, <1>2, Alone DEF ArtifactInv
  <2>2. Found(p) = {disk[p]} /\ Found(p)' = {disk[p]}
    BY <1>0, <1>2, <2>1, FoundAt
  <2> QED
    BY <1>2, <2>2 DEF FoundKept
<1> QED
  BY <1>1, <1>2

(* The only step that cuts what stands: the unit has recorded, and the        *)
(* directory it set aside is being deleted.                                   *)
LEMMA TearKeeps ==
    ASSUME ArtifactInv, NEW u \in Units, NEW p \in Paths, Tear(u, p),
           NEW q \in Paths \ Handoffs, ~Abandoned(q)
    PROVE  FoundKept(q)
<1>0. /\ \A w \in Units, x \in Paths : backup'[w][x] = IF w = u /\ x = p THEN Torn ELSE backup[w][x]
      /\ disk' = disk /\ p \notin Files
      /\ phase[u] = "committing" /\ Live(u) /\ p \in items[u]
  BY DEF Tear, ArtifactInv, TypeOK, Live
<1>1. CASE q # p
  BY <1>0, <1>1, FoundSame DEF FoundKept
<1>2. CASE q = p
  <2>1. Found(p)' = {Torn}
    BY <1>0, <1>2, FoundAt, ArtifactAssumption
  <2>2. phase[author[p]] = "committing"
    BY <1>0 DEF ArtifactInv, ItemsOK
  <2> QED
    BY <1>0, <1>2, <2>1, <2>2 DEF FoundKept, Cut
<1> QED
  BY <1>1, <1>2

(* With the backup gone, what was recorded stands.                            *)
LEMMA CommitKeeps ==
    ASSUME ArtifactInv, NEW u \in Units, NEW p \in Paths, Commit(u, p),
           NEW q \in Paths \ Handoffs, ~Abandoned(q)
    PROVE  FoundKept(q)
<1>0. /\ \A w \in Units, x \in Paths : backup'[w][x] = IF w = u /\ x = p THEN Absent ELSE backup[w][x]
      /\ disk' = disk /\ row' = row
      /\ phase[u] = "committing" /\ Live(u) /\ p \in items[u]
  BY DEF Commit, ArtifactInv, TypeOK, Live, dbVars
<1>1. CASE q # p
  BY <1>0, <1>1, FoundSame DEF FoundKept
<1>2. CASE q = p
  <2>1. Found(p)' = {disk[p]}
    BY <1>0, <1>2, FoundAt
  <2>2. disk[p] = row[p]
    BY <1>0 DEF ArtifactInv, ItemsOK, UnitOK
  <2> QED
    BY <1>0, <1>2, <2>1, <2>2 DEF FoundKept, CaughtUp
<1> QED
  BY <1>1, <1>2

(* A unit that undoes before it recorded deletes its own content, which was   *)
(* all there was only where nothing is recorded.                              *)
LEMMA DiscardKeeps ==
    ASSUME ArtifactInv, SoundOK, NEW u \in Units, NEW p \in Paths, Discard(u, p),
           NEW q \in Paths \ Handoffs, ~Abandoned(q), ~Undone(q)
    PROVE  FoundKept(q)
<1>0. /\ \A w \in Units, x \in Paths : backup'[w][x] = backup[w][x]
      /\ \A x \in Paths : disk'[x] = IF x = p THEN Absent ELSE disk[x]
      /\ row' = row /\ phase[u] \in {"rolling", "breaking"} /\ Live(u)
      /\ p \in items[u] \ settled[u] /\ p \in placed[u] \ removes[u] /\ busy[u] = {}
  BY DEF Discard, Rolling, Replaced, ArtifactInv, TypeOK, Live, dbVars
<1>1. CASE q # p
  BY <1>0, <1>1, FoundSame DEF FoundKept
<1>2. CASE q = p
  <2>1. /\ Found(p) = {IF backup[u][p] # Absent THEN backup[u][p] ELSE disk[p]}
        /\ Found(p)' = {IF backup[u][p] # Absent THEN backup[u][p] ELSE Absent}
    BY <1>0, <1>2, FoundAt
  <2>2. CASE backup[u][p] # Absent
    <3>1. Found(p)' = Found(p)
      BY <2>1, <2>2
    <3> QED
      BY <1>2, <3>1 DEF FoundKept
  <2>3. CASE ~(backup[u][p] # Absent)
    <3>1. phase[u] # "breaking"
      BY <1>0, <1>2, ArtifactAssumption DEF ArtifactInv, ItemsOK, Undone
    <3>2. disk[p] = u /\ Unrecorded(u)
      BY <1>0, <3>1 DEF ArtifactInv, ItemsOK, Unrecorded
    <3>3. Found(p) = {u} /\ Found(p)' = {Absent}
      BY <2>1, <2>3, <3>2
    <3>4. row[p] = Absent
      BY <1>2, <3>2, <3>3 DEF SoundOK
    <3> QED
      BY <1>0, <1>2, <3>3, <3>4 DEF FoundKept, CaughtUp
  <2> QED
    BY <2>2, <2>3
<1> QED
  BY <1>1, <1>2

(* What comes back is what stood.                                             *)
LEMMA UndoKeeps ==
    ASSUME ArtifactInv, NEW u \in Units, NEW p \in Paths, Undo(u, p),
           NEW q \in Paths \ Handoffs, ~Abandoned(q)
    PROVE  FoundKept(q)
<1>0. /\ \A w \in Units, x \in Paths :
             backup'[w][x] = IF w = u /\ x = p /\ HasBackup(u, p) THEN Absent ELSE backup[w][x]
      /\ \A x \in Paths : disk'[x] = IF x = p /\ HasBackup(u, p) THEN backup[u][p] ELSE disk[x]
      /\ Live(u) /\ p \in items[u]
  BY DEF Undo, Rolling, ArtifactInv, TypeOK, Live
<1>1. CASE q # p \/ ~HasBackup(u, p)
  BY <1>0, <1>1, FoundSame DEF FoundKept
<1>2. CASE q = p /\ HasBackup(u, p)
  <2>1. Found(p) = {backup[u][p]} /\ Found(p)' = {backup[u][p]}
    BY <1>0, <1>2, FoundAt DEF HasBackup
  <2> QED
    BY <1>2, <2>1 DEF FoundKept
<1> QED
  BY <1>1, <1>2

(* What a failed promotion set aside comes back.                              *)
LEMMA PromoteFailsKeeps ==
    ASSUME ArtifactInv, NEW u \in Units, PromoteFails(u),
           NEW q \in Paths \ Handoffs, ~Abandoned(q)
    PROVE  FoundKept(q)
<1>0. /\ \A w \in Units, x \in Paths :
             backup'[w][x] = IF w = u /\ x \in busy[u] THEN Absent ELSE backup[w][x]
      /\ \A x \in Paths : disk'[x] = IF x \in busy[u] THEN backup[u][x] ELSE disk[x]
      /\ phase[u] = "promoting" /\ Live(u) /\ busy[u] \subseteq items[u]
  BY DEF PromoteFails, ArtifactInv, TypeOK, UnitOK, Live
<1>1. CASE q \notin busy[u]
  BY <1>0, <1>1, FoundSame DEF FoundKept
<1>2. CASE ~(q \notin busy[u])
  <2>1. backup[u][q] = Absent => disk[q] = Absent
    BY <1>0, <1>2 DEF ArtifactInv, ItemsOK, UnitOK, Unrecorded
  <2>2. Found(q) = {backup[u][q]} /\ Found(q)' = {backup[u][q]}
    BY <1>0, <1>2, <2>1, FoundAt
  <2> QED
    BY <2>2 DEF FoundKept
<1> QED
  BY <1>1, <1>2

(* Startup: one backup at a path that no unit abandoned.                      *)
LEMMA FoundAtStartup ==
    ASSUME ArtifactInv, NEW u \in Units, NEW p \in Paths \ Handoffs, backup[u][p] # Absent, ~Abandoned(p),
           \A w \in Units \ {u} : backup'[w][p] = backup[w][p]
    PROVE  /\ Found(p) = {backup[u][p]}
           /\ Found(p)' = {IF backup'[u][p] # Absent THEN backup'[u][p] ELSE disk'[p]}
<1>1. \A w \in Units \ {u} : backup[w][p] = Absent
  BY DEF ArtifactInv, BackupOK
<1> QED
  BY <1>1, FoundOne, FoundOneNext

(* A backup is dropped for the plugin that is registered.                     *)
LEMMA DropBackupKeeps ==
    ASSUME ArtifactInv, NEW u \in Units, NEW p \in Paths, DropBackup(u, p),
           NEW q \in Paths \ Handoffs, ~Abandoned(q)
    PROVE  FoundKept(q)
<1>0. /\ \A w \in Units, x \in Paths : backup'[w][x] = IF w = u /\ x = p THEN Absent ELSE backup[w][x]
      /\ disk' = disk /\ row' = row /\ backup[u][p] # Absent /\ Confirmed(p)
  BY DEF DropBackup, ArtifactInv, TypeOK, dbVars
<1>1. CASE q # p
  BY <1>0, <1>1, FoundSame DEF FoundKept
<1>2. CASE q = p
  <2>1. Found(p)' = {disk[p]} /\ disk[p] = row[p]
    BY <1>0, <1>2, FoundAtStartup DEF Confirmed
  <2> QED
    BY <1>0, <1>2, <2>1 DEF FoundKept, CaughtUp
<1> QED
  BY <1>1, <1>2

(* What is cleared had a backup, which stands.                                *)
LEMMA ClearFinalKeeps ==
    ASSUME ArtifactInv, NEW u \in Units, NEW p \in Paths, ClearFinal(u, p),
           NEW q \in Paths \ Handoffs, ~Abandoned(q)
    PROVE  FoundKept(q)
<1>0. /\ backup' = backup /\ backup[u][p] # Absent
      /\ \A x \in Paths : disk'[x] = IF x = p THEN Absent ELSE disk[x]
  BY DEF ClearFinal, ArtifactInv, TypeOK
<1>1. CASE q # p
  BY <1>0, <1>1, FoundSame DEF FoundKept
<1>2. CASE q = p
  <2>1. Found(p) = {backup[u][p]} /\ Found(p)' = {backup[u][p]}
    BY <1>0, <1>2, FoundAtStartup
  <2> QED
    BY <1>2, <2>1 DEF FoundKept
<1> QED
  BY <1>1, <1>2

(* And comes back.                                                            *)
LEMMA RestoreBackupKeeps ==
    ASSUME ArtifactInv, NEW u \in Units, NEW p \in Paths, RestoreBackup(u, p),
           NEW q \in Paths \ Handoffs, ~Abandoned(q)
    PROVE  FoundKept(q)
<1>0. /\ \A w \in Units, x \in Paths : backup'[w][x] = IF w = u /\ x = p THEN Absent ELSE backup[w][x]
      /\ \A x \in Paths : disk'[x] = IF x = p THEN backup[u][p] ELSE disk[x]
      /\ backup[u][p] # Absent
  BY DEF RestoreBackup, ArtifactInv, TypeOK
<1>1. CASE q # p
  BY <1>0, <1>1, FoundSame DEF FoundKept
<1>2. CASE q = p
  <2>1. Found(p) = {backup[u][p]} /\ Found(p)' = {backup[u][p]}
    BY <1>0, <1>2, FoundAtStartup
  <2> QED
    BY <1>2, <2>1 DEF FoundKept
<1> QED
  BY <1>1, <1>2

(* The steps that touch no content: what is found stays.                      *)
LEMMA OthersKeep ==
    ASSUME ArtifactInv, NEW q \in Paths \ Handoffs,
           \/ UNCHANGED vars \/ Crash \/ Startup \/ Serve
           \/ \E p \in Paths : RemoveOrphan(p)
           \/ \E u \in Units : \/ Record(u) \/ RecordFails(u) \/ CommitFails(u) \/ Finish(u)
                               \/ \E P \in Guarded \cup Unguarded, B \in SUBSET {u} :
                                   \E R \in SUBSET (P \cap (Files \cup Directories)) : Begin(u, P, R, B)
    PROVE  FoundKept(q)
<1>1. backup' = backup /\ disk'[q] = disk[q]
  BY DEF ArtifactInv, TypeOK, Crash, Startup, Serve, RemoveOrphan, Record, RecordFails, CommitFails, Finish,
         Begin, vars, fileVars
<1> QED
  BY <1>1, FoundSame DEF FoundKept

(* What a step does to where a unit stands: a unit that was abandoned or that *)
(* undid what was recorded stays so, only an idle unit becomes one that has   *)
(* yet to record, and only Record changes what is recorded.                   *)
Forward ==
    /\ \A u \in Units : phase[u] = "left" => phase'[u] = "left" /\ items'[u] = items[u]
    /\ \A u \in Units : phase[u] \in {"breaking", "broken"} => phase'[u] \in {"breaking", "broken"}
    /\ \A u \in Units : Unrecorded(u)' => Unrecorded(u) \/ phase[u] = "idle"
    /\ UNCHANGED dbVars \/ \E u \in Units : Record(u)

LEMMA StepForward ==
    ASSUME ArtifactInv, [Next]_vars
    PROVE  Forward
<1>0. TypeOK
  BY DEF ArtifactInv
<1>1. CASE UNCHANGED vars
  BY <1>1 DEF vars, unitVars, dbVars, Forward, Unrecorded
<1>2. CASE Crash
  BY <1>0, <1>2 DEF Crash, TypeOK, Forward, Unrecorded, Live, dbVars
<1>3. CASE StartupNext
  BY <1>3 DEF StartupNext, Startup, Serve, RemoveOrphan, DropBackup, ClearFinal, RestoreBackup,
              unitVars, dbVars, Forward, Unrecorded
<1>4. CASE UnitNext
  <2> PICK u \in Units :
        \/ \E P \in Guarded \cup Unguarded, B \in SUBSET {u} :
            \E R \in SUBSET (P \cap (Files \cup Directories)) : Begin(u, P, R, B)
        \/ \E p \in Paths : \/ SetAside(u, p) \/ Place(u, p) \/ Remove(u, p)
                            \/ Tear(u, p) \/ Commit(u, p)
                            \/ Discard(u, p) \/ Undo(u, p)
        \/ PromoteFails(u) \/ Record(u) \/ RecordFails(u) \/ CommitFails(u) \/ Finish(u)
    BY <1>4 DEF UnitNext
  <2>1. CASE \E P \in Guarded \cup Unguarded, B \in SUBSET {u} :
                 \E R \in SUBSET (P \cap (Files \cup Directories)) : Begin(u, P, R, B)
    BY <1>0, <2>1 DEF Begin, TypeOK, Forward, Unrecorded, dbVars
  <2>2. CASE \E p \in Paths : \/ SetAside(u, p) \/ Place(u, p) \/ Remove(u, p)
                             \/ Tear(u, p) \/ Commit(u, p) \/ Discard(u, p) \/ Undo(u, p)
    BY <2>2 DEF SetAside, Place, Remove, Tear, Commit, Discard, Undo, dbVars, Forward, Unrecorded
  <2>3. CASE PromoteFails(u)
    BY <1>0, <2>3 DEF PromoteFails, AfterError, TypeOK, Forward, Unrecorded, dbVars
  <2>4. CASE Record(u)
    BY <1>0, <2>4 DEF Record, TypeOK, Forward, Unrecorded
  <2>5. CASE RecordFails(u)
    BY <1>0, <2>5 DEF RecordFails, TypeOK, Forward, Unrecorded, dbVars
  <2>6. CASE CommitFails(u)
    BY <1>0, <2>6 DEF CommitFails, AfterError, TypeOK, Forward, Unrecorded, dbVars
  <2>7. CASE Finish(u)
    BY <1>0, <2>7 DEF Finish, Outcome, TypeOK, Forward, Unrecorded, dbVars
  <2> QED
    BY <2>1, <2>2, <2>3, <2>4, <2>5, <2>6, <2>7
<1> QED
  BY <1>1, <1>2, <1>3, <1>4 DEF Next

(* A path that no unit abandoned by now was never abandoned before; one that  *)
(* was undone stays so until something is recorded.                           *)
LEMMA ExemptionsStay ==
    ASSUME ArtifactInv, [Next]_vars, NEW q \in Paths
    PROVE  /\ Abandoned(q) => Abandoned(q)'
           /\ Undone(q) => Undone(q)' \/ \E u \in Units : Record(u)
<1>1. Forward
  BY StepForward
<1>2. author[q] # Original => author[q] \in Units
  BY DEF ArtifactInv, TypeOK
<1> QED
  BY <1>1, <1>2 DEF Forward, Abandoned, Undone, dbVars

(* Every step: what stands at a path stays, or gives way to what is recorded. *)
LEMMA FoundStep ==
    ASSUME ArtifactInv, SoundOK, [Next]_vars, NEW q \in Paths \ Handoffs, ~Abandoned(q)', ~Undone(q)'
    PROVE  FoundKept(q)
<1>1. ~Abandoned(q)
  BY ExemptionsStay
<1>2. CASE \E u \in Units : Record(u)
  BY <1>2, OthersKeep
<1>3. CASE ~\E u \in Units : Record(u)
  <2>1. ~Undone(q)
    BY <1>3, ExemptionsStay
  <2>2. CASE UnitNext
    <3> PICK u \in Units :
          \/ \E P \in Guarded \cup Unguarded, B \in SUBSET {u} :
              \E R \in SUBSET (P \cap (Files \cup Directories)) : Begin(u, P, R, B)
          \/ \E p \in Paths : \/ SetAside(u, p) \/ Place(u, p) \/ Remove(u, p)
                              \/ Tear(u, p) \/ Commit(u, p)
                              \/ Discard(u, p) \/ Undo(u, p)
          \/ PromoteFails(u) \/ Record(u) \/ RecordFails(u) \/ CommitFails(u) \/ Finish(u)
      BY <2>2 DEF UnitNext
    <3>1. CASE \E p \in Paths : \/ SetAside(u, p) \/ Place(u, p) \/ Remove(u, p)
                               \/ Tear(u, p) \/ Commit(u, p) \/ Discard(u, p) \/ Undo(u, p)
      BY <1>1, <2>1, <3>1, SetAsideKeeps, PlaceKeeps, RemoveKeeps, TearKeeps, CommitKeeps, DiscardKeeps, UndoKeeps
    <3>2. CASE PromoteFails(u)
      BY <1>1, <3>2, PromoteFailsKeeps
    <3> QED
      BY <3>1, <3>2, OthersKeep
  <2>3. CASE StartupNext
    BY <1>1, <2>3, DropBackupKeeps, ClearFinalKeeps, RestoreBackupKeeps, OthersKeep DEF StartupNext
  <2> QED
    BY <2>2, <2>3, OthersKeep DEF Next
<1> QED
  BY <1>2, <1>3

(* SoundOK survives: aside is never what a unit has yet to record, and in     *)
(* place is something else only where nothing is recorded.                    *)
LEMMA SoundStep ==
    ASSUME ArtifactInv, ArtifactInv', SoundOK, [Next]_vars
    PROVE  SoundOK'
<1> SUFFICES ASSUME NEW q \in Paths \ Handoffs, ~Abandoned(q)', ~Undone(q)', row'[q] # Absent, NEW c \in Found(q)'
             PROVE  c # Absent /\ (c \in Units => ~Unrecorded(c)')
  BY DEF SoundOK
<1>1. FoundKept(q) /\ ~Abandoned(q) /\ Forward
  BY FoundStep, ExemptionsStay, StepForward
<1>2. CASE c \in Aside(q)'
  BY <1>2 DEF Aside, ArtifactInv, TraceOK
<1>3. CASE c \notin Aside(q)'
  <2>0. c = disk'[q] /\ Found(q)' = {c} /\ Aside(q)' = {}
    BY <1>3 DEF Found
  <2>1. CASE \E u \in Units : Record(u)
    <3>1. PICK u \in Units : Record(u)
      BY <2>1
    <3>2. /\ disk' = disk /\ backup' = backup /\ phase[u] = "promoting" /\ phase'[u] = "committing"
          /\ \A w \in Units \ {u} : phase'[w] = phase[w]
          /\ row'[q] = IF q \in removes[u] THEN Absent ELSE IF q \in items[u] THEN u ELSE row[q]
          /\ author'[q] = IF q \in items[u] THEN u ELSE author[q]
          /\ placed[u] = items[u]
      BY <3>1 DEF Record, ArtifactInv, TypeOK, fileVars
    <3>3. Found(q) = {c}
      BY <2>0, <3>2, FoundSame
    <3>4. CASE q \in items[u]
      <4>1. disk[q] = u
        BY <3>2, <3>4 DEF ArtifactInv, ItemsOK, UnitOK, Unrecorded
      <4> QED
        BY <2>0, <3>2, <4>1, ArtifactAssumption DEF Unrecorded
    <3>5. CASE q \notin items[u]
      <4>1. row'[q] = row[q] /\ author'[q] = author[q]
        BY <3>2, <3>5 DEF ArtifactInv, UnitOK
      <4>2. ~Undone(q)
        BY <1>1, <4>1 DEF Undone, Forward, ArtifactInv, TypeOK
      <4>3. c # Absent /\ (c \in Units => ~Unrecorded(c))
        BY <1>1, <3>3, <4>1, <4>2 DEF SoundOK
      <4> QED
        BY <3>2, <4>3 DEF Unrecorded
    <3> QED
      BY <3>4, <3>5
  <2>2. CASE ~\E u \in Units : Record(u)
    <3>1. row' = row /\ ~Undone(q)
      BY <1>1, <2>2, ExemptionsStay DEF Forward, dbVars
    <3>2. \A d \in Found(q) : d # Absent /\ (d \in Units => ~Unrecorded(d))
      BY <1>1, <3>1 DEF SoundOK
    <3>3. CASE Found(q)' = Found(q)
      <4>1. c \in Found(q)
        BY <2>0, <3>3
      <4>2. c \in Units => q \in items[c]
        BY <4>1 DEF Found, Aside, ArtifactInv, TraceOK
      <4>3. c \in Units => phase[c] # "idle"
        BY <4>2 DEF ArtifactInv, UnitOK
      <4> QED
        BY <1>1, <3>2, <4>1, <4>3 DEF Forward
    <3>4. CASE CaughtUp(q)
      <4>1. c = row'[q]
        BY <2>0, <3>4 DEF CaughtUp
      <4> QED
        BY <4>1 DEF ArtifactInv, TraceOK
    <3>5. CASE Cut(q)
      BY <2>0, <3>5, ArtifactAssumption DEF Cut
    <3>6. CASE FirstContent(q)
      BY <3>1, <3>6 DEF FirstContent
    <3> QED
      BY <1>1, <3>3, <3>4, <3>5, <3>6 DEF FoundKept
  <2> QED
    BY <2>1, <2>2
<1> QED
  BY <1>2, <1>3

(* What stands at a path gives way to what the database records, at once or   *)
(* never: no interleaving of failures, crashes and recoveries leaves anything *)
(* else to be found there.                                                    *)
THEOREM OldOrRecordedHolds == Spec => OldOrRecorded
<1>1. Init => SoundOK
  <2> SUFFICES ASSUME Init, NEW p \in Paths \ Handoffs, row[p] # Absent, NEW c \in Found(p)
               PROVE  c # Absent /\ (c \in Units => ~Unrecorded(c))
    BY DEF SoundOK
  <2>1. Found(p) = {row[p]}
    BY DEF Init, Found, Aside
  <2> QED
    BY <2>1 DEF Init, Unrecorded
<1>2. ArtifactInv /\ ArtifactInv' /\ SoundOK /\ [Next]_vars => SoundOK'
  BY SoundStep
<1>3. ArtifactInv /\ SoundOK /\ [Next]_vars => AllFoundKept
  BY FoundStep DEF AllFoundKept
<1> QED
  BY <1>1, <1>2, <1>3, ArtifactInvariant, PTL DEF Spec, OldOrRecorded
=============================================================================
