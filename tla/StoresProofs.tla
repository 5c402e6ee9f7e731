----------------------------- MODULE StoresProofs -----------------------------
(***************************************************************************)
(* What Stores promises of the stores after a discovery, for every value   *)
(* of its constants.                                                       *)
(***************************************************************************)
EXTENDS Stores, FiniteSetTheorems, TLAPS

-----------------------------------------------------------------------------
(* The layouts of plates. *)

Layouts == {"four", "generic", "right", "remote"}
PlateEntry == [layout : Layouts, named : BOOLEAN]

\* A button store: entries for some of the plates.
IsStore(S) == DOMAIN S \subseteq Plates /\ S \in [DOMAIN S -> PlateEntry]

\* The records of R read from a module's table, and those that name plate p.
OfTables(R) == {r \in R : r.source = "table"}
Naming(R, p) == {r \in R : r.plate = p /\ r.source = "table"}

\* Records that name a two-button plate agree on its pair.
Agree(R) ==
    \A r, s \in OfTables(R) :
        r.plate = s.plate /\ Class[r.plate] = "two" => PairOf(r.key) = PairOf(s.key)
KeysTyped(R) == \A r \in OfTables(R) : r.key \in 0..3

\* The layouts a plate of each class may have.
LayoutsOf(p) ==
    CASE Class[p] = "two"  -> {"generic", "right"}
      [] Class[p] = "code" -> {"remote"}
      [] OTHER             -> {"four"}
Fitting(S) == \A p \in DOMAIN S : S[p].layout \in LayoutsOf(p)

\* Settling touches nothing but the layout of a two-button plate.
LEMMA SettleStore ==
    ASSUME NEW S, IsStore(S), NEW R
    PROVE  /\ IsStore(Settle(S, R)) /\ DOMAIN Settle(S, R) = DOMAIN S
           /\ \A p \in DOMAIN S :
                /\ Settle(S, R)[p].named = S[p].named
                /\ S[p].layout \notin {"generic", "right"} => Settle(S, R)[p] = S[p]
                /\ S[p].layout \in {"generic", "right"}
                     => Settle(S, R)[p].layout \in {"generic", "right"}
                /\ Naming(R, p) = {} => Settle(S, R)[p] = S[p]
<1> DEFINE Seen(p) == {r.key : r \in {x \in R : x.plate = p /\ x.source = "table"}}
           Of(p) == IF S[p].layout \notin {"generic", "right"} \/ Seen(p) = {} THEN S[p]
                    ELSE CASE Seen(p) \subseteq {0, 2} -> [S[p] EXCEPT !.layout = "right"]
                           [] Seen(p) \subseteq {1, 3} -> [S[p] EXCEPT !.layout = "generic"]
                           [] OTHER                    -> S[p]
<1>1. Settle(S, R) = [p \in DOMAIN S |-> Of(p)]
  BY DEF Settle
<1>2. ASSUME NEW p \in DOMAIN S
      PROVE  /\ Of(p) \in PlateEntry /\ Of(p).named = S[p].named
             /\ S[p].layout \notin {"generic", "right"} => Of(p) = S[p]
             /\ S[p].layout \in {"generic", "right"} => Of(p).layout \in {"generic", "right"}
             /\ Naming(R, p) = {} => Of(p) = S[p]
  <2>1. S[p] \in PlateEntry
    BY <1>2 DEF IsStore
  <2>2. Naming(R, p) = {} => Seen(p) = {}
    BY DEF Naming
  <2> HIDE DEF Seen
  <2>3. CASE Of(p) = S[p]
    BY <2>1, <2>3 DEF PlateEntry
  <2>4. CASE Of(p) = [S[p] EXCEPT !.layout = "right"]
             /\ S[p].layout \in {"generic", "right"} /\ Seen(p) # {}
    BY <2>1, <2>2, <2>4 DEF PlateEntry, Layouts
  <2>5. CASE Of(p) = [S[p] EXCEPT !.layout = "generic"]
             /\ S[p].layout \in {"generic", "right"} /\ Seen(p) # {}
    BY <2>1, <2>2, <2>5 DEF PlateEntry, Layouts
  <2> QED
    BY <2>3, <2>4, <2>5
<1> HIDE DEF Of
<1> QED
  BY <1>1, <1>2 DEF IsStore

\* Settling keeps every plate in a layout of its class.
LEMMA SettleFits ==
    ASSUME NEW S, IsStore(S), Fitting(S), NEW R
    PROVE  Fitting(Settle(S, R))
<1> SUFFICES ASSUME NEW p \in DOMAIN S
             PROVE  Settle(S, R)[p].layout \in LayoutsOf(p)
  BY SettleStore DEF Fitting
<1>1. S[p].layout \in LayoutsOf(p)
  BY DEF Fitting
<1>2. CASE Class[p] = "two"
  <2>1. LayoutsOf(p) = {"generic", "right"}
    BY <1>2 DEF LayoutsOf
  <2> QED
    BY <1>1, <2>1, SettleStore
<1>3. CASE Class[p] # "two"
  <2>1. LayoutsOf(p) \cap {"generic", "right"} = {}
    BY <1>3 DEF LayoutsOf
  <2> QED
    BY <1>1, <2>1, SettleStore
<1> QED
  BY <1>2, <1>3

\* A two-button plate gets the pair that the records naming it show.
LEMMA SettleShows ==
    ASSUME NEW S, IsStore(S), Fitting(S), NEW R, Agree(R), KeysTyped(R),
           NEW r \in OfTables(R), r.plate \in DOMAIN S, Class[r.plate] = "two"
    PROVE  Settle(S, R)[r.plate].layout = PairOf(r.key)
<1> DEFINE p == r.plate
           seen == {x.key : x \in {y \in R : y.plate = p /\ y.source = "table"}}
<1>1. S[p].layout \in {"generic", "right"} /\ S[p] \in PlateEntry
  BY DEF Fitting, LayoutsOf, IsStore
<1>2. r.key \in seen
  BY DEF OfTables
<1>3. \A k \in seen : k \in 0..3 /\ PairOf(k) = PairOf(r.key)
  BY DEF Agree, KeysTyped, OfTables
<1>4. Settle(S, R)[p] =
         CASE seen \subseteq {0, 2} -> [S[p] EXCEPT !.layout = "right"]
           [] seen \subseteq {1, 3} -> [S[p] EXCEPT !.layout = "generic"]
           [] OTHER                 -> S[p]
  <2>1. seen # {} /\ p \in DOMAIN S
    BY <1>2
  <2> QED
    BY <1>1, <2>1 DEF Settle
<1> HIDE DEF p, seen
<1>5. CASE r.key \in {0, 2}
  <2>1. seen \subseteq {0, 2} /\ ~(seen \subseteq {1, 3})
    BY <1>2, <1>3, <1>5 DEF PairOf
  <2> QED
    BY <1>1, <1>4, <1>5, <2>1 DEF PairOf, PlateEntry, p
<1>6. CASE r.key \notin {0, 2}
  <2>1. seen \subseteq {1, 3} /\ ~(seen \subseteq {0, 2})
    BY <1>2, <1>3, <1>6 DEF PairOf
  <2> QED
    BY <1>1, <1>4, <1>6, <2>1 DEF PairOf, PlateEntry, p
<1> QED
  BY <1>5, <1>6

\* The label a record of a table is filed under, on a plate whose layout suits it,
\* is one whose key sends the frame it was programmed for.
LEMMA Resolves ==
    ASSUME NEW S, NEW r, r.plate \in DOMAIN S, r.key \in 0..3,
           \/ S[r.plate].layout = "four"
           \/ S[r.plate].layout \in {"generic", "right"} /\ S[r.plate].layout = PairOf(r.key)
           \/ S[r.plate].layout = "remote" /\ ~r.byFrame
    PROVE  \E l \in Resolve(S, r) :
             /\ l \in DOMAIN Keys[S[r.plate].layout]
             /\ Keys[S[r.plate].layout][l] \in {r.key, NoIndex}
<1>1. r.key \in {0, 1, 2, 3}
  OBVIOUS
<1>2. /\ Keys["four"] = [A |-> 1, B |-> 3, C |-> 0, D |-> 2]
      /\ Keys["generic"] = [A |-> 1, B |-> 3]
      /\ Keys["right"] = [A |-> 0, B |-> 2]
      /\ Keys["remote"] = [A |-> NoIndex]
  BY DEF Keys
<1>3. ASSUME NEW l \in DOMAIN Keys[S[r.plate].layout], Keys[S[r.plate].layout][l] = r.key
      PROVE  l \in Resolve(S, r)
  <2>1. l \in With(S[r.plate].layout, r.key)
    BY <1>3 DEF With
  <2> QED
    BY <2>1 DEF Resolve
<1>4. CASE S[r.plate].layout = "four"
  <2>1. \E l \in DOMAIN Keys["four"] : Keys["four"][l] = r.key
    BY <1>1, <1>2
  <2> QED
    BY <1>3, <1>4, <2>1
<1>5. CASE S[r.plate].layout = PairOf(r.key)
  <2>1. \E l \in DOMAIN Keys[PairOf(r.key)] : Keys[PairOf(r.key)][l] = r.key
    BY <1>1, <1>2 DEF PairOf
  <2> QED
    BY <1>3, <1>5, <2>1
<1>6. CASE S[r.plate].layout = "remote" /\ ~r.byFrame
  <2>1. With("remote", r.key) = {}
    BY <1>1, <1>2 DEF With, NoIndex
  <2>2. Resolve(S, r) = {"A"}
    BY <1>6, <2>1 DEF Resolve
  <2> QED
    BY <1>2, <1>6, <2>2
<1> QED
  BY <1>4, <1>5, <1>6

\* A record of a plate without an entry has no label.
LEMMA ResolveUnknown ==
    ASSUME NEW S, NEW r, r.plate \notin DOMAIN S
    PROVE  Resolve(S, r) = {}
  BY DEF Resolve

-----------------------------------------------------------------------------
(* What merging makes of the links. *)

\* A place is what Place makes it.
IsPlace(q) == q = Place(q.plate, q.label, q)

\* A store of links: places of plates the button store has.
IsLinks(L, S) == \A q \in DOMAIN L : IsPlace(q) /\ q.plate \in DOMAIN S

\* Where records are filed.
LEMMA PlacesOf ==
    ASSUME NEW S, NEW r, NEW q \in Places(S, r)
    PROVE  /\ IsPlace(q) /\ q.plate = r.plate /\ q.mod = r.mod /\ q.chan = r.chan
           /\ q.mode = r.mode /\ r.plate \in DOMAIN S /\ q.label \in Resolve(S, r)
<1>1. PICK l \in Resolve(S, r) : q = Place(r.plate, l, r)
  BY DEF Places
<1>2. r.plate \in DOMAIN S
  BY <1>1, ResolveUnknown
<1>3. q = [plate |-> r.plate, label |-> l, mod |-> r.mod, chan |-> r.chan, mode |-> r.mode]
  BY <1>1 DEF Place
<1> QED
  BY <1>1, <1>2, <1>3 DEF IsPlace, Place

\* Filing keeps every place, and adds those of the records.
LEMMA FileLinks ==
    ASSUME NEW L, NEW S, NEW R
    PROVE  /\ DOMAIN File(L, S, R) = DOMAIN L \cup UNION {Places(S, r) : r \in R}
           /\ \A q \in DOMAIN L : L[q] = "table" => File(L, S, R)[q] = "table"
           /\ \A r \in OfTables(R) : \A q \in Places(S, r) : File(L, S, R)[q] = "table"
  BY DEF File, OfTables

\* Mirroring keeps every place, and adds some that differ from one of them by the
\* label alone.
LEMMA MirrorLinks ==
    ASSUME NEW L, NEW S, IsLinks(L, S)
    PROVE  /\ DOMAIN L \subseteq DOMAIN Mirror(L, S)
           /\ \A q \in DOMAIN L : Mirror(L, S)[q] = L[q]
           /\ \A c \in DOMAIN Mirror(L, S) :
                \E q \in DOMAIN L : c = Place(q.plate, c.label, q)
<1> DEFINE Copy(q) == {[q EXCEPT !.label = l] : l \in
                          Peers(q) \cap DOMAIN Keys[S[q.plate].layout]}
<1>1. /\ DOMAIN Mirror(L, S) = DOMAIN L \cup UNION {Copy(q) : q \in DOMAIN L}
      /\ \A q \in DOMAIN L : Mirror(L, S)[q] = L[q]
  BY DEF Mirror
<1>2. ASSUME NEW q \in DOMAIN L, NEW c \in Copy(q)
      PROVE  c = Place(q.plate, c.label, q)
  <2>1. PICK l : c = [q EXCEPT !.label = l]
    OBVIOUS
  <2>2. q = [plate |-> q.plate, label |-> q.label, mod |-> q.mod, chan |-> q.chan,
             mode |-> q.mode]
    BY DEF IsLinks, IsPlace, Place
  <2>3. c = [plate |-> q.plate, label |-> l, mod |-> q.mod, chan |-> q.chan,
             mode |-> q.mode]
    BY <2>1, <2>2
  <2> QED
    BY <2>3 DEF Place
<1>3. \A q \in DOMAIN L : q = Place(q.plate, q.label, q)
  BY DEF IsLinks, IsPlace
<1> HIDE DEF Copy
<1> QED
  BY <1>1, <1>2, <1>3

\* Whatever is of place q but its label.
Like(q, r) ==
    q.plate = r.plate /\ q.mod = r.mod /\ q.chan = r.chan /\ q.mode = r.mode

\* A merge keeps every link that was read from a table; it files every record read
\* from one under its labels; and every link it leaves was there or stems from
\* one of the records that no table overrules.
LEMMA MergeLinks ==
    ASSUME NEW S, IsStore(S), NEW L, IsLinks(L, S), NEW R
    PROVE  /\ IsLinks(Merge(L, S, R), S)
           /\ \A q \in DOMAIN L : q \in DOMAIN Merge(L, S, R)
           /\ \A q \in DOMAIN L : L[q] = "table" => Merge(L, S, R)[q] = "table"
           /\ \A r \in OfTables(R) : \A q \in Places(Settle(S, R), r) :
                q \in DOMAIN Merge(L, S, R) /\ Merge(L, S, R)[q] = "table"
           /\ \A c \in DOMAIN Merge(L, S, R) :
                \/ \E q \in DOMAIN L : Like(c, q)
                \/ \E r \in Ruled(R) : Like(c, r)
<1> DEFINE T == Settle(S, R)
           F == File(L, T, Ruled(R))
           M == Mirror(F, T)
<1>1. Merge(L, S, R) = M
  BY DEF Merge
<1>2. DOMAIN T = DOMAIN S
  BY SettleStore
<1>3. /\ DOMAIN F = DOMAIN L \cup UNION {Places(T, r) : r \in Ruled(R)}
      /\ \A q \in DOMAIN L : L[q] = "table" => F[q] = "table"
      /\ \A r \in OfTables(Ruled(R)) : \A q \in Places(T, r) : F[q] = "table"
  BY FileLinks
<1>4. OfTables(R) \subseteq OfTables(Ruled(R)) /\ OfTables(R) \subseteq Ruled(R)
  BY DEF OfTables, Ruled
<1> HIDE DEF T, F
<1>5. IsLinks(F, T)
  <2> SUFFICES ASSUME NEW q \in DOMAIN F PROVE IsPlace(q) /\ q.plate \in DOMAIN T
    BY DEF IsLinks
  <2>1. CASE q \in DOMAIN L
    BY <1>2, <2>1 DEF IsLinks
  <2>2. CASE \E r \in Ruled(R) : q \in Places(T, r)
    BY <2>2, PlacesOf
  <2> QED
    BY <1>3, <2>1, <2>2
<1>6. /\ DOMAIN F \subseteq DOMAIN M /\ \A q \in DOMAIN F : M[q] = F[q]
      /\ \A c \in DOMAIN M : \E q \in DOMAIN F : c = Place(q.plate, c.label, q)
  BY <1>5, MirrorLinks
<1> HIDE DEF M
<1>7. \A c \in DOMAIN M : \E q \in DOMAIN F : Like(c, q) /\ IsPlace(c)
  <2> TAKE c \in DOMAIN M
  <2>1. PICK q \in DOMAIN F : c = Place(q.plate, c.label, q)
    BY <1>6
  <2>2. c.plate = q.plate /\ c.mod = q.mod /\ c.chan = q.chan /\ c.mode = q.mode
    BY <2>1 DEF Place
  <2> QED
    BY <2>1, <2>2 DEF Like, IsPlace, Place
<1>8. IsLinks(M, S)
  BY <1>2, <1>5, <1>7 DEF IsLinks, Like
<1>9. \A c \in DOMAIN M :
        (\E q \in DOMAIN L : Like(c, q)) \/ (\E r \in Ruled(R) : Like(c, r))
  <2> TAKE c \in DOMAIN M
  <2>1. PICK q \in DOMAIN F : Like(c, q)
    BY <1>7
  <2>2. CASE q \in DOMAIN L
    BY <2>1, <2>2
  <2>3. ASSUME NEW r \in Ruled(R), q \in Places(T, r) PROVE Like(c, r)
    BY <2>1, <2>3, PlacesOf DEF Like
  <2> QED
    BY <1>3, <2>2, <2>3
<1>10. \A q \in DOMAIN L : q \in DOMAIN M /\ (L[q] = "table" => M[q] = "table")
  BY <1>3, <1>6
<1>11. \A r \in OfTables(R) : \A q \in Places(T, r) : q \in DOMAIN M /\ M[q] = "table"
  BY <1>3, <1>4, <1>6
<1> QED
  BY <1>1, <1>8, <1>9, <1>10, <1>11 DEF T

-----------------------------------------------------------------------------
(* The inductive invariant. *)

\* Whether the user named a channel.
Marks == BOOLEAN
ModuleEntry == [named : BOOLEAN, channels : Seq(Marks), readAt : BOOLEAN]

\* What a module's own register scan has still to send is from its table.
RestInv ==
    pc = "scan" /\ unit \in Mods =>
        /\ rest \in Seq(Record)
        /\ \A i \in DOMAIN rest : \E j \in DOMAIN table[unit] : rest[i] = table[unit][j]

StoresType ==
    /\ IsStore(plates) /\ Fitting(plates) /\ IsLinks(links, plates)
    /\ DOMAIN modules \subseteq Mods /\ modules \in [DOMAIN modules -> ModuleEntry]
    /\ told = [m \in Mods |-> told[m]]
    /\ DOMAIN table = Mods /\ \A m \in Mods : table[m] \in Tables[m]
    /\ pc \in {"idle", "next", "scan", "rebuild"}
    /\ pc = "rebuild" => unit \in Mods
    /\ pc = "idle" => accumulated = {}
    /\ \A r \in accumulated : r.source \in {"table", "registry"}
    /\ pc # "idle" => last = {}
    /\ RestInv

\* A record is one the module is programmed with.
Programmed(r) ==
    /\ r.mod \in Mods
    /\ \E j \in DOMAIN table[r.mod] :
         r.plate = table[r.mod][j].plate /\ r.key = table[r.mod][j].key

\* A record has the link the host looks for: on the key whose frame the module
\* listens for.  A remote's code read again by its frame is left out.
Settled(S, r) == Class[r.plate] = "two" => S[r.plate].layout = PairOf(r.key)
Filed(L, S, r) ==
    \/ r.byFrame /\ Class[r.plate] = "code"
    \/ \E q \in DOMAIN L :
         /\ Like(q, r) /\ L[q] = "table"
         /\ q.label \in DOMAIN Keys[S[r.plate].layout]
         /\ Keys[S[r.plate].layout][q.label] \in {r.key, NoIndex}

\* During a run: every record decoded from a module's own table is one it is
\* programmed with and was told of since; if its plate has an entry it is filed,
\* and else it is kept for the end of the run.
DecodedInv ==
    \A r \in OfTables(accumulated) :
        /\ Programmed(r) /\ r \in told[r.mod]
        /\ IF r.plate \in DOMAIN plates THEN Settled(plates, r) /\ Filed(links, plates, r)
           ELSE ~r.byFrame /\ r.plate \in unmatched

\* Between runs: what became of the records of the last run that completed.
PlacedInv ==
    pc = "idle" =>
        /\ \A r \in last :
             \/ r.plate \notin owed /\ Class[r.plate] \notin {"logic", "bank"}
             \/ Class[r.plate] = "logic" /\ r.plate \in broadcasts
             \/ r.plate \in DOMAIN plates /\ Filed(links, plates, r)
        /\ Cardinality({r.plate : r \in last} \cap (Codes \ owed)) < Threshold

StoresInv == StoresType /\ DecodedInv /\ PlacedInv /\ TablesRule /\ EditsKept

-----------------------------------------------------------------------------
(* What a merge does for the records of a run. *)

\* Records of the programmed tables agree on the pair of a two-button plate.
LEMMA ProgrammedAgree ==
    ASSUME StoresType, NEW R, \A r \in OfTables(R) : Programmed(r)
    PROVE  /\ Agree(R) /\ KeysTyped(R)
           /\ \A r \in OfTables(R) : r.plate \in Plates
<1>1. ASSUME NEW r \in OfTables(R)
      PROVE  /\ r.mod \in Mods /\ table[r.mod] \in Tables[r.mod] /\ table[r.mod] \in Seq(Record)
             /\ \E j \in DOMAIN table[r.mod] :
                  /\ r.plate = table[r.mod][j].plate /\ r.key = table[r.mod][j].key
                  /\ table[r.mod][j] \in Record
  <2>1. PICK j \in DOMAIN table[r.mod] :
          r.plate = table[r.mod][j].plate /\ r.key = table[r.mod][j].key
    BY DEF Programmed
  <2>2. r.mod \in Mods /\ table[r.mod] \in Tables[r.mod]
    BY DEF Programmed, StoresType
  <2>3. table[r.mod] \in Seq(Record)
    BY <2>2, StoresAssumption
  <2> QED
    BY <2>1, <2>2, <2>3
<1>2. \A r \in OfTables(R) : r.plate \in Plates /\ r.key \in 0..3
  BY <1>1 DEF Record
<1>3. Agree(R)
  <2> SUFFICES ASSUME NEW r \in OfTables(R), NEW s \in OfTables(R),
                      r.plate = s.plate, Class[r.plate] = "two"
               PROVE  PairOf(r.key) = PairOf(s.key)
    BY DEF Agree
  <2>1. PICK i \in DOMAIN table[r.mod] :
          r.plate = table[r.mod][i].plate /\ r.key = table[r.mod][i].key
    BY <1>1
  <2>2. PICK j \in DOMAIN table[s.mod] :
          s.plate = table[s.mod][j].plate /\ s.key = table[s.mod][j].key
    BY <1>1
  <2>3. r.mod = s.mod => table[r.mod] = table[s.mod]
    OBVIOUS
  <2>4. /\ r.mod \in Mods /\ table[r.mod] \in Tables[r.mod]
        /\ s.mod \in Mods /\ table[s.mod] \in Tables[s.mod]
    BY <1>1
  <2>5. \A t \in Tables[r.mod], u \in Tables[s.mod] : \A a \in DOMAIN t, b \in DOMAIN u :
          /\ r.mod = s.mod => t = u
          /\ t[a].plate = u[b].plate /\ Class[t[a].plate] = "two"
          => PairOf(t[a].key) = PairOf(u[b].key)
    BY <2>4, PairsAssumption
  <2>6. /\ r.mod = s.mod => table[r.mod] = table[s.mod]
        /\ table[r.mod][i].plate = table[s.mod][j].plate
        /\ Class[table[r.mod][i].plate] = "two"
        => PairOf(table[r.mod][i].key) = PairOf(table[s.mod][j].key)
    BY ONLY <2>1, <2>2, <2>4, <2>5
  <2> QED
    BY <2>1, <2>2, <2>3, <2>6
<1> QED
  BY <1>2, <1>3 DEF KeysTyped

\* Settling by some of the records that agree leaves the pair they show.
LEMMA SettledStays ==
    ASSUME NEW S, IsStore(S), Fitting(S), NEW A, Agree(A), KeysTyped(A),
           NEW R, OfTables(R) \subseteq OfTables(A),
           NEW r \in OfTables(A), r.plate \in DOMAIN S, r \in R \/ Settled(S, r)
    PROVE  Settled(Settle(S, R), r)
<1> SUFFICES ASSUME Class[r.plate] = "two"
             PROVE  Settle(S, R)[r.plate].layout = PairOf(r.key)
  BY DEF Settled
<1>1. Agree(R) /\ KeysTyped(R)
  BY DEF Agree, KeysTyped
<1>2. CASE Naming(R, r.plate) = {}
  <2>1. r \notin R
    BY <1>2 DEF Naming, OfTables
  <2> QED
    BY <1>2, <2>1, SettleStore DEF Settled
<1>3. CASE Naming(R, r.plate) # {}
  <2>1. PICK s \in OfTables(R) : s.plate = r.plate
    BY <1>3 DEF Naming, OfTables
  <2>2. Settle(S, R)[r.plate].layout = PairOf(s.key)
    BY <1>1, <2>1, SettleShows
  <2>3. PairOf(s.key) = PairOf(r.key)
    BY <2>1 DEF Agree
  <2> QED
    BY <2>2, <2>3
<1> QED
  BY <1>2, <1>3

\* A record merged is filed.
LEMMA MergeFiles ==
    ASSUME NEW S, IsStore(S), Fitting(S), NEW L, IsLinks(L, S), NEW R,
           NEW r \in OfTables(R), r.key \in 0..3, r.plate \in DOMAIN S,
           Settled(Settle(S, R), r)
    PROVE  Filed(Merge(L, S, R), Settle(S, R), r)
<1> DEFINE T == Settle(S, R)
<1>1. T[r.plate].layout \in LayoutsOf(r.plate) /\ DOMAIN T = DOMAIN S
  BY SettleFits, SettleStore DEF Fitting
<1>2. \A q \in Places(T, r) : q \in DOMAIN Merge(L, S, R) /\ Merge(L, S, R)[q] = "table"
  BY MergeLinks
<1>3. Class[r.plate] = "two" => T[r.plate].layout = PairOf(r.key)
  BY DEF Settled
<1> HIDE DEF T
<1>4. CASE r.byFrame /\ Class[r.plate] = "code"
  BY <1>4 DEF Filed
<1>5. CASE ~(r.byFrame /\ Class[r.plate] = "code")
  <2>1. \/ T[r.plate].layout = "four"
        \/ T[r.plate].layout \in {"generic", "right"} /\ T[r.plate].layout = PairOf(r.key)
        \/ T[r.plate].layout = "remote" /\ ~r.byFrame
    BY <1>1, <1>3, <1>5 DEF LayoutsOf
  <2>2. PICK l \in Resolve(T, r) : /\ l \in DOMAIN Keys[T[r.plate].layout]
                                   /\ Keys[T[r.plate].layout][l] \in {r.key, NoIndex}
    BY <1>1, <2>1, Resolves
  <2>3. Place(r.plate, l, r) \in Places(T, r)
    BY DEF Places
  <2>4. Like(Place(r.plate, l, r), r) /\ Place(r.plate, l, r).label = l
    BY DEF Place, Like
  <2>5. \E q \in DOMAIN Merge(L, S, R) :
          /\ Like(q, r) /\ Merge(L, S, R)[q] = "table"
          /\ q.label \in DOMAIN Keys[T[r.plate].layout]
          /\ Keys[T[r.plate].layout][q.label] \in {r.key, NoIndex}
    BY <1>2, <2>2, <2>3, <2>4
  <2> QED
    BY <2>5 DEF Filed, T
<1> QED
  BY <1>4, <1>5

\* A record that is filed stays so through a merge that leaves its plate the pair
\* it shows.
LEMMA FiledStays ==
    ASSUME NEW S, IsStore(S), Fitting(S), NEW L, IsLinks(L, S), NEW R,
           NEW r, r.plate \in DOMAIN S, Filed(L, S, r),
           Settled(S, r), Settled(Settle(S, R), r)
    PROVE  Filed(Merge(L, S, R), Settle(S, R), r)
<1>1. Settle(S, R)[r.plate].layout = S[r.plate].layout
  <2>1. CASE Class[r.plate] = "two"
    BY <2>1 DEF Settled
  <2>2. CASE Class[r.plate] # "two"
    <3>1. S[r.plate].layout \notin {"generic", "right"}
      BY <2>2 DEF Fitting, LayoutsOf
    <3> QED
      BY <3>1, SettleStore
  <2> QED
    BY <2>1, <2>2
<1>2. \A q \in DOMAIN L :
        q \in DOMAIN Merge(L, S, R) /\ (L[q] = "table" => Merge(L, S, R)[q] = "table")
  BY MergeLinks
<1> QED
  BY <1>1, <1>2 DEF Filed

-----------------------------------------------------------------------------
(* The steps. *)

\* A batch: a module's own records are told by its table, are of that module and
\* know no frame of a plate without an entry; the PC-Link's are none of a table.
LEMMA BatchRecords ==
    ASSUME StoresType, NEW n \in 1..2, Batch(n)
    PROVE  \E R :
             /\ plates' = Settle(plates, R) /\ links' = Merge(links, plates, R)
             /\ accumulated' = accumulated \cup R
             /\ unmatched' = unmatched \cup Residue(plates, R)
             /\ told' = IF unit \in Mods THEN [told EXCEPT ![unit] = @ \cup R] ELSE told
             /\ \A r \in R : r.source \in {"table", "registry"}
             /\ \A r \in OfTables(R) :
                  /\ unit \in Mods /\ r.mod = unit /\ Programmed(r)
                  /\ r.plate \notin DOMAIN plates => ~r.byFrame
<1> DEFINE R == {IF unit \in Mods THEN Named(rest[i], unit, "table")
                 ELSE Named(rest[i], rest[i].mod, "registry") : i \in 1..n}
<1>1. /\ plates' = Settle(plates, R) /\ links' = Merge(links, plates, R)
      /\ accumulated' = accumulated \cup R
      /\ unmatched' = unmatched \cup Residue(plates, R)
      /\ told' = IF unit \in Mods THEN [told EXCEPT ![unit] = @ \cup R] ELSE told
  BY DEF Batch
<1>2. pc = "scan" /\ n <= Len(rest)
  BY DEF Batch
<1>3. ASSUME NEW x, NEW m, NEW s
      PROVE  /\ Named(x, m, s).plate = x.plate /\ Named(x, m, s).key = x.key
             /\ Named(x, m, s).mod = m /\ Named(x, m, s).source = s
             /\ x.plate \notin DOMAIN plates => ~Named(x, m, s).byFrame
  BY DEF Named
<1>4. \A r \in R : r.source \in {"table", "registry"}
  <2> SUFFICES ASSUME NEW i \in 1..n
               PROVE  /\ Named(rest[i], unit, "table").source \in {"table", "registry"}
                      /\ Named(rest[i], rest[i].mod, "registry").source \in {"table", "registry"}
    OBVIOUS
  <2> QED
    BY <1>3
<1>5. ASSUME NEW r \in OfTables(R)
      PROVE  /\ unit \in Mods /\ r.mod = unit /\ Programmed(r)
             /\ r.plate \notin DOMAIN plates => ~r.byFrame
  <2>1. PICK i \in 1..n : r = IF unit \in Mods THEN Named(rest[i], unit, "table")
                              ELSE Named(rest[i], rest[i].mod, "registry")
    BY DEF OfTables
  <2>2. unit \in Mods
    <3> SUFFICES ASSUME unit \notin Mods PROVE FALSE
      OBVIOUS
    <3>1. r.source = "registry"
      BY <1>3, <2>1
    <3> QED
      BY <3>1 DEF OfTables
  <2>3. r = Named(rest[i], unit, "table")
    BY <2>1, <2>2
  <2>4. i \in DOMAIN rest
    <3>1. rest \in Seq(Record)
      BY <1>2, <2>2 DEF StoresType, RestInv
    <3> QED
      BY <1>2, <3>1
  <2>5. PICK j \in DOMAIN table[unit] : rest[i] = table[unit][j]
    BY <1>2, <2>2, <2>4 DEF StoresType, RestInv
  <2>6. r.mod = unit /\ r.plate = rest[i].plate /\ r.key = rest[i].key
    BY <1>3, <2>3
  <2>7. Programmed(r)
    BY <2>2, <2>5, <2>6 DEF Programmed
  <2> QED
    BY <1>3, <2>2, <2>3, <2>6, <2>7
<1> HIDE DEF R
<1> QED
  BY <1>1, <1>4, <1>5

\* The store a run is completed with: the plates it has and those made up.
Extended(new) ==
    [p \in DOMAIN plates \cup new |-> IF p \in new THEN MadeUp(p) ELSE plates[p]]
New == (Virtual \cup Remote) \ DOMAIN plates

\* What the end of a run makes up are entries of the store, and no others change.
LEMMA CompleteFacts ==
    ASSUME StoresType, DecodedInv
    PROVE  /\ IsStore(Extended(New)) /\ Fitting(Extended(New))
           /\ IsLinks(links, Extended(New))
           /\ DOMAIN Extended(New) = DOMAIN plates \cup New
           /\ \A p \in DOMAIN plates : Extended(New)[p] = plates[p]
           /\ \A p \in New : Class[p] \in {"bank", "logic", "code"}
<1>1. ASSUME NEW p \in New
      PROVE  Class[p] \in {"bank", "logic", "code"} /\ p \in Plates
  <2>1. CASE p \in Virtual
    <3>1. PICK r \in accumulated : ~r.byFrame /\ r.source = "table" /\ p = r.plate
      BY <2>1 DEF Virtual, FromTable
    <3>2. r.plate \in Plates
      BY <3>1, ProgrammedAgree DEF OfTables, DecodedInv
    <3> QED
      BY <2>1, <3>1, <3>2 DEF Virtual
  <2>2. CASE p \in Remote
    <3>1. p \in Codes
      BY <2>2 DEF Remote
    <3> QED
      BY <3>1 DEF Codes
  <2> QED
    BY <1>1, <2>1, <2>2 DEF New
<1>2. \A p \in New : MadeUp(p) \in PlateEntry /\ MadeUp(p).layout \in LayoutsOf(p)
  BY <1>1 DEF MadeUp, PlateEntry, Layouts, LayoutsOf
<1>3. \A p \in DOMAIN plates : p \notin New
  BY DEF New
<1>4. /\ DOMAIN Extended(New) = DOMAIN plates \cup New
      /\ \A p \in DOMAIN plates : Extended(New)[p] = plates[p]
      /\ \A p \in New : Extended(New)[p] = MadeUp(p)
      /\ Extended(New) = [p \in DOMAIN plates \cup New |-> Extended(New)[p]]
  BY <1>3 DEF Extended
<1>5. IsStore(plates) /\ Fitting(plates) /\ IsLinks(links, plates)
  BY DEF StoresType
<1>6. \A p \in DOMAIN plates \cup New : Extended(New)[p] \in PlateEntry
  BY <1>2, <1>4, <1>5 DEF IsStore
<1>7. IsStore(Extended(New))
  BY <1>1, <1>4, <1>5, <1>6 DEF IsStore
<1>8. Fitting(Extended(New))
  BY <1>2, <1>4, <1>5 DEF Fitting
<1>9. IsLinks(links, Extended(New))
  BY <1>4, <1>5 DEF IsLinks
<1> QED
  BY <1>1, <1>4, <1>7, <1>8, <1>9

\* The end of a run adds those and files what was kept for them.
LEMMA CompleteStep ==
    ASSUME StoresType, DecodedInv, Complete
    PROVE  /\ plates' = IF New = {} THEN plates ELSE Settle(Extended(New), accumulated)
           /\ links' = IF New = {} THEN links ELSE Merge(links, Extended(New), accumulated)
           /\ owed' = DOMAIN plates \cup New
           /\ broadcasts' = Central /\ last' = OfTables(accumulated) /\ accumulated' = {}
           /\ pc' = "idle"
<1>1. owed' = DOMAIN Extended(New)
  BY DEF Complete, Extended, New
<1> QED
  BY <1>1, CompleteFacts DEF Complete, Extended, New, OfTables

\* Padding keeps every channel and takes none away (_pad_channels).
LEMMA PadKeeps ==
    ASSUME NEW channels \in Seq(Marks), NEW n \in Nat
    PROVE  /\ Pad(channels, n) \in Seq(Marks)
           /\ \A i \in DOMAIN channels :
                i \in DOMAIN Pad(channels, n) /\ Pad(channels, n)[i] = channels[i]
<1> DEFINE len == IF n > Len(channels) THEN n ELSE Len(channels)
<1>1. len \in Nat /\ len >= Len(channels) /\ Len(channels) \in Nat
      /\ DOMAIN channels = 1..Len(channels)
  OBVIOUS
<1>2. Pad(channels, n) = [i \in 1..len |-> IF i <= Len(channels) THEN channels[i] ELSE FALSE]
  BY DEF Pad
<1> HIDE DEF len
<1>3. ASSUME NEW i \in 1..len
      PROVE  (IF i <= Len(channels) THEN channels[i] ELSE FALSE) \in Marks
  <2>1. CASE i <= Len(channels)
    <3>1. i \in 1..Len(channels)
      BY <1>1, <2>1
    <3>2. channels[i] \in Marks
      BY <3>1
    <3> QED
      BY <2>1, <3>2
  <2>2. CASE ~(i <= Len(channels))
    BY <2>2 DEF Marks
  <2> QED
    BY <2>1, <2>2
<1>4. Pad(channels, n) \in [1..len -> Marks]
  BY <1>2, <1>3
<1>5. Pad(channels, n) \in Seq(Marks)
  BY <1>1, <1>4
<1>6. ASSUME NEW i \in DOMAIN channels
      PROVE  i \in DOMAIN Pad(channels, n) /\ Pad(channels, n)[i] = channels[i]
  <2>1. i \in 1..Len(channels) /\ i \in 1..len
    BY <1>1
  <2> QED
    BY <1>1, <1>2, <2>1
<1> QED
  BY <1>5, <1>6

\* An inventory keeps the plates and the modules it finds in the stores, with their
\* layouts, names and marks; what it adds is unnamed and not read.
LEMMA InventoryKeeps ==
    ASSUME StoresType, Inventory
    PROVE  /\ IsStore(plates') /\ Fitting(plates')
           /\ \A p \in DOMAIN plates : p \in DOMAIN plates' /\ plates'[p] = plates[p]
           /\ DOMAIN modules' \subseteq Mods /\ modules' \in [DOMAIN modules' -> ModuleEntry]
           /\ \A m \in DOMAIN modules :
                /\ m \in DOMAIN modules' /\ modules'[m].named = modules[m].named
                /\ modules'[m].readAt = modules[m].readAt
                /\ \A i \in DOMAIN modules[m].channels :
                     /\ i \in DOMAIN modules'[m].channels
                     /\ modules'[m].channels[i] = modules[m].channels[i]
           /\ \A m \in DOMAIN modules' : m \notin DOMAIN modules => ~modules'[m].readAt
<1>1. PICK found \in Found : plates' = MergedPlates(found)
  BY DEF Inventory
<1>2. PICK n \in Counts : modules' = MergedModules(n)
  BY DEF Inventory
<1>3. IsStore(plates) /\ Fitting(plates) /\ DOMAIN modules \subseteq Mods
      /\ modules \in [DOMAIN modules -> ModuleEntry]
  BY DEF StoresType
<1>4. found \subseteq Wall /\ Wall \subseteq Plates
  BY <1>1, StoresAssumption DEF Wall
<1>5. n \in [Mods -> Nat]
  BY <1>2, StoresAssumption
<1>6. ASSUME NEW p \in DOMAIN plates \cup found
      PROVE  /\ plates'[p] \in PlateEntry /\ plates'[p].layout \in LayoutsOf(p)
             /\ p \in DOMAIN plates => plates'[p] = plates[p]
  <2>1. plates'[p] = [layout |-> IF p \in found THEN KnownLayout(p) ELSE plates[p].layout,
                      named |-> p \in DOMAIN plates /\ plates[p].named]
    BY <1>1 DEF MergedPlates
  <2>2. p \in DOMAIN plates => plates[p] \in PlateEntry /\ plates[p].layout \in LayoutsOf(p)
    BY <1>3 DEF IsStore, Fitting
  <2>3. p \in found => Class[p] \in {"four", "two"}
    BY <1>4 DEF Wall
  <2>4. p \in found => /\ KnownLayout(p) \in LayoutsOf(p) /\ KnownLayout(p) \in Layouts
                       /\ p \in DOMAIN plates => KnownLayout(p) = plates[p].layout
    BY <2>2, <2>3 DEF KnownLayout, LayoutsOf, Layouts
  <2>5. CASE p \in DOMAIN plates
    <3>1. plates'[p] = [layout |-> plates[p].layout, named |-> plates[p].named]
      BY <2>1, <2>2, <2>4, <2>5 DEF PlateEntry
    <3>2. plates[p] = [layout |-> plates[p].layout, named |-> plates[p].named]
      BY <2>2, <2>5 DEF PlateEntry
    <3> QED
      BY <2>2, <2>5, <3>1, <3>2
  <2>6. CASE p \notin DOMAIN plates
    <3>1. p \in found /\ plates'[p] = [layout |-> KnownLayout(p), named |-> FALSE]
      BY <1>6, <2>1, <2>6
    <3> QED
      BY <2>4, <2>6, <3>1 DEF PlateEntry
  <2> QED
    BY <2>5, <2>6
<1>7. DOMAIN plates' = DOMAIN plates \cup found
      /\ plates' = [p \in DOMAIN plates \cup found |-> plates'[p]]
  BY <1>1 DEF MergedPlates
<1>8. IsStore(plates') /\ Fitting(plates')
  <2>1. DOMAIN plates' \subseteq Plates
    BY <1>3, <1>4, <1>7 DEF IsStore
  <2> QED
    BY <1>6, <1>7, <2>1 DEF IsStore, Fitting
<1>9. DOMAIN modules' = Mods /\ modules' = [m \in Mods |-> modules'[m]]
  BY <1>2 DEF MergedModules
<1>10. ASSUME NEW m \in Mods
       PROVE  /\ modules'[m] \in ModuleEntry
              /\ m \in DOMAIN modules =>
                   /\ modules'[m].named = modules[m].named
                   /\ modules'[m].readAt = modules[m].readAt
                   /\ \A i \in DOMAIN modules[m].channels :
                        /\ i \in DOMAIN modules'[m].channels
                        /\ modules'[m].channels[i] = modules[m].channels[i]
              /\ m \notin DOMAIN modules => ~modules'[m].readAt
  <2>1. modules'[m] =
          IF m \in DOMAIN modules
          THEN [modules[m] EXCEPT !.channels = IF n[m] > 0 THEN Pad(@, n[m]) ELSE @]
          ELSE [named |-> FALSE, readAt |-> FALSE, channels |-> Pad(<<>>, n[m])]
    BY <1>2 DEF MergedModules
  <2>2. n[m] \in Nat
    BY <1>5
  <2>3. CASE m \in DOMAIN modules
    <3>1. modules[m] \in ModuleEntry
      BY <1>3, <2>3
    <3> DEFINE c == modules[m].channels
               d == IF n[m] > 0 THEN Pad(c, n[m]) ELSE c
    <3>2. c \in Seq(Marks)
      BY <3>1 DEF ModuleEntry
    <3>3. d \in Seq(Marks) /\ \A i \in DOMAIN c : i \in DOMAIN d /\ d[i] = c[i]
      BY <2>2, <3>2, PadKeeps
    <3>4. modules'[m] = [modules[m] EXCEPT !.channels = d]
      BY <2>1, <2>3
    <3> HIDE DEF d
    <3>5. /\ modules'[m] \in ModuleEntry /\ modules'[m].channels = d
          /\ modules'[m].named = modules[m].named /\ modules'[m].readAt = modules[m].readAt
      BY <3>1, <3>3, <3>4 DEF ModuleEntry
    <3> QED
      BY <2>3, <3>3, <3>5
  <2>4. CASE m \notin DOMAIN modules
    <3>1. <<>> \in Seq(Marks)
      OBVIOUS
    <3>2. Pad(<<>>, n[m]) \in Seq(Marks)
      BY <2>2, <3>1, PadKeeps
    <3> DEFINE c == Pad(<<>>, n[m])
    <3>3. modules'[m] = [named |-> FALSE, readAt |-> FALSE, channels |-> c]
      BY <2>1, <2>4
    <3> HIDE DEF c
    <3>4. modules'[m] \in ModuleEntry /\ ~modules'[m].readAt
      BY <3>1, <3>2, <3>3 DEF ModuleEntry, c
    <3> QED
      BY <2>4, <3>4
  <2> QED
    BY <2>3, <2>4
<1> QED
  BY <1>3, <1>6, <1>7, <1>8, <1>9, <1>10

\* A channel that is marked stays one of the list.
LEMMA MarkChannel ==
    ASSUME NEW c \in Seq(Marks), NEW i \in 1..Len(c), NEW x \in Marks
    PROVE  [c EXCEPT ![i] = x] \in Seq(Marks)
  OBVIOUS

\* Of a module's records some are taken away.
LEMMA RestShrinks ==
    ASSUME RestInv, NEW n \in 1..2, n <= Len(rest), rest' = SubSeq(rest, n + 1, Len(rest)),
           pc = "scan", UNCHANGED <<unit, table>>
    PROVE  RestInv'
<1> SUFFICES ASSUME unit \in Mods
             PROVE  /\ rest' \in Seq(Record)
                    /\ \A i \in DOMAIN rest' : \E j \in DOMAIN table[unit] :
                         rest'[i] = table[unit][j]
  BY DEF RestInv
<1>1. rest \in Seq(Record)
  BY DEF RestInv
<1>2. rest' \in Seq(Record)
  BY <1>1
<1>3. ASSUME NEW i \in DOMAIN rest' PROVE i + n \in DOMAIN rest /\ rest'[i] = rest[i + n]
  BY <1>1
<1> QED
  BY <1>2, <1>3 DEF RestInv

\* Every step keeps the stores and the run as they are typed.
LEMMA StepType ==
    StoresInv /\ [Next]_vars => StoresType'
<1> SUFFICES ASSUME StoresInv, [Next]_vars PROVE StoresType'
  OBVIOUS
<1> USE DEF vars, storeVars, sessionVars, runVars, histVars
<1>0. StoresType /\ DecodedInv
  BY DEF StoresInv
<1>1. CASE RunBegin
  BY <1>0, <1>1 DEF RunBegin, StoresType, RestInv
<1>2. CASE ScanBegin
  <2>1. RestInv'
    <3> SUFFICES ASSUME unit' \in Mods
                 PROVE  /\ rest' \in Seq(Record)
                        /\ \A i \in DOMAIN rest' : \E j \in DOMAIN table[unit'] :
                             rest'[i] = table[unit'][j]
      BY <1>2 DEF RestInv, ScanBegin
    <3>1. rest' = table[unit']
      <4>1. unit' \notin {"pc_link", "pc_logic"}
        BY StoresAssumption
      <4> QED
        BY <1>2, <4>1 DEF ScanBegin
    <3>2. table[unit'] \in Tables[unit']
      BY <1>0 DEF StoresType
    <3>3. table[unit'] \in Seq(Record)
      BY <3>2, StoresAssumption
    <3> QED
      BY <3>1, <3>3
  <2> QED
    BY <1>0, <1>2, <2>1 DEF ScanBegin, StoresType
<1>3. CASE ScanDone
  <2>1. DOMAIN modules' \subseteq Mods /\ modules' \in [DOMAIN modules' -> ModuleEntry]
    <3>1. DOMAIN modules \subseteq Mods /\ modules \in [DOMAIN modules -> ModuleEntry]
      BY <1>0 DEF StoresType
    <3>2. CASE UNCHANGED modules
      BY <3>1, <3>2
    <3>3. CASE modules' = [modules EXCEPT ![unit].readAt = TRUE]
      <4>1. DOMAIN modules' = DOMAIN modules
        BY <3>3
      <4>2. ASSUME NEW m \in DOMAIN modules PROVE modules'[m] \in ModuleEntry
        <5>1. modules[m] \in ModuleEntry
          BY <3>1
        <5>2. modules'[m] = modules[m] \/ modules'[m] = [modules[m] EXCEPT !.readAt = TRUE]
          BY <3>3
        <5> QED
          BY <5>1, <5>2 DEF ModuleEntry
      <4> QED
        BY <3>1, <3>3, <4>1, <4>2
    <3> QED
      BY <1>3, <3>2, <3>3 DEF ScanDone
  <2> QED
    BY <1>0, <1>3, <2>1 DEF ScanDone, StoresType, RestInv
<1>4. CASE Rebuild
  <2> DEFINE own == {r \in accumulated : r.mod = unit /\ r.source = "table"}
  <2>1. /\ plates' = Settle(plates, own) /\ links' = Merge(Strip(links, unit), plates, own)
        /\ told' = [told EXCEPT ![unit] = own]
    BY <1>4 DEF Rebuild
  <2>2. IsStore(plates) /\ Fitting(plates) /\ IsLinks(links, plates)
    BY <1>0 DEF StoresType
  <2>3. IsLinks(Strip(links, unit), plates)
    BY <2>2 DEF Strip, IsLinks
  <2> HIDE DEF own
  <2>4. IsStore(plates') /\ DOMAIN plates' = DOMAIN plates
    BY <2>1, <2>2, SettleStore
  <2>5. Fitting(plates')
    BY <2>1, <2>2, SettleFits
  <2>6. IsLinks(links', plates')
    <3>1. IsLinks(links', plates)
      BY <2>1, <2>2, <2>3, MergeLinks
    <3> QED
      BY <2>4, <3>1 DEF IsLinks
  <2>7. told' = [m \in Mods |-> told'[m]]
    BY <1>0, <2>1 DEF StoresType
  <2> QED
    BY <1>0, <1>4, <2>4, <2>5, <2>6, <2>7 DEF Rebuild, StoresType, RestInv
<1>5. CASE Complete
  <2>1. IsStore(plates) /\ Fitting(plates) /\ IsLinks(links, plates)
    BY <1>0 DEF StoresType
  <2>2. IsStore(plates') /\ Fitting(plates') /\ IsLinks(links', plates')
    <3>1. CASE New = {}
      BY <1>0, <1>5, <2>1, <3>1, CompleteStep
    <3>2. CASE New # {}
      <4> DEFINE S == Extended(New)
      <4>1. IsStore(S) /\ Fitting(S) /\ IsLinks(links, S)
        BY <1>0, CompleteFacts
      <4>2. plates' = Settle(S, accumulated) /\ links' = Merge(links, S, accumulated)
        BY <1>0, <1>5, <3>2, CompleteStep
      <4> HIDE DEF S
      <4>3. IsStore(plates') /\ DOMAIN plates' = DOMAIN S /\ Fitting(plates')
        BY <4>1, <4>2, SettleStore, SettleFits
      <4>4. IsLinks(links', S)
        BY <4>1, <4>2, MergeLinks
      <4> QED
        BY <4>3, <4>4 DEF IsLinks
    <3> QED
      BY <3>1, <3>2
  <2>3. /\ accumulated' = {} /\ pc' = "idle"
        /\ UNCHANGED <<modules, unit, told, table>>
    BY <1>5 DEF Complete
  <2> QED
    BY <1>0, <2>2, <2>3 DEF StoresType, RestInv
<1>6. CASE Abort
  BY <1>0, <1>6 DEF Abort, Cut, StoresType, RestInv
<1>7. ASSUME NEW n \in 1..2, Batch(n) PROVE StoresType'
  <2>1. PICK R :
          /\ plates' = Settle(plates, R) /\ links' = Merge(links, plates, R)
          /\ accumulated' = accumulated \cup R
          /\ told' = IF unit \in Mods THEN [told EXCEPT ![unit] = @ \cup R] ELSE told
          /\ \A r \in R : r.source \in {"table", "registry"}
    BY <1>0, <1>7, BatchRecords
  <2>2. IsStore(plates) /\ Fitting(plates) /\ IsLinks(links, plates)
    BY <1>0 DEF StoresType
  <2>3. IsStore(plates') /\ DOMAIN plates' = DOMAIN plates
    BY <2>1, <2>2, SettleStore
  <2>4. Fitting(plates')
    BY <2>1, <2>2, SettleFits
  <2>5. IsLinks(links', plates')
    <3>1. IsLinks(links', plates)
      BY <2>1, <2>2, MergeLinks
    <3> QED
      BY <2>3, <3>1 DEF IsLinks
  <2>6. told' = [m \in Mods |-> told'[m]]
    <3>1. told = [m \in Mods |-> told[m]]
      BY <1>0 DEF StoresType
    <3> QED
      BY <2>1, <3>1
  <2>7. RestInv'
    BY <1>0, <1>7, RestShrinks DEF Batch, StoresType
  <2>8. pc = "scan" /\ UNCHANGED <<modules, pc, unit, table, last>>
    BY <1>7 DEF Batch
  <2>9. \A r \in accumulated' : r.source \in {"table", "registry"}
    BY <1>0, <2>1 DEF StoresType
  <2> QED
    BY <1>0, <2>3, <2>4, <2>5, <2>6, <2>7, <2>8, <2>9 DEF StoresType
<1>8. ASSUME NEW n \in 1..2, DataLost(n) PROVE StoresType'
  <2>1. RestInv'
    BY <1>0, <1>8, RestShrinks DEF DataLost, StoresType
  <2> QED
    BY <1>0, <1>8, <2>1 DEF DataLost, StoresType
<1>9. CASE Inventory
  <2>1. /\ IsStore(plates') /\ Fitting(plates')
        /\ \A p \in DOMAIN plates : p \in DOMAIN plates'
        /\ DOMAIN modules' \subseteq Mods /\ modules' \in [DOMAIN modules' -> ModuleEntry]
    BY <1>0, <1>9, InventoryKeeps
  <2>2. IsLinks(links', plates')
    BY <1>0, <1>9, <2>1 DEF Inventory, StoresType, IsLinks
  <2> QED
    BY <1>0, <1>9, <2>1, <2>2 DEF Inventory, StoresType, RestInv
<1>10. CASE Restart
  BY <1>0, <1>10 DEF Restart, Cut, StoresType, RestInv
<1>11. ASSUME NEW m \in Mods, Evict(m) PROVE StoresType'
  <2>1. DOMAIN modules' \subseteq Mods /\ modules' \in [DOMAIN modules' -> ModuleEntry]
    BY <1>0, <1>11 DEF Evict, StoresType
  <2> QED
    BY <1>0, <1>11, <2>1 DEF Evict, StoresType, RestInv
<1>12. ASSUME NEW m \in Mods, Reprogram(m) PROVE StoresType'
  <2>1. PICK t \in Tables[m] : table' = [table EXCEPT ![m] = t]
    BY <1>12 DEF Reprogram
  <2>2. DOMAIN table' = Mods /\ \A x \in Mods : table'[x] \in Tables[x]
    BY <1>0, <2>1 DEF StoresType
  <2> QED
    BY <1>0, <1>12, <2>2 DEF Reprogram, StoresType, RestInv
<1>13. ASSUME NEW e \in Editable, Edit(e) PROVE StoresType'
  <2>1. CASE e[1] \in DOMAIN plates /\ plates' = [plates EXCEPT ![e[1]].named = TRUE]
             /\ UNCHANGED modules
    <3>0. IsStore(plates) /\ Fitting(plates) /\ DOMAIN plates' = DOMAIN plates
      BY <1>0, <2>1 DEF StoresType
    <3>a. ASSUME NEW p \in DOMAIN plates
          PROVE  plates'[p] \in PlateEntry /\ plates'[p].layout = plates[p].layout
      <4>1. plates[p] \in PlateEntry
        BY <3>0 DEF IsStore
      <4>2. plates'[p] = plates[p] \/ plates'[p] = [plates[p] EXCEPT !.named = TRUE]
        BY <2>1
      <4> QED
        BY <4>1, <4>2 DEF PlateEntry
    <3>1. IsStore(plates') /\ Fitting(plates') /\ DOMAIN plates' = DOMAIN plates
      BY <2>1, <3>0, <3>a DEF IsStore, Fitting
    <3>2. IsLinks(links', plates')
      BY <1>0, <1>13, <3>1 DEF Edit, StoresType, IsLinks
    <3> QED
      BY <1>0, <1>13, <2>1, <3>1, <3>2 DEF Edit, StoresType, RestInv
  <2>2. CASE /\ e[1] \in DOMAIN modules /\ e[2] \in 0..Len(modules[e[1]].channels)
             /\ modules' = IF e[2] = 0 THEN [modules EXCEPT ![e[1]].named = TRUE]
                           ELSE [modules EXCEPT ![e[1]].channels[e[2]] = TRUE]
             /\ UNCHANGED plates
    <3> DEFINE a == e[1]
               c == modules[a].channels
               i == e[2]
    <3>a. modules[a] \in ModuleEntry /\ c \in Seq(Marks)
      BY <1>0, <2>2 DEF StoresType, ModuleEntry
    <3>b. \/ modules' = [modules EXCEPT ![a].named = TRUE]
          \/ i \in 1..Len(c) /\ modules' = [modules EXCEPT ![a].channels = [c EXCEPT ![i] = TRUE]]
      BY <2>2, <3>a
    <3>c. i \in 1..Len(c) => [c EXCEPT ![i] = TRUE] \in Seq(Marks)
      <4>1. TRUE \in Marks
        BY DEF Marks
      <4> QED
        BY <3>a, <4>1, MarkChannel
    <3> HIDE DEF c, i
    <3>d. [modules[a] EXCEPT !.named = TRUE] \in ModuleEntry
      BY <3>a DEF ModuleEntry
    <3>e. i \in 1..Len(c) => [modules[a] EXCEPT !.channels = [c EXCEPT ![i] = TRUE]] \in ModuleEntry
      BY <3>a, <3>c DEF ModuleEntry
    <3>1. DOMAIN modules' \subseteq Mods /\ modules' \in [DOMAIN modules' -> ModuleEntry]
      <4>1. DOMAIN modules \subseteq Mods /\ modules \in [DOMAIN modules -> ModuleEntry]
        BY <1>0 DEF StoresType
      <4>2. PICK x \in ModuleEntry : modules' = [modules EXCEPT ![a] = x]
        BY <3>b, <3>d, <3>e
      <4> QED
        BY <4>1, <4>2
    <3> QED
      BY <1>0, <1>13, <2>2, <3>1 DEF Edit, StoresType, RestInv
  <2> QED
    BY <1>13, <2>1, <2>2 DEF Edit
<1>14. CASE UNCHANGED vars
  BY <1>0, <1>14 DEF StoresType, RestInv
<1> QED
  BY <1>1, <1>2, <1>3, <1>4, <1>5, <1>6, <1>7, <1>8, <1>9, <1>10, <1>11, <1>12, <1>13, <1>14
     DEF Next, Run, Event

\* What the user named is kept while no entry is taken away, unnamed or shortened.
LEMMA EditsStay ==
    ASSUME EditsKept, mine' \subseteq mine,
           \A p \in DOMAIN plates : p \in DOMAIN plates' /\ plates'[p].named = plates[p].named,
           \A m \in DOMAIN modules :
               /\ m \in DOMAIN modules' /\ modules'[m].named = modules[m].named
               /\ \A i \in DOMAIN modules[m].channels :
                    /\ i \in DOMAIN modules'[m].channels
                    /\ modules'[m].channels[i] = modules[m].channels[i]
    PROVE  EditsKept'
<1> SUFFICES ASSUME NEW e \in mine'
             PROVE  IF e[1] \in Plates THEN e[1] \in DOMAIN plates' /\ plates'[e[1]].named
                    ELSE /\ e[1] \in DOMAIN modules'
                         /\ IF e[2] = 0 THEN modules'[e[1]].named
                            ELSE /\ e[2] \in DOMAIN modules'[e[1]].channels
                                 /\ modules'[e[1]].channels[e[2]]
  BY DEF EditsKept
<1>1. IF e[1] \in Plates THEN e[1] \in DOMAIN plates /\ plates[e[1]].named
      ELSE /\ e[1] \in DOMAIN modules
           /\ IF e[2] = 0 THEN modules[e[1]].named
              ELSE /\ e[2] \in DOMAIN modules[e[1]].channels
                   /\ modules[e[1]].channels[e[2]]
  BY DEF EditsKept
<1>2. CASE e[1] \in Plates
  BY <1>1, <1>2
<1>3. CASE e[1] \notin Plates
  BY <1>1, <1>3
<1> QED
  BY <1>2, <1>3

\* No step takes away what the user named.
LEMMA StepEdits ==
    StoresInv /\ [Next]_vars => EditsKept'
<1> SUFFICES ASSUME StoresInv, [Next]_vars PROVE EditsKept'
  OBVIOUS
<1> USE DEF vars, storeVars, sessionVars, runVars, histVars
<1>0. StoresType /\ DecodedInv /\ EditsKept
  BY DEF StoresInv
<1>a. IsStore(plates)
  BY <1>0 DEF StoresType
<1>1. CASE RunBegin
  BY <1>0, <1>1, EditsStay DEF RunBegin
<1>2. CASE ScanBegin
  BY <1>0, <1>2, EditsStay DEF ScanBegin
<1>3. CASE ScanDone
  <2>1. CASE UNCHANGED modules
    BY <1>0, <1>3, <2>1, EditsStay DEF ScanDone
  <2>2. CASE modules' = [modules EXCEPT ![unit].readAt = TRUE]
    <3>1. ASSUME NEW m \in DOMAIN modules
          PROVE  /\ m \in DOMAIN modules' /\ modules'[m].named = modules[m].named
                 /\ modules'[m].channels = modules[m].channels
      <4>1. modules[m] \in ModuleEntry
        BY <1>0 DEF StoresType
      <4>2. modules'[m] = modules[m] \/ modules'[m] = [modules[m] EXCEPT !.readAt = TRUE]
        BY <2>2
      <4> QED
        BY <2>2, <4>1, <4>2 DEF ModuleEntry
    <3>2. plates' = plates /\ mine' = mine
      BY <1>3 DEF ScanDone
    <3> QED
      BY <1>0, <3>1, <3>2, EditsStay
  <2> QED
    BY <1>3, <2>1, <2>2 DEF ScanDone
<1>4. CASE Rebuild
  <2>1. \A p \in DOMAIN plates : p \in DOMAIN plates' /\ plates'[p].named = plates[p].named
    <3>1. PICK R : plates' = Settle(plates, R)
      BY <1>4 DEF Rebuild
    <3> QED
      BY <1>a, <3>1, SettleStore
  <2> QED
    BY <1>0, <1>4, <2>1, EditsStay DEF Rebuild
<1>5. CASE Complete
  <2>1. \A p \in DOMAIN plates : p \in DOMAIN plates' /\ plates'[p].named = plates[p].named
    <3>1. CASE New = {}
      BY <1>0, <1>5, <3>1, CompleteStep
    <3>2. CASE New # {}
      <4>1. plates' = Settle(Extended(New), accumulated)
        BY <1>0, <1>5, <3>2, CompleteStep
      <4>2. /\ IsStore(Extended(New))
            /\ \A p \in DOMAIN plates :
                 p \in DOMAIN Extended(New) /\ Extended(New)[p] = plates[p]
        BY <1>0, CompleteFacts
      <4> QED
        BY <4>1, <4>2, SettleStore
    <3> QED
      BY <3>1, <3>2
  <2> QED
    BY <1>0, <1>5, <2>1, EditsStay DEF Complete
<1>6. CASE Abort
  BY <1>0, <1>6, EditsStay DEF Abort, Cut
<1>7. ASSUME NEW n \in 1..2, Batch(n) PROVE EditsKept'
  <2>1. \A p \in DOMAIN plates : p \in DOMAIN plates' /\ plates'[p].named = plates[p].named
    <3>1. PICK R : plates' = Settle(plates, R)
      BY <1>0, <1>7, BatchRecords
    <3> QED
      BY <1>a, <3>1, SettleStore
  <2> QED
    BY <1>0, <1>7, <2>1, EditsStay DEF Batch
<1>8. ASSUME NEW n \in 1..2, DataLost(n) PROVE EditsKept'
  BY <1>0, <1>8, EditsStay DEF DataLost
<1>9. CASE Inventory
  BY <1>0, <1>9, InventoryKeeps, EditsStay DEF Inventory
<1>10. CASE Restart
  BY <1>0, <1>10, EditsStay DEF Restart, Cut
<1>11. ASSUME NEW m \in Mods, Evict(m) PROVE EditsKept'
  <2>1. /\ plates' = plates /\ mine' = {e \in mine : e[1] # m}
        /\ DOMAIN modules' = DOMAIN modules \ {m}
        /\ \A x \in DOMAIN modules' : modules'[x] = modules[x]
    BY <1>11 DEF Evict
  <2> SUFFICES ASSUME NEW e \in mine'
               PROVE  IF e[1] \in Plates THEN e[1] \in DOMAIN plates' /\ plates'[e[1]].named
                      ELSE /\ e[1] \in DOMAIN modules'
                           /\ IF e[2] = 0 THEN modules'[e[1]].named
                              ELSE /\ e[2] \in DOMAIN modules'[e[1]].channels
                                   /\ modules'[e[1]].channels[e[2]]
    BY DEF EditsKept
  <2>2. e \in mine /\ e[1] # m
    BY <2>1
  <2> QED
    BY <1>0, <2>1, <2>2 DEF EditsKept
<1>12. ASSUME NEW m \in Mods, Reprogram(m) PROVE EditsKept'
  BY <1>0, <1>12, EditsStay DEF Reprogram
<1>13. ASSUME NEW e \in Editable, Edit(e) PROVE EditsKept'
  <2> SUFFICES ASSUME NEW f \in mine'
               PROVE  IF f[1] \in Plates THEN f[1] \in DOMAIN plates' /\ plates'[f[1]].named
                      ELSE /\ f[1] \in DOMAIN modules'
                           /\ IF f[2] = 0 THEN modules'[f[1]].named
                              ELSE /\ f[2] \in DOMAIN modules'[f[1]].channels
                                   /\ modules'[f[1]].channels[f[2]]
    BY DEF EditsKept
  <2>1. f \in mine \/ f = e
    BY <1>13 DEF Edit
  <2>2. f \in mine => IF f[1] \in Plates THEN f[1] \in DOMAIN plates /\ plates[f[1]].named
                      ELSE /\ f[1] \in DOMAIN modules
                           /\ IF f[2] = 0 THEN modules[f[1]].named
                              ELSE /\ f[2] \in DOMAIN modules[f[1]].channels
                                   /\ modules[f[1]].channels[f[2]]
    BY <1>0 DEF EditsKept
  <2>3. DOMAIN plates \subseteq Plates /\ DOMAIN modules \cap Plates = {}
    BY <1>0, StoresAssumption DEF StoresType, IsStore
  <2>4. \A p \in DOMAIN plates : plates[p] \in PlateEntry
    BY <1>a DEF IsStore
  <2>5. \A m \in DOMAIN modules : modules[m] \in ModuleEntry
    BY <1>0 DEF StoresType
  <2>6. CASE e[1] \in DOMAIN plates /\ e[2] = 0 /\ UNCHANGED modules
             /\ plates' = [plates EXCEPT ![e[1]].named = TRUE]
    <3>1. \A p \in DOMAIN plates : /\ p \in DOMAIN plates'
                                   /\ p = e[1] => plates'[p].named
                                   /\ p # e[1] => plates'[p] = plates[p]
      BY <2>4, <2>6 DEF PlateEntry
    <3> QED
      BY <2>1, <2>2, <2>3, <2>6, <3>1
  <2>7. CASE /\ e[1] \in DOMAIN modules /\ e[2] \in 0..Len(modules[e[1]].channels)
             /\ modules' = IF e[2] = 0 THEN [modules EXCEPT ![e[1]].named = TRUE]
                           ELSE [modules EXCEPT ![e[1]].channels[e[2]] = TRUE]
             /\ UNCHANGED plates
    <3> DEFINE a == e[1]
               i == e[2]
               c == modules[a].channels
    <3>1. modules[a] \in ModuleEntry /\ c \in Seq(Marks) /\ DOMAIN c = 1..Len(c)
      BY <2>5, <2>7 DEF ModuleEntry
    <3>2. \A m \in DOMAIN modules : m \in DOMAIN modules' /\ (m # a => modules'[m] = modules[m])
      BY <2>7
    <3>3. CASE i = 0
      <4>1. modules'[a] = [modules[a] EXCEPT !.named = TRUE]
        BY <2>7, <3>3
      <4>2. modules'[a].named /\ modules'[a].channels = c
        BY <3>1, <4>1 DEF ModuleEntry
      <4> HIDE DEF c
      <4> QED
        BY <2>1, <2>2, <2>3, <2>7, <3>2, <3>3, <4>2 DEF c
    <3>4. CASE i # 0
      <4>1. i \in DOMAIN c
        BY <2>7, <3>1, <3>4
      <4>2. modules'[a] = [modules[a] EXCEPT !.channels = [c EXCEPT ![i] = TRUE]]
        BY <2>7, <3>4
      <4>3. modules'[a].named = modules[a].named /\ modules'[a].channels = [c EXCEPT ![i] = TRUE]
        BY <3>1, <4>2 DEF ModuleEntry
      <4>4. /\ i \in DOMAIN modules'[a].channels /\ modules'[a].channels[i]
            /\ \A k \in DOMAIN c : k \in DOMAIN modules'[a].channels
            /\ \A k \in DOMAIN c : c[k] => modules'[a].channels[k]
        BY <4>1, <4>3
      <4>5. CASE f = e
        BY <2>3, <2>7, <3>2, <3>4, <4>4, <4>5
      <4>6. CASE f \in mine /\ f[1] = a
        BY <2>2, <2>3, <2>7, <3>2, <4>3, <4>4, <4>6
      <4>7. CASE f \in mine /\ f[1] # a
        BY <2>2, <2>7, <3>2, <4>7
      <4> QED
        BY <2>1, <4>5, <4>6, <4>7
    <3> QED
      BY <3>3, <3>4
  <2> QED
    BY <1>13, <2>6, <2>7 DEF Edit
<1>14. CASE UNCHANGED vars
  BY <1>0, <1>14, EditsStay
<1> QED
  BY <1>1, <1>2, <1>3, <1>4, <1>5, <1>6, <1>7, <1>8, <1>9, <1>10, <1>11, <1>12, <1>13, <1>14
     DEF Next, Run, Event

\* The rule of TablesRule for one link, given what is marked, torn and told.
Due(q) ==
    /\ q.mod \in DOMAIN modules /\ modules[q.mod].readAt /\ q.mod \notin torn
    /\ ~(pc = "rebuild" /\ unit = q.mod)
ToldOf(q) == \E r \in told[q.mod] : r.plate = q.plate /\ r.chan = q.chan /\ r.mode = q.mode

\* No step leaves a link of a module read in full that its table did not tell of.
LEMMA StepTables ==
    StoresInv /\ [Next]_vars => TablesRule'
<1> SUFFICES ASSUME StoresInv, [Next]_vars,
                    NEW q \in DOMAIN links', Due(q)'
             PROVE  ToldOf(q)'
  BY DEF TablesRule, Due, ToldOf
<1> USE DEF vars, storeVars, sessionVars, runVars, histVars
<1>0. StoresType /\ DecodedInv
  BY DEF StoresInv
<1>t. \A c \in DOMAIN links : Due(c) => ToldOf(c)
  BY DEF StoresInv, TablesRule, Due, ToldOf
<1>a. IsStore(plates) /\ IsLinks(links, plates) /\ told = [m \in Mods |-> told[m]]
      /\ DOMAIN modules \subseteq Mods
  BY <1>0 DEF StoresType
<1>s. ASSUME UNCHANGED <<links, told>>, Due(q) PROVE ToldOf(q)'
  BY <1>t, <1>s DEF ToldOf
<1>1. CASE RunBegin
  BY <1>1, <1>s DEF RunBegin, Due
<1>2. CASE ScanBegin
  BY <1>2, <1>s DEF ScanBegin, Due
<1>3. CASE ScanDone
  <2>1. UNCHANGED <<links, told, torn>> /\ pc = "scan"
    BY <1>3 DEF ScanDone
  <2>2. CASE pc' = "rebuild" /\ unit' = unit /\ modules' = [modules EXCEPT ![unit].readAt = TRUE]
    <3>1. q.mod # unit /\ q.mod \in DOMAIN modules /\ modules[q.mod].readAt
      BY <2>2 DEF Due
    <3> QED
      BY <1>s, <2>1, <3>1 DEF Due
  <2>3. CASE UNCHANGED modules
    BY <1>s, <2>1, <2>3 DEF Due
  <2> QED
    BY <1>3, <2>2, <2>3 DEF ScanDone
<1>4. CASE Rebuild
  <2> DEFINE own == {r \in accumulated : r.mod = unit /\ r.source = "table"}
  <2>1. /\ plates' = Settle(plates, own) /\ links' = Merge(Strip(links, unit), plates, own)
        /\ told' = [told EXCEPT ![unit] = own]
        /\ pc = "rebuild" /\ torn' = torn \ {unit} /\ UNCHANGED modules
    BY <1>4 DEF Rebuild
  <2>2. unit \in Mods /\ told'[unit] = own /\ \A m \in Mods : m # unit => told'[m] = told[m]
    BY <1>0, <1>a, <2>1 DEF StoresType
  <2>3. IsLinks(Strip(links, unit), plates)
    BY <1>a DEF Strip, IsLinks
  <2>4. q.mod \in Mods
    BY <1>a, <2>1 DEF Due
  <2>5. Ruled(own) \subseteq own
    BY DEF Ruled
  <2>6. \A r \in own : r.mod = unit
    OBVIOUS
  <2> HIDE DEF own
  <2>7. \/ \E c \in DOMAIN Strip(links, unit) : Like(q, c)
        \/ \E r \in Ruled(own) : Like(q, r)
    BY <1>a, <2>1, <2>3, MergeLinks
  <2>8. CASE \E r \in Ruled(own) : Like(q, r)
    <3>1. PICK r \in own : Like(q, r)
      BY <2>5, <2>8
    <3>2. q.mod = unit /\ q.plate = r.plate /\ q.chan = r.chan /\ q.mode = r.mode
      BY <2>6, <3>1 DEF Like
    <3> QED
      BY <2>2, <3>2 DEF ToldOf
  <2>9. CASE \E c \in DOMAIN Strip(links, unit) : Like(q, c)
    <3>1. PICK c \in DOMAIN links : Like(q, c) /\ c.mod # unit
      BY <2>9 DEF Strip
    <3>2. Due(c)
      BY <2>1, <3>1 DEF Due, Like
    <3>3. ToldOf(c)
      BY <1>t, <3>2
    <3> QED
      BY <2>2, <2>4, <3>1, <3>3 DEF ToldOf, Like
  <2> QED
    BY <2>7, <2>8, <2>9
<1>5. CASE Complete
  <2>1. UNCHANGED <<modules, torn, told>> /\ pc = "next"
    BY <1>5 DEF Complete
  <2>2. Due(q)
    BY <2>1 DEF Due
  <2>3. CASE New = {}
    <3>1. links' = links
      BY <1>0, <1>5, <2>3, CompleteStep
    <3> QED
      BY <1>s, <2>1, <2>2, <3>1
  <2>4. CASE New # {}
    <3>1. links' = Merge(links, Extended(New), accumulated)
      BY <1>0, <1>5, <2>4, CompleteStep
    <3>2. IsStore(Extended(New)) /\ IsLinks(links, Extended(New))
      BY <1>0, CompleteFacts
    <3>3. (\E c \in DOMAIN links : Like(q, c)) \/ (\E r \in Ruled(accumulated) : Like(q, r))
      BY <3>1, <3>2, MergeLinks
    <3>4. CASE \E c \in DOMAIN links : Like(q, c)
      <4>1. PICK c \in DOMAIN links : Like(q, c)
        BY <3>4
      <4>2. Due(c)
        BY <2>2, <4>1 DEF Due, Like
      <4> QED
        BY <1>t, <2>1, <4>1, <4>2 DEF ToldOf, Like
    <3>5. CASE \E r \in Ruled(accumulated) : Like(q, r)
      <4>1. PICK r \in Ruled(accumulated) : Like(q, r)
        BY <3>5
      <4>2. r.mod \in Authoritative
        BY <2>2, <4>1 DEF Due, Like, Authoritative
      <4>3. r \in accumulated /\ r.source # "registry"
        BY <4>1, <4>2 DEF Ruled
      <4>4. r.source = "table"
        BY <1>0, <4>3 DEF StoresType
      <4>5. r \in told[r.mod]
        BY <1>0, <4>3, <4>4 DEF DecodedInv, OfTables
      <4> QED
        BY <2>1, <4>1, <4>5 DEF ToldOf, Like
    <3> QED
      BY <3>3, <3>4, <3>5
  <2> QED
    BY <2>3, <2>4
<1>6. CASE Abort
  <2>1. Due(q)
    BY <1>6 DEF Abort, Cut, Due
  <2> QED
    BY <1>6, <1>s, <2>1 DEF Abort, Cut
<1>7. ASSUME NEW n \in 1..2, Batch(n) PROVE ToldOf(q)'
  <2>1. PICK R :
          /\ links' = Merge(links, plates, R)
          /\ told' = IF unit \in Mods THEN [told EXCEPT ![unit] = @ \cup R] ELSE told
          /\ \A r \in R : r.source \in {"table", "registry"}
          /\ \A r \in OfTables(R) : unit \in Mods /\ r.mod = unit
    BY <1>0, <1>7, BatchRecords
  <2>2. UNCHANGED <<modules, torn, pc, unit>>
    BY <1>7 DEF Batch
  <2>3. Due(q)
    BY <2>2 DEF Due
  <2>4. (\E c \in DOMAIN links : Like(q, c)) \/ (\E r \in Ruled(R) : Like(q, r))
    BY <1>a, <2>1, MergeLinks
  <2>5. \A m \in Mods : told[m] \subseteq told'[m]
    BY <1>a, <2>1
  <2>6. q.mod \in Mods
    BY <1>a, <2>3 DEF Due
  <2>7. CASE \E c \in DOMAIN links : Like(q, c)
    <3>1. PICK c \in DOMAIN links : Like(q, c)
      BY <2>7
    <3>2. Due(c)
      BY <2>3, <3>1 DEF Due, Like
    <3> QED
      BY <1>t, <2>5, <2>6, <3>1, <3>2 DEF ToldOf, Like
  <2>8. CASE \E r \in Ruled(R) : Like(q, r)
    <3>1. PICK r \in Ruled(R) : Like(q, r)
      BY <2>8
    <3>2. r.mod \in Authoritative
      BY <2>3, <3>1 DEF Due, Like, Authoritative
    <3>3. r \in R /\ r.source # "registry"
      BY <3>1, <3>2 DEF Ruled
    <3>4. r \in OfTables(R)
      BY <2>1, <3>3 DEF OfTables
    <3>5. r \in told'[r.mod]
      BY <1>a, <2>1, <3>3, <3>4
    <3> QED
      BY <3>1, <3>5 DEF ToldOf, Like
  <2> QED
    BY <2>4, <2>7, <2>8
<1>8. ASSUME NEW n \in 1..2, DataLost(n) PROVE ToldOf(q)'
  BY <1>8, <1>s DEF DataLost, Due
<1>9. CASE Inventory
  <2>1. UNCHANGED <<links, told, torn, pc, unit>>
    BY <1>9 DEF Inventory
  <2>2. q.mod \in DOMAIN modules /\ modules[q.mod].readAt
    BY <1>0, <1>9, InventoryKeeps DEF Due
  <2> QED
    BY <1>s, <2>1, <2>2 DEF Due
<1>10. CASE Restart
  <2>1. Due(q)
    BY <1>10 DEF Restart, Cut, Due
  <2> QED
    BY <1>10, <1>s, <2>1 DEF Restart, Cut
<1>11. ASSUME NEW m \in Mods, Evict(m) PROVE ToldOf(q)'
  BY <1>11, <1>s DEF Evict, Due
<1>12. ASSUME NEW m \in Mods, Reprogram(m) PROVE ToldOf(q)'
  BY <1>12, <1>s DEF Reprogram, Due
<1>13. ASSUME NEW e \in Editable, Edit(e) PROVE ToldOf(q)'
  <2>1. UNCHANGED <<links, told, torn, pc, unit>>
    BY <1>13 DEF Edit
  <2>2. q.mod \in DOMAIN modules /\ modules[q.mod].readAt
    <3>1. CASE UNCHANGED modules
      BY <3>1 DEF Due
    <3>2. CASE /\ e[1] \in DOMAIN modules
               /\ modules' = IF e[2] = 0 THEN [modules EXCEPT ![e[1]].named = TRUE]
                             ELSE [modules EXCEPT ![e[1]].channels[e[2]] = TRUE]
      <4>1. q.mod \in DOMAIN modules
        BY <3>2 DEF Due
      <4>2. modules[q.mod] \in ModuleEntry
        BY <1>0, <4>1 DEF StoresType
      <4>3. \/ modules'[q.mod] = modules[q.mod]
            \/ modules'[q.mod] = [modules[q.mod] EXCEPT !.named = TRUE]
            \/ modules'[q.mod] = [modules[q.mod] EXCEPT !.channels[e[2]] = TRUE]
        BY <3>2, <4>1
      <4>4. modules'[q.mod].readAt = modules[q.mod].readAt
        BY <4>2, <4>3 DEF ModuleEntry
      <4> QED
        BY <4>1, <4>4 DEF Due
    <3> QED
      BY <1>13, <3>1, <3>2 DEF Edit
  <2> QED
    BY <1>s, <2>1, <2>2 DEF Due
<1>14. CASE UNCHANGED vars
  BY <1>14, <1>s DEF Due
<1> QED
  BY <1>1, <1>2, <1>3, <1>4, <1>5, <1>6, <1>7, <1>8, <1>9, <1>10, <1>11, <1>12, <1>13, <1>14
     DEF Next, Run, Event

\* Every record of the run stays filed, or kept for its end.
LEMMA StepDecoded ==
    StoresInv /\ [Next]_vars => DecodedInv'
<1> SUFFICES ASSUME StoresInv, [Next]_vars PROVE DecodedInv'
  OBVIOUS
<1> USE DEF vars, storeVars, sessionVars, runVars, histVars
<1>0. StoresType /\ DecodedInv
  BY DEF StoresInv
<1>a. IsStore(plates) /\ Fitting(plates) /\ IsLinks(links, plates)
      /\ told = [m \in Mods |-> told[m]]
  BY <1>0 DEF StoresType
<1>s. ASSUME UNCHANGED <<plates, links, told, table, unmatched, accumulated>> PROVE DecodedInv'
  BY <1>0, <1>s DEF DecodedInv, OfTables, Programmed, Settled, Filed
<1>e. ASSUME accumulated' = {} PROVE DecodedInv'
  BY <1>e DEF DecodedInv, OfTables
<1>1. CASE RunBegin
  BY <1>1, <1>s DEF RunBegin
<1>2. CASE ScanBegin
  BY <1>2, <1>s DEF ScanBegin
<1>3. CASE ScanDone
  BY <1>3, <1>s DEF ScanDone
<1>4. CASE Rebuild
  <2> DEFINE own == {r \in accumulated : r.mod = unit /\ r.source = "table"}
             L == Strip(links, unit)
  <2>1. /\ plates' = Settle(plates, own) /\ links' = Merge(L, plates, own)
        /\ told' = [told EXCEPT ![unit] = own] /\ unit \in Mods
        /\ UNCHANGED <<accumulated, unmatched, table>>
    BY <1>0, <1>4 DEF Rebuild, StoresType
  <2>2. IsLinks(L, plates)
    BY <1>a DEF Strip, IsLinks
  <2>3. OfTables(own) \subseteq OfTables(accumulated)
    BY DEF OfTables
  <2>4. Agree(accumulated) /\ KeysTyped(accumulated)
    BY <1>0, ProgrammedAgree DEF DecodedInv
  <2>5. DOMAIN plates' = DOMAIN plates
    BY <1>a, <2>1, SettleStore
  <2> SUFFICES ASSUME NEW r \in OfTables(accumulated)
               PROVE  /\ Programmed(r)' /\ r \in told'[r.mod]
                      /\ IF r.plate \in DOMAIN plates'
                         THEN Settled(plates', r) /\ Filed(links', plates', r)
                         ELSE ~r.byFrame /\ r.plate \in unmatched'
    BY <2>1 DEF DecodedInv, OfTables, Settled, Filed
  <2>6. /\ Programmed(r) /\ r \in told[r.mod]
        /\ IF r.plate \in DOMAIN plates THEN Settled(plates, r) /\ Filed(links, plates, r)
           ELSE ~r.byFrame /\ r.plate \in unmatched
    BY <1>0 DEF DecodedInv
  <2>7. Programmed(r)'
    BY <2>1, <2>6 DEF Programmed
  <2>8. r.mod = unit => r \in own /\ r \in OfTables(own)
    BY DEF OfTables
  <2>9. r \in told'[r.mod]
    BY <1>a, <2>1, <2>6, <2>8 DEF Programmed
  <2>10. r.mod # unit /\ Filed(links, plates, r) => Filed(L, plates, r)
    BY DEF Filed, Strip, Like
  <2> HIDE DEF own, L
  <2>11. ASSUME r.plate \in DOMAIN plates
         PROVE  Settled(plates', r) /\ Filed(links', plates', r)
    <3>1. Settled(plates, r) /\ Filed(links, plates, r)
      BY <2>6, <2>11
    <3>2. Settled(plates', r)
      BY <1>a, <2>1, <2>3, <2>4, <2>11, <3>1, SettledStays
    <3>3. CASE r.mod = unit
      <4>1. r.key \in 0..3
        BY <2>4 DEF KeysTyped
      <4> QED
        BY <1>a, <2>1, <2>2, <2>8, <2>11, <3>2, <3>3, <4>1, MergeFiles
    <3>4. CASE r.mod # unit
      BY <1>a, <2>1, <2>2, <2>10, <2>11, <3>1, <3>2, <3>4, FiledStays
    <3> QED
      BY <3>2, <3>3, <3>4
  <2> QED
    BY <2>1, <2>5, <2>6, <2>7, <2>9, <2>11
<1>5. CASE Complete
  BY <1>5, <1>e DEF Complete
<1>6. CASE Abort
  BY <1>6, <1>e DEF Abort, Cut
<1>7. ASSUME NEW n \in 1..2, Batch(n) PROVE DecodedInv'
  <2>1. PICK R :
          /\ plates' = Settle(plates, R) /\ links' = Merge(links, plates, R)
          /\ accumulated' = accumulated \cup R
          /\ unmatched' = unmatched \cup Residue(plates, R)
          /\ told' = IF unit \in Mods THEN [told EXCEPT ![unit] = @ \cup R] ELSE told
          /\ \A r \in OfTables(R) :
               /\ unit \in Mods /\ r.mod = unit /\ Programmed(r)
               /\ r.plate \notin DOMAIN plates => ~r.byFrame
    BY <1>0, <1>7, BatchRecords
  <2> DEFINE A == accumulated \cup R
  <2>2. UNCHANGED table
    BY <1>7 DEF Batch
  <2>3. \A r \in OfTables(A) : r \in OfTables(accumulated) \/ r \in OfTables(R)
    BY DEF OfTables
  <2>4. \A r \in OfTables(A) : Programmed(r)
    BY <1>0, <2>1, <2>3 DEF DecodedInv
  <2>5. Agree(A) /\ KeysTyped(A)
    BY <1>0, <2>4, ProgrammedAgree
  <2>6. OfTables(R) \subseteq OfTables(A) /\ OfTables(R) \subseteq R
    BY DEF OfTables
  <2>7. DOMAIN plates' = DOMAIN plates
    BY <1>a, <2>1, SettleStore
  <2>8. accumulated' = A
    BY <2>1
  <2> HIDE DEF A
  <2> SUFFICES ASSUME NEW r \in OfTables(A)
               PROVE  /\ Programmed(r)' /\ r \in told'[r.mod]
                      /\ IF r.plate \in DOMAIN plates'
                         THEN Settled(plates', r) /\ Filed(links', plates', r)
                         ELSE ~r.byFrame /\ r.plate \in unmatched'
    BY <2>8 DEF DecodedInv, OfTables, Settled, Filed
  <2>9. Programmed(r)' /\ r.mod \in Mods
    BY <2>2, <2>4 DEF Programmed
  <2>10. r.key \in 0..3
    BY <2>5 DEF KeysTyped
  <2>11. CASE r \in OfTables(R)
    <3>1. r \in R /\ unit \in Mods /\ r.mod = unit
          /\ (r.plate \notin DOMAIN plates => ~r.byFrame)
      BY <2>1, <2>6, <2>11
    <3>2. r \in told'[r.mod]
      BY <1>a, <2>1, <3>1
    <3>3. ASSUME r.plate \in DOMAIN plates
          PROVE  Settled(plates', r) /\ Filed(links', plates', r)
      <4>1. Settled(plates', r)
        BY <1>a, <2>1, <2>5, <2>6, <3>1, <3>3, SettledStays
      <4> QED
        BY <1>a, <2>1, <2>10, <2>11, <3>3, <4>1, MergeFiles
    <3>4. ASSUME r.plate \notin DOMAIN plates
          PROVE  ~r.byFrame /\ r.plate \in unmatched'
      <4>1. ~r.byFrame
        BY <3>1, <3>4
      <4>2. Resolve(Settle(plates, R), r) = {}
        BY <2>1, <2>7, <3>4, ResolveUnknown
      <4>3. r \in Ruled(R)
        BY <2>11, <3>1 DEF Ruled, OfTables
      <4>4. r.plate \in Residue(plates, R)
        BY <4>1, <4>2, <4>3 DEF Residue
      <4> QED
        BY <2>1, <4>1, <4>4
    <3> QED
      BY <2>7, <2>9, <3>2, <3>3, <3>4
  <2>12. CASE r \in OfTables(accumulated)
    <3>1. /\ r \in told[r.mod]
          /\ IF r.plate \in DOMAIN plates THEN Settled(plates, r) /\ Filed(links, plates, r)
             ELSE ~r.byFrame /\ r.plate \in unmatched
      BY <1>0, <2>12 DEF DecodedInv
    <3>2. r \in told'[r.mod]
      BY <1>a, <2>1, <2>9, <3>1
    <3>3. ASSUME r.plate \in DOMAIN plates
          PROVE  Settled(plates', r) /\ Filed(links', plates', r)
      <4>1. Settled(plates', r)
        BY <1>a, <2>1, <2>5, <2>6, <3>1, <3>3, SettledStays
      <4> QED
        BY <1>a, <2>1, <3>1, <3>3, <4>1, FiledStays
    <3> QED
      BY <2>1, <2>7, <2>9, <3>1, <3>2, <3>3
  <2> QED
    BY <2>3, <2>11, <2>12
<1>8. ASSUME NEW n \in 1..2, DataLost(n) PROVE DecodedInv'
  BY <1>8, <1>s DEF DataLost
<1>i. ASSUME pc = "idle", UNCHANGED accumulated PROVE DecodedInv'
  BY <1>0, <1>e, <1>i DEF StoresType
<1>9. CASE Inventory
  BY <1>9, <1>i DEF Inventory
<1>10. CASE Restart
  BY <1>10, <1>e DEF Restart, Cut
<1>11. ASSUME NEW m \in Mods, Evict(m) PROVE DecodedInv'
  BY <1>11, <1>i DEF Evict
<1>12. ASSUME NEW m \in Mods, Reprogram(m) PROVE DecodedInv'
  BY <1>12, <1>i DEF Reprogram
<1>13. ASSUME NEW e \in Editable, Edit(e) PROVE DecodedInv'
  BY <1>13, <1>i DEF Edit
<1>14. CASE UNCHANGED vars
  BY <1>14, <1>s
<1> QED
  BY <1>1, <1>2, <1>3, <1>4, <1>5, <1>6, <1>7, <1>8, <1>9, <1>10, <1>11, <1>12, <1>13, <1>14
     DEF Next, Run, Event

\* Codes of one set are no more than those of a larger one.
LEMMA FewerCodes ==
    ASSUME NEW C, NEW D, C \subseteq D \cap Codes, Cardinality(D \cap Codes) < Threshold
    PROVE  Cardinality(C) < Threshold
<1>1. IsFiniteSet(D \cap Codes)
  <2>1. D \cap Codes \subseteq Plates
    BY DEF Codes
  <2> QED
    BY <2>1, StoresAssumption, FS_Subset
<1>2. Cardinality(C) <= Cardinality(D \cap Codes)
      /\ IsFiniteSet(C)
  BY <1>1, FS_Subset
<1>3. Cardinality(C) \in Nat /\ Cardinality(D \cap Codes) \in Nat /\ Threshold \in Nat
  BY <1>1, <1>2, FS_CardinalityType, StoresAssumption
<1> QED
  BY <1>2, <1>3

\* A run that completes leaves every record of its tables filed, a central function,
\* or owed nothing.
LEMMA CompletePlaces ==
    ASSUME StoresType, DecodedInv, Complete
    PROVE  PlacedInv'
<1> DEFINE S == Extended(New)
<1>1. /\ plates' = IF New = {} THEN plates ELSE Settle(S, accumulated)
      /\ links' = IF New = {} THEN links ELSE Merge(links, S, accumulated)
      /\ owed' = DOMAIN plates \cup New
      /\ broadcasts' = Central /\ last' = OfTables(accumulated)
  BY CompleteStep
<1>2. /\ IsStore(S) /\ Fitting(S) /\ IsLinks(links, S)
      /\ DOMAIN S = DOMAIN plates \cup New
      /\ \A p \in DOMAIN plates : S[p] = plates[p]
      /\ \A p \in New : Class[p] \in {"bank", "logic", "code"}
  BY CompleteFacts
<1>3. Agree(accumulated) /\ KeysTyped(accumulated)
      /\ \A r \in OfTables(accumulated) : r.plate \in Plates
  BY ProgrammedAgree DEF DecodedInv
<1>4. DOMAIN plates' = DOMAIN plates \cup New
  BY <1>1, <1>2, SettleStore
<1>5. Virtual \subseteq New \cup DOMAIN plates /\ Remote \subseteq New \cup DOMAIN plates
  BY DEF New
<1> HIDE DEF S
<1>6. ASSUME NEW r \in OfTables(accumulated), r.plate \in DOMAIN plates
      PROVE  Filed(links', plates', r)
  <2>1. Settled(plates, r) /\ Filed(links, plates, r)
    BY <1>6 DEF DecodedInv
  <2>2. CASE New = {}
    BY <1>1, <2>1, <2>2
  <2>3. CASE New # {}
    <3>1. Settled(S, r) /\ Filed(links, S, r) /\ r.plate \in DOMAIN S
      BY <1>2, <1>6, <2>1 DEF Settled, Filed
    <3>2. OfTables(accumulated) \subseteq OfTables(accumulated)
      OBVIOUS
    <3>3. Settled(Settle(S, accumulated), r)
      BY <1>2, <1>3, <3>1, <3>2, SettledStays
    <3> QED
      BY <1>1, <1>2, <2>3, <3>1, <3>3, FiledStays
  <2> QED
    BY <2>2, <2>3
<1>7. ASSUME NEW r \in OfTables(accumulated), r.plate \in New
      PROVE  Filed(links', plates', r)
  <2>1. New # {} /\ r.plate \in DOMAIN S /\ Class[r.plate] # "two"
    BY <1>2, <1>7
  <2>2. Settled(Settle(S, accumulated), r)
    BY <2>1 DEF Settled
  <2>3. r.key \in 0..3
    BY <1>3 DEF KeysTyped
  <2> QED
    BY <1>1, <1>2, <2>1, <2>2, <2>3, MergeFiles
<1>8. ASSUME NEW r \in OfTables(accumulated), r.plate \notin DOMAIN plates \cup New
      PROVE  \/ r.plate \notin owed' /\ Class[r.plate] \notin {"logic", "bank"}
             \/ Class[r.plate] = "logic" /\ r.plate \in broadcasts'
  <2>1. ~r.byFrame /\ r.plate \in unmatched
    BY <1>8 DEF DecodedInv
  <2>2. r.plate \in FromTable
    BY <2>1 DEF FromTable, OfTables
  <2>3. r.plate \notin Virtual
    BY <1>5, <1>8
  <2>4. Class[r.plate] # "bank"
    BY <2>1, <2>2, <2>3 DEF Virtual
  <2>5. Class[r.plate] = "logic" => r.plate \in Central
    BY <2>1, <2>3 DEF Central
  <2> QED
    BY <1>1, <1>8, <2>4, <2>5
<1>9. Cardinality({r.plate : r \in last'} \cap (Codes \ owed')) < Threshold
  <2> DEFINE C == {r.plate : r \in last'} \cap (Codes \ owed')
  <2>1. C \subseteq unmatched \cap Codes /\ C \cap New = {}
    <3> SUFFICES ASSUME NEW r \in OfTables(accumulated), r.plate \in Codes \ owed'
                 PROVE  r.plate \in unmatched /\ r.plate \notin New
      BY <1>1
    <3>1. r.plate \notin DOMAIN plates
      BY <1>1
    <3> QED
      BY <1>1, <3>1 DEF DecodedInv
  <2>2. CASE Remote = {}
    <3>1. CASE Cardinality(unmatched \cap Codes) >= Threshold
      <4>1. unmatched \cap Codes = {}
        BY <2>2, <3>1 DEF Remote
      <4>2. C = {}
        BY <2>1, <4>1
      <4> HIDE DEF C
      <4>3. Cardinality(C) = 0
        BY <4>2, FS_EmptySet
      <4> QED
        BY <4>3, StoresAssumption DEF C
    <3>2. CASE ~(Cardinality(unmatched \cap Codes) >= Threshold)
      <4>1. IsFiniteSet(unmatched \cap Codes)
        <5>1. unmatched \cap Codes \subseteq Plates
          BY DEF Codes
        <5> QED
          BY <5>1, StoresAssumption, FS_Subset
      <4>2. Cardinality(unmatched \cap Codes) < Threshold
        BY <3>2, <4>1, FS_CardinalityType, StoresAssumption
      <4> HIDE DEF C
      <4>3. Cardinality(C) < Threshold
        BY <2>1, <4>2, FewerCodes
      <4> QED
        BY <4>3 DEF C
    <3> QED
      BY <3>1, <3>2
  <2>3. CASE Remote # {}
    <3>1. Remote = unmatched \cap Codes
      BY <2>3 DEF Remote
    <3>2. C \cap DOMAIN plates = {}
      BY <1>1
    <3>3. C = {}
      BY <1>5, <2>1, <3>1, <3>2
    <3> HIDE DEF C
    <3>4. Cardinality(C) = 0
      BY <3>3, FS_EmptySet
    <3> QED
      BY <3>4, StoresAssumption DEF C
  <2> QED
    BY <2>2, <2>3
<1>10. ASSUME NEW r \in last'
       PROVE  \/ r.plate \notin owed' /\ Class[r.plate] \notin {"logic", "bank"}
              \/ Class[r.plate] = "logic" /\ r.plate \in broadcasts'
              \/ r.plate \in DOMAIN plates' /\ Filed(links', plates', r)
  BY <1>1, <1>4, <1>6, <1>7, <1>8
<1> QED
  BY <1>9, <1>10 DEF PlacedInv, Filed

\* What is done between runs moves no link.
LEMMA StepPlaced ==
    StoresInv /\ [Next]_vars => PlacedInv'
<1> SUFFICES ASSUME StoresInv, [Next]_vars PROVE PlacedInv'
  OBVIOUS
<1> USE DEF vars, storeVars, sessionVars, runVars, histVars
<1>0. StoresType /\ DecodedInv /\ PlacedInv
  BY DEF StoresInv
<1>b. ASSUME pc' # "idle" PROVE PlacedInv'
  BY <1>b DEF PlacedInv
<1>e. ASSUME last' = {} PROVE PlacedInv'
  <2> DEFINE C == {r.plate : r \in last'} \cap (Codes \ owed')
  <2>1. C = {}
    BY <1>e
  <2> HIDE DEF C
  <2>2. Cardinality(C) = 0
    BY <2>1, FS_EmptySet
  <2>3. Cardinality(C) < Threshold
    BY <2>2, StoresAssumption
  <2> QED
    BY <1>e, <2>3 DEF PlacedInv, C
<1>k. ASSUME pc = "idle", UNCHANGED <<links, last, owed, broadcasts>>,
             \A p \in DOMAIN plates :
                 p \in DOMAIN plates' /\ plates'[p].layout = plates[p].layout
      PROVE  PlacedInv'
  <2>1. /\ \A r \in last :
             \/ r.plate \notin owed /\ Class[r.plate] \notin {"logic", "bank"}
             \/ Class[r.plate] = "logic" /\ r.plate \in broadcasts
             \/ r.plate \in DOMAIN plates /\ Filed(links, plates, r)
        /\ Cardinality({r.plate : r \in last} \cap (Codes \ owed)) < Threshold
    BY <1>0, <1>k DEF PlacedInv
  <2>2. \A r : r.plate \in DOMAIN plates /\ Filed(links, plates, r)
               => r.plate \in DOMAIN plates' /\ Filed(links, plates', r)
    BY <1>k DEF Filed
  <2>3. \A r \in last :
             \/ r.plate \notin owed /\ Class[r.plate] \notin {"logic", "bank"}
             \/ Class[r.plate] = "logic" /\ r.plate \in broadcasts
             \/ r.plate \in DOMAIN plates' /\ Filed(links, plates', r)
    BY <2>1, <2>2
  <2> QED
    BY <1>k, <2>1, <2>3 DEF PlacedInv, Filed
<1>1. CASE RunBegin
  BY <1>1, <1>b DEF RunBegin
<1>2. CASE ScanBegin
  BY <1>2, <1>b DEF ScanBegin
<1>3. CASE ScanDone
  BY <1>3, <1>b DEF ScanDone
<1>4. CASE Rebuild
  BY <1>4, <1>b DEF Rebuild
<1>5. CASE Complete
  BY <1>0, <1>5, CompletePlaces
<1>6. CASE Abort
  <2>1. last' = {}
    BY <1>0, <1>6 DEF Abort, Cut, StoresType
  <2> QED
    BY <1>e, <2>1
<1>7. ASSUME NEW n \in 1..2, Batch(n) PROVE PlacedInv'
  BY <1>7, <1>b DEF Batch
<1>8. ASSUME NEW n \in 1..2, DataLost(n) PROVE PlacedInv'
  BY <1>8, <1>b DEF DataLost
<1>9. CASE Inventory
  <2>1. \A p \in DOMAIN plates : p \in DOMAIN plates' /\ plates'[p] = plates[p]
    BY <1>0, <1>9, InventoryKeeps
  <2> QED
    BY <1>9, <1>k, <2>1 DEF Inventory
<1>10. CASE Restart
  BY <1>10, <1>e DEF Restart, Cut
<1>11. ASSUME NEW m \in Mods, Evict(m) PROVE PlacedInv'
  BY <1>11, <1>k DEF Evict
<1>12. ASSUME NEW m \in Mods, Reprogram(m) PROVE PlacedInv'
  BY <1>12, <1>k DEF Reprogram
<1>13. ASSUME NEW e \in Editable, Edit(e) PROVE PlacedInv'
  <2>1. \A p \in DOMAIN plates : p \in DOMAIN plates' /\ plates'[p].layout = plates[p].layout
    <3>1. CASE UNCHANGED plates
      BY <3>1
    <3>2. CASE e[1] \in DOMAIN plates /\ plates' = [plates EXCEPT ![e[1]].named = TRUE]
      <4>1. \A p \in DOMAIN plates : plates[p] \in PlateEntry
        BY <1>0 DEF StoresType, IsStore
      <4> QED
        BY <3>2, <4>1 DEF PlateEntry
    <3> QED
      BY <1>13, <3>1, <3>2 DEF Edit
  <2> QED
    BY <1>13, <1>k, <2>1 DEF Edit
<1>14. CASE UNCHANGED vars
  <2>1. CASE pc = "idle"
    BY <1>14, <1>k, <2>1
  <2>2. CASE pc # "idle"
    BY <1>14, <1>b, <2>2
  <2> QED
    BY <2>1, <2>2
<1> QED
  BY <1>1, <1>2, <1>3, <1>4, <1>5, <1>6, <1>7, <1>8, <1>9, <1>10, <1>11, <1>12, <1>13, <1>14
     DEF Next, Run, Event

-----------------------------------------------------------------------------
(* The theorems. *)

\* What is filed on a plate is found where LinksPlaced looks for it.
LEMMA PlacedFound ==
    StoresInv => LinksPlaced
<1> SUFFICES ASSUME StoresInv, pc = "idle"
             PROVE  /\ \A r \in last :
                         \/ r.plate \notin owed /\ Class[r.plate] \notin {"logic", "bank"}
                         \/ r.byFrame /\ plates[r.plate].layout = "remote"
                         \/ Class[r.plate] = "logic" /\ r.plate \in broadcasts
                         \/ \E q \in DOMAIN links :
                              /\ q.plate = r.plate /\ q.mod = r.mod /\ q.chan = r.chan
                              /\ q.mode = r.mode /\ links[q] = "table"
                              /\ Sends(q.plate, q.label, r.key)
                    /\ Cardinality({r.plate : r \in last} \cap (Codes \ owed)) < Threshold
  BY DEF LinksPlaced
<1>1. PlacedInv /\ Fitting(plates)
  BY DEF StoresInv, StoresType
<1>2. ASSUME NEW r, r.plate \in DOMAIN plates, Filed(links, plates, r)
      PROVE  \/ r.byFrame /\ plates[r.plate].layout = "remote"
             \/ \E q \in DOMAIN links :
                  /\ q.plate = r.plate /\ q.mod = r.mod /\ q.chan = r.chan
                  /\ q.mode = r.mode /\ links[q] = "table"
                  /\ Sends(q.plate, q.label, r.key)
  <2>1. CASE r.byFrame /\ Class[r.plate] = "code"
    <3>1. LayoutsOf(r.plate) = {"remote"}
      BY <2>1 DEF LayoutsOf
    <3> QED
      BY <1>1, <1>2, <2>1, <3>1 DEF Fitting
  <2>2. CASE \E q \in DOMAIN links :
               /\ Like(q, r) /\ links[q] = "table"
               /\ q.label \in DOMAIN Keys[plates[r.plate].layout]
               /\ Keys[plates[r.plate].layout][q.label] \in {r.key, NoIndex}
    BY <2>2 DEF Like, Sends
  <2> QED
    BY <1>2, <2>1, <2>2 DEF Filed
<1> QED
  BY <1>1, <1>2 DEF PlacedInv

\* Empty stores.
LEMMA InitStores ==
    Init => StoresInv
<1> SUFFICES ASSUME Init PROVE StoresInv
  OBVIOUS
<1>1. /\ DOMAIN plates = {} /\ DOMAIN links = {} /\ DOMAIN modules = {}
      /\ plates = [p \in {} |-> plates[p]] /\ modules = [m \in {} |-> modules[m]]
  BY DEF Init
<1>2. StoresType
  BY <1>1 DEF Init, StoresType, IsStore, Fitting, IsLinks, RestInv
<1>3. DecodedInv /\ TablesRule /\ EditsKept
  BY <1>1 DEF Init, DecodedInv, OfTables, TablesRule, EditsKept
<1>4. PlacedInv
  <2> DEFINE C == {r.plate : r \in last} \cap (Codes \ owed)
  <2>1. C = {} /\ last = {}
    BY DEF Init
  <2> HIDE DEF C
  <2>2. Cardinality(C) < Threshold
    BY <2>1, FS_EmptySet, StoresAssumption
  <2> QED
    BY <2>1, <2>2 DEF PlacedInv, C
<1> QED
  BY <1>2, <1>3, <1>4 DEF StoresInv

\* Whatever is read, lost, merged, rebuilt, edited, evicted or reprogrammed, and
\* wherever a run is cut, StoresInv holds.
THEOREM StoresInductive == Spec => []StoresInv
<1>1. StoresInv /\ [Next]_vars => StoresInv'
  BY StepType, StepDecoded, StepPlaced, StepTables, StepEdits DEF StoresInv
<1> QED
  BY InitStores, <1>1, PTL DEF Spec

\* Every link the modules' tables told of in a run is found, when the run is over,
\* on the key whose frame the module listens for (_complete_discovery_run).
THEOREM LinksArePlaced == Spec => []LinksPlaced
  BY StoresInductive, PlacedFound, PTL

\* A module read in full has no link its own table did not tell of
\* (_authoritative_link_modules, _rebuild_module_links).
THEOREM TablesRuleLinks == Spec => []TablesRule
<1>1. StoresInv => TablesRule
  BY DEF StoresInv
<1> QED
  BY StoresInductive, <1>1, PTL

\* What the user named keeps its name (merge_discovered_modules,
\* merge_discovered_buttons).
THEOREM EditsAreKept == Spec => []EditsKept
<1>1. StoresInv => EditsKept
  BY DEF StoresInv
<1> QED
  BY StoresInductive, <1>1, PTL
=============================================================================
