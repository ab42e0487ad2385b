------------------------- MODULE ActionRecorderProofs -------------------------
(***************************************************************************)
(* Proofs about the recorder of action guides, for every configuration and *)
(* every number of frames and events.                                      *)
(***************************************************************************)
EXTENDS ActionRecorder, FiniteSetTheorems, WellFoundedInduction, TLAPS

(* What an Option holds.                                                   *)
Opt(S) == {{}} \cup {{x} : x \in S}

LEMMA ConstantsAreNumbers ==
    /\ RING_CAPACITY \in Nat /\ WINDOW_BEFORE \in Nat /\ WINDOW_AFTER \in Nat
    /\ NEARBY_MAX \in Nat /\ NEARBY_MAX > 0 /\ COOLDOWN \in Nat /\ CLICK_WINDOW \in Nat
    /\ STABLE_FRAMES \in Nat /\ MaxFrames \in Nat /\ MaxEvents \in Nat
    /\ RING_CAPACITY > WINDOW_BEFORE + WINDOW_AFTER
    /\ Luma \subseteq [level : Nat, size : Nat] /\ Stamps \subseteq Nat
  BY RecorderAssumption

(* Saturating subtraction and the two extremes are what their names say.   *)
LEMMA MinusIs ==
    ASSUME NEW a \in Nat, NEW b \in Nat
    PROVE  /\ Minus(a, b) \in Nat /\ Minus(a, b) <= a
           /\ a >= b => Minus(a, b) = a - b
           /\ a < b => Minus(a, b) = 0
  BY DEF Minus

LEMMA ExtremesAre ==
    ASSUME NEW a \in Int, NEW b \in Int
    PROVE  /\ Max2(a, b) \in {a, b} /\ Max2(a, b) >= a /\ Max2(a, b) >= b
           /\ Min2(a, b) \in {a, b} /\ Min2(a, b) <= a /\ Min2(a, b) <= b
  BY DEF Max2, Min2

-----------------------------------------------------------------------------
(* The positions a loop keeps: there is an i-th one for every i up to      *)
(* their number, and they come in their order.                             *)
LEMMA Least ==
    ASSUME NEW S \in SUBSET Nat, S # {}
    PROVE  \E x \in S : \A y \in S : x <= y
<1>1. PICK x \in S : \A y \in S : ~(<<y, x>> \in OpToRel(<, Nat))
  BY NatLessThanWellFounded, WFMin
<1>2. ASSUME NEW y \in S PROVE x <= y
  <2>1. <<y, x>> \in OpToRel(<, Nat) <=> y < x
    BY DEF OpToRel
  <2>2. x \in Nat /\ y \in Nat
    OBVIOUS
  <2>3. ~(y < x)
    BY <1>1, <2>1, Zenon
  <2> QED
    BY <2>2, <2>3
<1> QED
  BY <1>2

Below(S, p) == {q \in S : q < p}

LEMMA BelowCounts ==
    ASSUME NEW S \in SUBSET Nat, IsFiniteSet(S), NEW p \in Nat
    PROVE  IsFiniteSet(Below(S, p)) /\ Cardinality(Below(S, p)) \in Nat
<1>1. Below(S, p) \in SUBSET S
  BY DEF Below
<1> QED
  BY <1>1, FS_Subset, FS_CardinalityType

LEMMA BelowGrows ==
    ASSUME NEW S \in SUBSET Nat, NEW p \in S, NEW r \in S, p < r
    PROVE  /\ Below(S, p) \in SUBSET Below(S, r)
           /\ p \in Below(S, r) /\ p \notin Below(S, p)
<1>1. p \in Nat /\ r \in Nat
  OBVIOUS
<1>2. ASSUME NEW q \in S, q < p PROVE q < r
  <2>1. q \in Nat
    OBVIOUS
  <2> QED
    BY <1>1, <1>2, <2>1
<1>3. ~(p < p)
  BY <1>1
<1> QED
  BY <1>2, <1>3 DEF Below

LEMMA NthExists ==
    ASSUME NEW S \in SUBSET Nat, IsFiniteSet(S), NEW i \in 1..Cardinality(S)
    PROVE  \E p \in S : Cardinality(Below(S, p)) = i - 1
<1>0. Cardinality(S) \in Nat
  BY FS_CardinalityType
<1> DEFINE Bad == {n \in 1..Cardinality(S) : \A p \in S : Cardinality(Below(S, p)) # n - 1}
<1>1. SUFFICES ASSUME Bad # {} PROVE FALSE
  OBVIOUS
<1>2. PICK n \in Bad : \A m \in Bad : n <= m
  <2>1. Bad \in SUBSET Nat
    BY <1>0
  <2> HIDE DEF Bad
  <2> QED
    BY <1>1, <2>1, Least
<1>3. n \in 1..Cardinality(S) /\ \A p \in S : Cardinality(Below(S, p)) # n - 1
  BY <1>2
<1>4. CASE n = 1
  <2>1. S # {}
    BY <1>0, <1>3, FS_EmptySet
  <2>2. PICK p \in S : \A q \in S : p <= q
    BY <2>1, Least
  <2>3. Below(S, p) = {}
    <3>1. ASSUME NEW q \in S PROVE ~(q < p)
      <4>1. q \in Nat /\ p \in Nat
        OBVIOUS
      <4> QED
        BY <2>2, <4>1
    <3> QED
      BY <3>1 DEF Below
  <2> QED
    BY <1>3, <1>4, <2>3, FS_EmptySet
<1>5. CASE n # 1
  <2>1. n - 1 \in 1..Cardinality(S) /\ n - 1 \notin Bad
    <3>1. n - 1 \in 1..Cardinality(S) /\ n - 1 \in Nat /\ ~(n <= n - 1)
      BY <1>0, <1>3, <1>5
    <3> HIDE DEF Bad
    <3> QED
      BY <1>2, <3>1
  <2>2. PICK p \in S : Cardinality(Below(S, p)) = (n - 1) - 1
    BY <2>1
  <2> DEFINE A == {q \in S : q > p}
  <2>3. A # {}
    <3>1. SUFFICES ASSUME A = {} PROVE FALSE
      OBVIOUS
    <3>2. S = Below(S, p) \cup {p} /\ p \notin Below(S, p)
      <4>1. ASSUME NEW q \in S PROVE q \in Below(S, p) \cup {p}
        <5>1. q \in Nat /\ p \in Nat /\ ~(q > p)
          BY <3>1
        <5>2. q < p \/ q = p
          BY <5>1
        <5> QED
          BY <5>2 DEF Below
      <4>2. ~(p < p) /\ Below(S, p) \subseteq S
        <5>1. p \in Nat
          OBVIOUS
        <5> QED
          BY <5>1 DEF Below
      <4>3. p \notin Below(S, p)
        BY <4>2 DEF Below
      <4> QED
        BY <4>1, <4>2, <4>3, Zenon
    <3>3. Cardinality(S) = (n - 1) - 1 + 1
      BY <2>2, <3>2, BelowCounts, FS_AddElement
    <3> QED
      BY <1>0, <1>3, <3>3
  <2>4. PICK r \in A : \A q \in A : r <= q
    <3>1. A \in SUBSET Nat
      OBVIOUS
    <3> HIDE DEF A
    <3> QED
      BY <2>3, <3>1, Least
  <2>5. Below(S, r) = Below(S, p) \cup {p} /\ p \notin Below(S, p)
    <3>1. ASSUME NEW q \in S PROVE q < r <=> (q < p \/ q = p)
      <4>1. q \in Nat /\ p \in Nat /\ r \in Nat /\ r > p /\ (q > p => r <= q)
        BY <2>4
      <4> QED
        BY <4>1
    <3>2. p \in S /\ ~(p < p)
      OBVIOUS
    <3> QED
      BY <3>1, <3>2 DEF Below
  <2>6. Cardinality(Below(S, r)) = n - 1
    BY <1>0, <1>3, <2>2, <2>5, BelowCounts, FS_AddElement
  <2> QED
    BY <1>3, <2>4, <2>6
<1> QED
  BY <1>4, <1>5

LEMMA NthIs ==
    ASSUME NEW S \in SUBSET Nat, IsFiniteSet(S), NEW i \in 1..Cardinality(S)
    PROVE  Nth(S, i) \in S /\ Cardinality(Below(S, Nth(S, i))) = i - 1
<1>1. \E p \in S : Cardinality({q \in S : q < p}) = i - 1
  BY NthExists DEF Below
<1> QED
  BY <1>1 DEF Nth, Below

LEMMA NthGrows ==
    ASSUME NEW S \in SUBSET Nat, IsFiniteSet(S),
           NEW i \in 1..Cardinality(S), NEW k \in 1..Cardinality(S), i < k
    PROVE  Nth(S, i) < Nth(S, k)
<1>1. SUFFICES ASSUME ~(Nth(S, i) < Nth(S, k)) PROVE FALSE
  OBVIOUS
<1>2. Nth(S, i) \in Nat /\ Nth(S, k) \in Nat
  BY NthIs
<1>3. Below(S, Nth(S, k)) \in SUBSET Below(S, Nth(S, i))
  <2>1. ASSUME NEW q \in S, q < Nth(S, k) PROVE q < Nth(S, i)
    <3>1. q \in Nat
      OBVIOUS
    <3> QED
      BY <1>1, <1>2, <2>1, <3>1
  <2> QED
    BY <2>1 DEF Below
<1>4. Cardinality(Below(S, Nth(S, k))) <= Cardinality(Below(S, Nth(S, i)))
  BY <1>2, <1>3, BelowCounts, FS_Subset
<1>5. k - 1 <= i - 1
  BY <1>4, NthIs
<1>6. Cardinality(S) \in Nat
  BY FS_CardinalityType
<1> QED
  BY <1>5, <1>6

-----------------------------------------------------------------------------
(* The detector: its type, and the frames a window has seen that differ.   *)
Kinds   == {"Click", "Typing", "Scroll", "UiChanged"}
Markers == [kind : Kinds, at_ms : Nat, center : Nat]
Frames  == [id : Nat, luma : Luma, at_ms : Nat]
Seen    == [id : Nat, at_ms : Nat, distance : Nat]
Windows == [baseline : Luma, peak : Opt(Seen), stable : Opt(Seen)]

Detector ==
    [prev : Opt(Luma), baseline : Opt(Luma), moving : BOOLEAN, stable_count : Nat,
     saw_change : BOOLEAN, last_candidate : Opt(Nat),
     click_open_until : Opt(Nat), click : Opt(Windows), typing : Opt(Windows),
     scroll : Opt(Windows), in_typing : BOOLEAN, typing_last_at : Nat,
     typing_force_end : BOOLEAN, in_scroll : BOOLEAN, scroll_last_at : Nat]

Ids(windows) == {i \in Nat : \E w \in windows : \E s \in w.peak \cup w.stable : s.id = i}

(* The windows, who owns the change, and the pictures compared with.       *)
Alike(e, d) ==
    /\ e.click_open_until = d.click_open_until /\ e.click = d.click
    /\ e.typing = d.typing /\ e.scroll = d.scroll
    /\ e.in_typing = d.in_typing /\ e.in_scroll = d.in_scroll
    /\ e.baseline = d.baseline /\ e.prev = d.prev

(* A marker, if any, is of one of the given frames, and begins a cooldown. *)
Emits(out, d, at_ms, centers) ==
    \/ out.marker = {} /\ out.det.last_candidate = d.last_candidate
    \/ /\ \E m \in Markers : out.marker = {m} /\ m.center \in centers
       /\ out.det.last_candidate = {at_ms}

LEMMA OptIs ==
    ASSUME NEW S, NEW x \in Opt(S)
    PROVE  x = {} \/ \E y \in S : x = {y}
  BY DEF Opt

LEMMA NoIds == Ids({}) = {}
  BY DEF Ids

LEMMA DistanceIs ==
    ASSUME NEW a \in Luma, NEW b \in Luma
    PROVE  Distance(a, b) \in Nat
<1>1. a.level \in Nat /\ b.level \in Nat
  BY ConstantsAreNumbers
<1>2. Minus(a.level, b.level) \in Nat /\ Minus(b.level, a.level) \in Nat
  BY <1>1, MinusIs
<1> QED
  BY <1>2 DEF Distance

LEMMA WindowIs ==
    ASSUME NEW luma \in Luma
    PROVE  Window(luma) \in Windows /\ Ids({Window(luma)}) = {}
  BY DEF Window, Windows, Ids, Opt

LEMMA OpenedIs ==
    ASSUME NEW d \in Detector
    PROVE  Opened(d) \in Opt(Windows) /\ Ids(Opened(d)) = {}
<1> DEFINE P == IF d.prev # {} THEN d.prev ELSE d.baseline
<1>1. P \in Opt(Luma)
  BY DEF Detector
<1>2. Opened(d) = {Window(luma) : luma \in P}
  BY DEF Opened
<1> HIDE DEF P
<1>3. CASE P = {}
  <2>1. Opened(d) = {}
    BY <1>2, <1>3
  <2> QED
    BY <2>1, NoIds DEF Opt
<1>4. ASSUME NEW l \in Luma, P = {l} PROVE Opened(d) \in Opt(Windows) /\ Ids(Opened(d)) = {}
  <2>1. Opened(d) = {Window(l)}
    BY <1>2, <1>4
  <2> QED
    BY <2>1, WindowIs DEF Opt
<1> QED
  BY <1>1, <1>3, <1>4, OptIs

LEMMA ObservedIs ==
    ASSUME NEW w \in Windows, NEW f \in Frames, NEW at_rest
    PROVE  /\ Observed(w, f, at_rest) \in Windows
           /\ Ids({Observed(w, f, at_rest)}) \subseteq Ids({w}) \cup {f.id}
<1> DEFINE distance == Distance(w.baseline, f.luma)
           seen == [id |-> f.id, at_ms |-> f.at_ms, distance |-> distance]
           peak == IF \A p \in w.peak : distance > p.distance THEN {seen} ELSE w.peak
           stable == IF at_rest THEN {seen} ELSE w.stable
           o == Observed(w, f, at_rest)
<1>1. seen \in Seen /\ seen.id = f.id
  <2>1. distance \in Nat
    BY DistanceIs DEF Windows, Frames
  <2> HIDE DEF distance
  <2> QED
    BY <2>1 DEF Seen, Frames
<1>2. \/ o = w
      \/ o = [w EXCEPT !.peak = peak, !.stable = stable]
  BY DEF Observed
<1> HIDE DEF o, seen, distance
<1>3. w.peak \in Opt(Seen) /\ w.stable \in Opt(Seen) /\ w.baseline \in Luma
  BY DEF Windows
<1>4. peak \in {w.peak, {seen}} /\ stable \in {w.stable, {seen}}
  OBVIOUS
<1> HIDE DEF peak, stable
<1>5. {seen} \in Opt(Seen)
  BY <1>1 DEF Opt
<1>6. CASE o = [w EXCEPT !.peak = peak, !.stable = stable]
  <2>1. o \in Windows /\ o.peak = peak /\ o.stable = stable
    BY <1>3, <1>4, <1>5, <1>6 DEF Windows
  <2>2. o.peak \cup o.stable \subseteq w.peak \cup w.stable \cup {seen}
    BY <1>4, <2>1
  <2> QED
    BY <1>1, <2>1, <2>2 DEF Ids, o
<1>7. CASE o = w
  BY <1>7 DEF o
<1> QED
  BY <1>2, <1>6, <1>7

See(W, f, at_rest) == {Observed(w, f, at_rest) : w \in W}

LEMMA SeeIs ==
    ASSUME NEW W \in Opt(Windows), NEW f \in Frames, NEW at_rest
    PROVE  /\ See(W, f, at_rest) \in Opt(Windows)
           /\ Ids(See(W, f, at_rest)) \subseteq Ids(W) \cup {f.id}
           /\ W = {} => See(W, f, at_rest) = {}
<1>1. CASE W = {}
  BY <1>1 DEF Opt, Ids, See
<1>2. ASSUME NEW x \in Windows, W = {x}
      PROVE  /\ See(W, f, at_rest) \in Opt(Windows)
             /\ Ids(See(W, f, at_rest)) \subseteq Ids(W) \cup {f.id}
  <2>1. See(W, f, at_rest) = {Observed(x, f, at_rest)}
    BY <1>2 DEF See
  <2> QED
    BY <1>2, <2>1, ObservedIs DEF Opt
<1> QED
  BY <1>1, <1>2, OptIs

LEMMA SemanticIs ==
    ASSUME NEW d \in Detector, NEW window \in Opt(Windows), NEW at_ms \in Nat, NEW kind \in Kinds
    PROVE  LET out == Semantic(d, window, at_ms, kind) IN
           /\ out.det \in Detector /\ Alike(out.det, d)
           /\ Emits(out, d, at_ms, Ids(window))
           /\ out.marker # {} => Cooled(d, at_ms)
<1> DEFINE out == Semantic(d, window, at_ms, kind)
           selected == UNION {Chosen(w) : w \in window}
<1>1. selected = {} \/ \E s \in Seen : selected = {s} /\ s.id \in Ids(window)
  <2>1. CASE window = {}
    BY <2>1
  <2>2. ASSUME NEW w \in Windows, window = {w}
        PROVE  selected = {} \/ \E s \in Seen : selected = {s} /\ s.id \in Ids(window)
    <3>1. selected = Chosen(w)
      BY <2>2
    <3>2. Chosen(w) \in {w.peak, w.stable} /\ w.peak \in Opt(Seen) /\ w.stable \in Opt(Seen)
      BY DEF Chosen, Windows
    <3>3. Chosen(w) = {} \/ \E s \in Seen : Chosen(w) = {s}
      BY <3>2, OptIs
    <3>4. ASSUME NEW s \in Seen, Chosen(w) = {s} PROVE s.id \in Ids(window)
      <4>1. s \in w.peak \cup w.stable /\ s.id \in Nat
        BY <3>2, <3>4 DEF Seen
      <4> QED
        BY <2>2, <4>1 DEF Ids
    <3> QED
      BY <3>1, <3>3, <3>4
  <2> QED
    BY <2>1, <2>2, OptIs
<1>2. CASE selected = {} \/ ~Cooled(d, at_ms)
  <2>1. out = [det |-> d, marker |-> {}]
    BY <1>2 DEF Semantic, Nothing
  <2> QED
    BY <2>1 DEF Alike, Emits
<1>3. ASSUME NEW s \in Seen, selected = {s}, s.id \in Ids(window), Cooled(d, at_ms)
      PROVE  /\ out.det \in Detector /\ Alike(out.det, d)
             /\ Emits(out, d, at_ms, Ids(window))
             /\ out.marker # {} => Cooled(d, at_ms)
  <2>1. PICK e : e = [d EXCEPT !.last_candidate = {at_ms}]
    OBVIOUS
  <2>2. out = [det |-> e, marker |-> {Marker(kind, seen) : seen \in selected}]
    BY <1>3, <2>1 DEF Semantic
  <2>3. {Marker(kind, seen) : seen \in selected} = {Marker(kind, s)}
    BY <1>3
  <2>4. Marker(kind, s) \in Markers /\ Marker(kind, s).center = s.id
    BY DEF Marker, Markers, Seen
  <2>5. {at_ms} \in Opt(Nat)
    BY DEF Opt
  <2>6. e \in Detector /\ Alike(e, d) /\ e.last_candidate = {at_ms}
    BY <2>1, <2>5 DEF Detector, Alike
  <2>7. out.det = e /\ out.marker = {Marker(kind, s)}
    BY <2>2, <2>3
  <2> HIDE DEF out, selected
  <2>8. Emits(out, d, at_ms, Ids(window))
    BY <1>3, <2>4, <2>6, <2>7 DEF Emits
  <2> QED
    BY <1>3, <2>6, <2>7, <2>8
<1> HIDE DEF selected
<1> QED
  BY <1>1, <1>2, <1>3

-----------------------------------------------------------------------------
(* One owner at a time has the change: typing, scrolling or a click, and   *)
(* only an owner has a window.                                             *)
Owned(d) ==
    /\ d.click # {} => d.click_open_until # {}
    /\ d.typing # {} => d.in_typing
    /\ d.scroll # {} => d.in_scroll
    /\ ~(d.in_typing /\ d.in_scroll)
    /\ d.click_open_until # {} => ~d.in_typing /\ ~d.in_scroll

(* The frames the windows have seen.                                       *)
All(d) == Ids(d.click) \cup Ids(d.typing) \cup Ids(d.scroll)

LEMMA CloseClickIs ==
    ASSUME NEW d \in Detector, NEW at_ms \in Nat
    PROVE  LET out == CloseClick(d, at_ms) IN
           /\ out.det \in Detector /\ Emits(out, d, at_ms, Ids(d.click))
           /\ out.det.click = {} /\ out.det.click_open_until = {}
           /\ out.det.typing = d.typing /\ out.det.scroll = d.scroll
           /\ out.det.in_typing = d.in_typing /\ out.det.in_scroll = d.in_scroll
           /\ out.det.baseline = d.baseline /\ out.det.prev = d.prev
<1>1. PICK e : e = [d EXCEPT !.click_open_until = {}, !.click = {}]
  OBVIOUS
<1>2. {} \in Opt(Nat) /\ {} \in Opt(Windows)
  BY DEF Opt
<1>3. /\ e \in Detector /\ e.click = {} /\ e.click_open_until = {}
      /\ e.typing = d.typing /\ e.scroll = d.scroll /\ e.last_candidate = d.last_candidate
      /\ e.in_typing = d.in_typing /\ e.in_scroll = d.in_scroll
      /\ e.baseline = d.baseline /\ e.prev = d.prev
  BY <1>1, <1>2 DEF Detector
<1>4. CloseClick(d, at_ms) = Semantic(e, d.click, at_ms, "Click")
  BY <1>1 DEF CloseClick
<1>5. d.click \in Opt(Windows) /\ "Click" \in Kinds
  BY DEF Detector, Kinds
<1> QED
  BY <1>3, <1>4, <1>5, SemanticIs DEF Alike, Emits

(* The end of a typing burst or a scroll: the window goes, and the picture *)
(* is the new baseline.                                                    *)
LEMMA CloseTypingIs ==
    ASSUME NEW d \in Detector, NEW f \in Frames, Owned(d), d.in_typing
    PROVE  LET out == CloseTyping(d, f) IN
           /\ out.det \in Detector /\ Emits(out, d, f.at_ms, All(d))
           /\ All(out.det) = {} /\ out.det.click_open_until = {} /\ Owned(out.det)
           /\ out.det.baseline # {} /\ out.det.click = {}
<1>1. PICK e : e = [d EXCEPT !.typing = {}, !.in_typing = FALSE, !.typing_force_end = FALSE,
                             !.saw_change = FALSE, !.baseline = {f.luma}]
  OBVIOUS
<1>2. {} \in Opt(Windows) /\ {f.luma} \in Opt(Luma) /\ f.at_ms \in Nat
  BY DEF Opt, Frames
<1>3. /\ e \in Detector /\ e.click = d.click /\ e.click_open_until = d.click_open_until
      /\ e.typing = {} /\ e.scroll = d.scroll /\ e.last_candidate = d.last_candidate
      /\ e.in_typing = FALSE /\ e.in_scroll = d.in_scroll /\ e.baseline = {f.luma}
  BY <1>1, <1>2 DEF Detector
<1>4. CloseTyping(d, f) = Semantic(e, d.typing, f.at_ms, "Typing")
  BY <1>1 DEF CloseTyping
<1>5. d.typing \in Opt(Windows) /\ "Typing" \in Kinds
  BY DEF Detector, Kinds
<1>6. d.click = {} /\ d.click_open_until = {} /\ d.scroll = {} /\ ~d.in_scroll
  BY DEF Owned
<1>7. PICK out : out = CloseTyping(d, f)
  OBVIOUS
<1>8. /\ out.det \in Detector /\ Alike(out.det, e)
      /\ Emits(out, e, f.at_ms, Ids(d.typing))
  BY <1>2, <1>3, <1>4, <1>5, <1>7, SemanticIs
<1>9. Emits(out, d, f.at_ms, All(d))
  BY <1>3, <1>8 DEF Emits, All
<1>10. All(out.det) = {} /\ Owned(out.det)
  BY <1>3, <1>6, <1>8, NoIds DEF Alike, All, Owned
<1> QED
  BY <1>3, <1>6, <1>7, <1>8, <1>9, <1>10 DEF Alike

LEMMA CloseScrollIs ==
    ASSUME NEW d \in Detector, NEW f \in Frames, Owned(d), d.in_scroll
    PROVE  LET out == CloseScroll(d, f) IN
           /\ out.det \in Detector /\ Emits(out, d, f.at_ms, All(d))
           /\ All(out.det) = {} /\ out.det.click_open_until = {} /\ Owned(out.det)
           /\ out.det.baseline # {} /\ out.det.click = {}
<1>1. PICK e : e = [d EXCEPT !.scroll = {}, !.in_scroll = FALSE,
                             !.saw_change = FALSE, !.baseline = {f.luma}]
  OBVIOUS
<1>2. {} \in Opt(Windows) /\ {f.luma} \in Opt(Luma) /\ f.at_ms \in Nat
  BY DEF Opt, Frames
<1>3. /\ e \in Detector /\ e.click = d.click /\ e.click_open_until = d.click_open_until
      /\ e.scroll = {} /\ e.typing = d.typing /\ e.last_candidate = d.last_candidate
      /\ e.in_scroll = FALSE /\ e.in_typing = d.in_typing /\ e.baseline = {f.luma}
  BY <1>1, <1>2 DEF Detector
<1>4. CloseScroll(d, f) = Semantic(e, d.scroll, f.at_ms, "Scroll")
  BY <1>1 DEF CloseScroll
<1>5. d.scroll \in Opt(Windows) /\ "Scroll" \in Kinds
  BY DEF Detector, Kinds
<1>6. d.click = {} /\ d.click_open_until = {} /\ d.typing = {} /\ ~d.in_typing
  BY DEF Owned
<1>7. PICK out : out = CloseScroll(d, f)
  OBVIOUS
<1>8. /\ out.det \in Detector /\ Alike(out.det, e)
      /\ Emits(out, e, f.at_ms, Ids(d.scroll))
  BY <1>2, <1>3, <1>4, <1>5, <1>7, SemanticIs
<1>9. Emits(out, d, f.at_ms, All(d))
  BY <1>3, <1>8 DEF Emits, All
<1>10. All(out.det) = {} /\ Owned(out.det)
  BY <1>3, <1>6, <1>8, NoIds DEF Alike, All, Owned
<1> QED
  BY <1>3, <1>6, <1>7, <1>8, <1>9, <1>10 DEF Alike

-----------------------------------------------------------------------------
(* An event opens an empty window or none, keeps the open one, or closes   *)
(* that of a click.                                                        *)
EventGives(d, at_ms, out) ==
    /\ out.det \in Detector /\ Owned(out.det)
    /\ out.det.baseline = d.baseline
    /\ Emits(out, d, at_ms, Ids(d.click))
    /\ All(out.det) \subseteq All(d)
    /\ out.marker # {} => All(out.det) = {}
    /\ \/ out.det.click_open_until = d.click_open_until /\ out.det.click = d.click
       \/ Ids(out.det.click) = {} /\ out.det.click_open_until \subseteq {at_ms + CLICK_WINDOW}

LEMMA ClickEventIs ==
    ASSUME NEW d \in Detector, Owned(d), NEW at_ms \in Nat
    PROVE  EventGives(d, at_ms, ClickEvent(d, at_ms))
<1>1. CASE d.in_typing \/ d.in_scroll
  <2>1. ClickEvent(d, at_ms) = [det |-> d, marker |-> {}]
    BY <1>1 DEF ClickEvent, Nothing
  <2> QED
    BY <2>1 DEF EventGives, Emits
<1>2. CASE ~d.in_typing /\ ~d.in_scroll
  <2>1. PICK prior : prior = CloseClick(d, at_ms)
    OBVIOUS
  <2>2. /\ prior.det \in Detector /\ Emits(prior, d, at_ms, Ids(d.click))
        /\ prior.det.typing = d.typing /\ prior.det.scroll = d.scroll
        /\ prior.det.in_typing = d.in_typing /\ prior.det.in_scroll = d.in_scroll
        /\ prior.det.baseline = d.baseline
    BY <2>1, CloseClickIs
  <2>3. prior = [det |-> prior.det, marker |-> prior.marker]
    BY <2>1 DEF CloseClick, Semantic, Nothing
  <2>4. PICK e : e = [prior.det EXCEPT !.click_open_until = {at_ms + CLICK_WINDOW},
                                       !.click = Opened(d)]
    OBVIOUS
  <2>5. ClickEvent(d, at_ms) = [prior EXCEPT !.det = e]
    BY <1>2, <2>1, <2>4 DEF ClickEvent
  <2>6. PICK out : out = ClickEvent(d, at_ms)
    OBVIOUS
  <2>7. out.det = e /\ out.marker = prior.marker
    BY <2>3, <2>5, <2>6
  <2>8. {at_ms + CLICK_WINDOW} \in Opt(Nat) /\ {at_ms + CLICK_WINDOW} # {}
    BY ConstantsAreNumbers DEF Opt
  <2>9. /\ e \in Detector /\ e.click = Opened(d) /\ e.click_open_until = {at_ms + CLICK_WINDOW}
        /\ e.typing = d.typing /\ e.scroll = d.scroll
        /\ e.in_typing = d.in_typing /\ e.in_scroll = d.in_scroll
        /\ e.baseline = d.baseline /\ e.last_candidate = prior.det.last_candidate
    BY <2>2, <2>4, <2>8, OpenedIs DEF Detector
  <2>10. Ids(e.click) = {} /\ Ids(e.typing) = {} /\ Ids(e.scroll) = {}
    BY <1>2, <2>9, OpenedIs, NoIds DEF Owned
  <2>11. Owned(e)
    BY <1>2, <2>8, <2>9 DEF Owned
  <2> QED
    BY <2>2, <2>6, <2>7, <2>9, <2>10, <2>11 DEF EventGives, Emits, All
<1> QED
  BY <1>1, <1>2

LEMMA TypingEventIs ==
    ASSUME NEW d \in Detector, Owned(d), NEW at_ms \in Nat
    PROVE  EventGives(d, at_ms, TypingEvent(d, at_ms))
<1>1. PICK e : TypingEvent(d, at_ms) = [det |-> e, marker |-> {}]
               /\ e = IF d.in_typing THEN [d EXCEPT !.typing_last_at = at_ms]
                      ELSE [d EXCEPT !.in_scroll = FALSE, !.scroll = {}, !.typing = Opened(d),
                                     !.click_open_until = {}, !.click = {},
                                     !.in_typing = TRUE, !.typing_last_at = at_ms]
  BY DEF TypingEvent, Nothing
<1>2. PICK out : out = TypingEvent(d, at_ms)
  OBVIOUS
<1>3. out.det = e /\ out.marker = {}
  BY <1>1, <1>2
<1>4. CASE d.in_typing
  <2>1. e = [d EXCEPT !.typing_last_at = at_ms]
    BY <1>1, <1>4
  <2>2. e \in Detector /\ Alike(e, d) /\ e.last_candidate = d.last_candidate
    BY <2>1 DEF Detector, Alike
  <2> QED
    BY <1>2, <1>3, <2>2 DEF EventGives, Emits, Alike, Owned, All
<1>5. CASE ~d.in_typing
  <2>1. e = [d EXCEPT !.in_scroll = FALSE, !.scroll = {}, !.typing = Opened(d),
                      !.click_open_until = {}, !.click = {},
                      !.in_typing = TRUE, !.typing_last_at = at_ms]
    BY <1>1, <1>5
  <2>2. {} \in Opt(Nat) /\ {} \in Opt(Windows)
    BY DEF Opt
  <2>3. /\ e \in Detector /\ e.scroll = {} /\ e.typing = Opened(d) /\ e.click = {}
        /\ e.click_open_until = {} /\ e.in_typing = TRUE /\ e.in_scroll = FALSE
        /\ e.baseline = d.baseline /\ e.last_candidate = d.last_candidate
    BY <2>1, <2>2, OpenedIs DEF Detector
  <2> QED
    BY <1>2, <1>3, <2>3, OpenedIs, NoIds DEF EventGives, Emits, Owned, All
<1> QED
  BY <1>4, <1>5

LEMMA KeyEventIs ==
    ASSUME NEW d \in Detector, Owned(d), NEW at_ms \in Nat
    PROVE  EventGives(d, at_ms, KeyEvent(d, at_ms))
<1>1. PICK e : KeyEvent(d, at_ms) = [det |-> e, marker |-> {}]
               /\ e = IF d.in_typing
                      THEN [d EXCEPT !.typing_last_at = at_ms, !.typing_force_end = TRUE] ELSE d
  BY DEF KeyEvent, Nothing
<1>2. PICK out : out = KeyEvent(d, at_ms)
  OBVIOUS
<1>3. out.det = e /\ out.marker = {}
  BY <1>1, <1>2
<1>4. e \in Detector /\ Alike(e, d) /\ e.last_candidate = d.last_candidate
  BY <1>1 DEF Detector, Alike
<1> QED
  BY <1>2, <1>3, <1>4 DEF EventGives, Emits, Alike, Owned, All

LEMMA ScrollEventIs ==
    ASSUME NEW d \in Detector, Owned(d), NEW at_ms \in Nat
    PROVE  EventGives(d, at_ms, ScrollEvent(d, at_ms))
<1>1. PICK e : ScrollEvent(d, at_ms) = [det |-> e, marker |-> {}]
               /\ e = IF d.in_typing THEN d
                      ELSE IF d.in_scroll THEN [d EXCEPT !.scroll_last_at = at_ms]
                      ELSE [d EXCEPT !.scroll = Opened(d), !.click_open_until = {}, !.click = {},
                                     !.in_scroll = TRUE, !.scroll_last_at = at_ms]
  BY DEF ScrollEvent, Nothing
<1>2. PICK out : out = ScrollEvent(d, at_ms)
  OBVIOUS
<1>3. out.det = e /\ out.marker = {}
  BY <1>1, <1>2
<1>4. CASE d.in_typing \/ d.in_scroll
  <2>1. e = d \/ e = [d EXCEPT !.scroll_last_at = at_ms]
    BY <1>1, <1>4
  <2>2. e \in Detector /\ Alike(e, d) /\ e.last_candidate = d.last_candidate
    BY <2>1 DEF Detector, Alike
  <2> QED
    BY <1>2, <1>3, <2>2 DEF EventGives, Emits, Alike, Owned, All
<1>5. CASE ~d.in_typing /\ ~d.in_scroll
  <2>1. e = [d EXCEPT !.scroll = Opened(d), !.click_open_until = {}, !.click = {},
                      !.in_scroll = TRUE, !.scroll_last_at = at_ms]
    BY <1>1, <1>5
  <2>2. {} \in Opt(Nat) /\ {} \in Opt(Windows)
    BY DEF Opt
  <2>3. /\ e \in Detector /\ e.typing = d.typing /\ e.scroll = Opened(d) /\ e.click = {}
        /\ e.click_open_until = {} /\ e.in_typing = d.in_typing /\ e.in_scroll = TRUE
        /\ e.baseline = d.baseline /\ e.last_candidate = d.last_candidate
    BY <2>1, <2>2, OpenedIs DEF Detector
  <2>4. e.typing = {} /\ ~e.in_typing
    BY <1>5, <2>3 DEF Owned
  <2> QED
    BY <1>2, <1>3, <2>3, <2>4, OpenedIs, NoIds DEF EventGives, Emits, Owned, All
<1> QED
  BY <1>4, <1>5

LEMMA EventIs ==
    ASSUME NEW d \in Detector, Owned(d), NEW action \in Actions, NEW at_ms \in Nat
    PROVE  EventGives(d, at_ms, ObserveEvent(d, action, at_ms))
<1>1. action \in {"Click", "Typing", "Key", "Scroll"}
  BY DEF Actions
<1> QED
  BY <1>1, ClickEventIs, TypingEventIs, KeyEventIs, ScrollEventIs DEF ObserveEvent

-----------------------------------------------------------------------------
(* A frame, seen by the windows there are.                                 *)
FrameGives(d, f, out) ==
    /\ out.det \in Detector /\ Owned(out.det) /\ out.det.baseline # {}
    /\ Emits(out, d, f.at_ms, All(d) \cup {f.id})
    /\ All(out.det) \subseteq All(d) \cup {f.id}
    /\ Ids(out.det.click) \subseteq Ids(d.click) \cup {f.id}
    /\ out.marker # {} => All(out.det) = {}
    /\ out.det.click_open_until \subseteq d.click_open_until
    /\ Ids(out.det.click) # {} => \A t \in out.det.click_open_until : f.at_ms < t

LEMMA GivenIs ==
    ASSUME NEW luma \in Luma, NEW open \in BOOLEAN, NEW w \in Opt(Windows)
    PROVE  LET g == IF open /\ w = {} THEN {Window(luma)} ELSE w IN
           /\ g \in Opt(Windows) /\ Ids(g) = Ids(w)
           /\ g # {} => w # {} \/ open
<1>1. CASE open /\ w = {}
  BY <1>1, WindowIs, NoIds DEF Opt
<1>2. CASE ~(open /\ w = {})
  BY <1>2
<1> QED
  BY <1>1, <1>2

LEMMA FirstFrameIs ==
    ASSUME NEW d \in Detector, Owned(d), NEW f \in Frames, All(d) = {}
    PROVE  /\ FrameGives(d, f, Nothing(FirstFrame(d, f.luma)))
           /\ All(FirstFrame(d, f.luma)) = {}
<1> DEFINE Given(open, w) == IF open /\ w = {} THEN {Window(f.luma)} ELSE w
<1>1. PICK c, t, s : /\ c = Given(d.click_open_until # {}, d.click)
                     /\ t = Given(d.in_typing, d.typing)
                     /\ s = Given(d.in_scroll, d.scroll)
  OBVIOUS
<1>2. PICK e : e = [d EXCEPT !.baseline = {f.luma}, !.prev = {f.luma},
                             !.click = c, !.typing = t, !.scroll = s]
  OBVIOUS
<1>3. FirstFrame(d, f.luma) = e
  BY <1>1, <1>2 DEF FirstFrame
<1>4. /\ d.click \in Opt(Windows) /\ d.typing \in Opt(Windows) /\ d.scroll \in Opt(Windows)
      /\ d.in_typing \in BOOLEAN /\ d.in_scroll \in BOOLEAN /\ f.luma \in Luma
      /\ (d.click_open_until # {}) \in BOOLEAN
  BY DEF Detector, Frames
<1>5. c \in Opt(Windows) /\ Ids(c) = Ids(d.click)
      /\ (c # {} => d.click # {} \/ d.click_open_until # {})
  BY <1>1, <1>4, GivenIs
<1>6. t \in Opt(Windows) /\ Ids(t) = Ids(d.typing) /\ (t # {} => d.typing # {} \/ d.in_typing)
  BY <1>1, <1>4, GivenIs
<1>7. s \in Opt(Windows) /\ Ids(s) = Ids(d.scroll) /\ (s # {} => d.scroll # {} \/ d.in_scroll)
  BY <1>1, <1>4, GivenIs
<1>8. {f.luma} \in Opt(Luma)
  BY <1>4 DEF Opt
<1>9. /\ e \in Detector /\ e.baseline = {f.luma} /\ e.click = c /\ e.typing = t /\ e.scroll = s
      /\ e.in_typing = d.in_typing /\ e.in_scroll = d.in_scroll
      /\ e.click_open_until = d.click_open_until /\ e.last_candidate = d.last_candidate
  BY <1>2, <1>5, <1>6, <1>7, <1>8 DEF Detector
<1>10. Owned(e)
  BY <1>5, <1>6, <1>7, <1>9 DEF Owned
<1>11. All(e) = {} /\ Ids(e.click) = {}
  BY <1>5, <1>6, <1>7, <1>9 DEF All
<1>12. PICK out : out = Nothing(FirstFrame(d, f.luma))
  OBVIOUS
<1>13. out.det = e /\ out.marker = {}
  BY <1>3, <1>12 DEF Nothing
<1> QED
  BY <1>3, <1>9, <1>10, <1>11, <1>12, <1>13 DEF FrameGives, Emits

LEMMA ResizedIs ==
    ASSUME NEW d \in Detector, Owned(d), NEW f \in Frames
    PROVE  FrameGives(d, f, Nothing(Resized(d, f.luma)))
<1>1. PICK e : e = [d EXCEPT !.prev = {f.luma}, !.baseline = {f.luma},
              !.moving = FALSE, !.stable_count = 0, !.saw_change = FALSE,
              !.click_open_until = {}, !.click = {},
              !.in_typing = FALSE, !.typing_force_end = FALSE, !.typing = {},
              !.in_scroll = FALSE, !.scroll = {}]
  OBVIOUS
<1>2. Resized(d, f.luma) = e
  BY <1>1 DEF Resized
<1>3. {f.luma} \in Opt(Luma) /\ {} \in Opt(Windows) /\ {} \in Opt(Nat)
  BY DEF Opt, Frames
<1>4. /\ e \in Detector /\ e.baseline = {f.luma} /\ e.click = {} /\ e.typing = {} /\ e.scroll = {}
      /\ e.in_typing = FALSE /\ e.in_scroll = FALSE /\ e.click_open_until = {}
      /\ e.last_candidate = d.last_candidate
  BY <1>1, <1>3 DEF Detector
<1>5. PICK out : out = Nothing(Resized(d, f.luma))
  OBVIOUS
<1>6. out.det = e /\ out.marker = {}
  BY <1>2, <1>5 DEF Nothing
<1> QED
  BY <1>4, <1>5, <1>6, NoIds DEF FrameGives, Emits, Owned, All

(* The bookkeeping of motion leaves the windows alone.                     *)
LEMMA MovedIs ==
    ASSUME NEW d \in Detector, NEW luma \in Luma
    PROVE  LET m == Moved(d, luma) IN
           /\ m \in Detector /\ m.last_candidate = d.last_candidate
           /\ m.click = d.click /\ m.typing = d.typing /\ m.scroll = d.scroll
           /\ m.click_open_until = d.click_open_until /\ m.baseline = d.baseline
           /\ m.in_typing = d.in_typing /\ m.in_scroll = d.in_scroll
<1>1. PICK moving, saw, count :
         /\ moving = (Changed(d, luma) \/ (d.moving /\ ~Settles(d, luma)))
         /\ saw = (d.saw_change \/ Changed(d, luma))
         /\ count = (CASE Changed(d, luma) -> 0
                       [] ~Changed(d, luma) /\ d.moving -> d.stable_count + 1
                       [] OTHER -> d.stable_count)
  OBVIOUS
<1>2. d.moving \in BOOLEAN /\ d.saw_change \in BOOLEAN /\ d.stable_count \in Nat
  BY DEF Detector
<1>3. Changed(d, luma) \in BOOLEAN /\ Settles(d, luma) \in BOOLEAN
  BY DEF Changed, Settles
<1>4. moving \in BOOLEAN /\ saw \in BOOLEAN
  BY <1>1, <1>2, <1>3
<1>5. count \in Nat
  <2>1. CASE Changed(d, luma)
    BY <1>1, <2>1
  <2>2. CASE ~Changed(d, luma) /\ d.moving
    BY <1>1, <1>2, <2>2
  <2>3. CASE ~Changed(d, luma) /\ ~d.moving
    BY <1>1, <1>2, <2>3
  <2> QED
    BY <2>1, <2>2, <2>3
<1>6. PICK m : m = [d EXCEPT !.prev = {luma}, !.moving = moving, !.saw_change = saw,
                             !.stable_count = count]
  OBVIOUS
<1>7. Moved(d, luma) = m
  BY <1>1, <1>6 DEF Moved
<1>8. {luma} \in Opt(Luma)
  BY DEF Opt
<1>9. m \in Detector /\ m.last_candidate = d.last_candidate
           /\ m.click = d.click /\ m.typing = d.typing /\ m.scroll = d.scroll
           /\ m.click_open_until = d.click_open_until /\ m.baseline = d.baseline
           /\ m.in_typing = d.in_typing /\ m.in_scroll = d.in_scroll
  BY <1>4, <1>5, <1>6, <1>8 DEF Detector
<1> QED
  BY <1>7, <1>9

ClickGives(d, f, out) ==
    /\ out.det \in Detector /\ Owned(out.det)
    /\ out.det.typing = d.typing /\ out.det.scroll = d.scroll
    /\ out.det.in_typing = d.in_typing /\ out.det.in_scroll = d.in_scroll
    /\ out.det.baseline = d.baseline
    /\ Emits(out, d, f.at_ms, Ids(d.click) \cup {f.id})
    /\ out.marker # {} => All(out.det) = {}
    /\ Ids(out.det.click) \subseteq Ids(d.click) \cup {f.id}
    /\ out.det.click_open_until \subseteq d.click_open_until
    /\ \A t \in out.det.click_open_until : f.at_ms < t

LEMMA ClickFrameIs ==
    ASSUME NEW d \in Detector, Owned(d), NEW f \in Frames
    PROVE  ClickGives(d, f, ClickFrame(d, f))
<1>1. PICK seen : seen = [d EXCEPT !.click = {Observed(w, f, ~d.moving) : w \in d.click}]
  OBVIOUS
<1>2. /\ d.click \in Opt(Windows) /\ f.at_ms \in Nat
      /\ d.click_open_until \in Opt(Nat)
  BY DEF Detector, Frames
<1>3. PICK W : W = {Observed(w, f, ~d.moving) : w \in d.click}
  OBVIOUS
<1>4. /\ W \in Opt(Windows) /\ Ids(W) \subseteq Ids(d.click) \cup {f.id}
      /\ d.click = {} => W = {}
  <2>1. W = See(d.click, f, ~d.moving)
    BY <1>3 DEF See
  <2> QED
    BY <1>2, <2>1, SeeIs
<1>5. /\ seen \in Detector /\ seen.click = W /\ seen.click_open_until = d.click_open_until
      /\ seen.typing = d.typing /\ seen.scroll = d.scroll
      /\ seen.in_typing = d.in_typing /\ seen.in_scroll = d.in_scroll
      /\ seen.baseline = d.baseline /\ seen.last_candidate = d.last_candidate
  BY <1>1, <1>3, <1>4 DEF Detector
<1>6. PICK out : out = ClickFrame(d, f)
  OBVIOUS
<1>7. ASSUME NEW e \in {d, seen}, out = CloseClick(e, f.at_ms), d.click_open_until # {}
      PROVE  ClickGives(d, f, out)
  <2>1. /\ e \in Detector /\ Ids(e.click) \subseteq Ids(d.click) \cup {f.id}
        /\ e.typing = d.typing /\ e.scroll = d.scroll
        /\ e.in_typing = d.in_typing /\ e.in_scroll = d.in_scroll
        /\ e.baseline = d.baseline /\ e.last_candidate = d.last_candidate
    BY <1>4, <1>5, <1>7
  <2>2. /\ out.det \in Detector /\ Emits(out, e, f.at_ms, Ids(e.click))
        /\ out.det.click = {} /\ out.det.click_open_until = {}
        /\ out.det.typing = e.typing /\ out.det.scroll = e.scroll
        /\ out.det.in_typing = e.in_typing /\ out.det.in_scroll = e.in_scroll
        /\ out.det.baseline = e.baseline
    BY <1>2, <1>7, <2>1, CloseClickIs
  <2>3. d.typing = {} /\ d.scroll = {} /\ ~d.in_typing /\ ~d.in_scroll
    BY <1>7 DEF Owned
  <2>4. All(out.det) = {} /\ Owned(out.det)
    BY <2>1, <2>2, <2>3, NoIds DEF All, Owned
  <2>5. Emits(out, d, f.at_ms, Ids(d.click) \cup {f.id})
    BY <2>1, <2>2 DEF Emits
  <2> QED
    BY <2>1, <2>2, <2>4, <2>5, NoIds DEF ClickGives
<1>8. CASE \E t \in d.click_open_until : f.at_ms > t
  <2>1. out = CloseClick(d, f.at_ms)
    BY <1>6, <1>8 DEF ClickFrame
  <2> QED
    BY <1>6, <1>7, <1>8, <2>1
<1>9. CASE ~(\E t \in d.click_open_until : f.at_ms > t) /\ d.click_open_until = {f.at_ms}
  <2>1. out = CloseClick(seen, f.at_ms)
    BY <1>1, <1>6, <1>9 DEF ClickFrame
  <2> QED
    BY <1>6, <1>7, <1>9, <2>1
<1>10. CASE ~(\E t \in d.click_open_until : f.at_ms > t) /\ d.click_open_until # {f.at_ms}
  <2>1. out = [det |-> seen, marker |-> {}]
    BY <1>1, <1>6, <1>10 DEF ClickFrame, Nothing
  <2>2. \A t \in d.click_open_until : f.at_ms < t
    <3>1. CASE d.click_open_until = {}
      BY <3>1
    <3>2. ASSUME NEW u \in Nat, d.click_open_until = {u} PROVE f.at_ms < u
      BY <1>2, <1>10, <3>2
    <3> QED
      BY <1>2, <3>1, <3>2, OptIs
  <2>3. Owned(seen)
    BY <1>4, <1>5 DEF Owned
  <2> QED
    BY <1>4, <1>5, <1>6, <2>1, <2>2, <2>3 DEF ClickGives, Emits
<1> QED
  BY <1>8, <1>9, <1>10

LEMMA OwnerFrameIs ==
    ASSUME NEW d \in Detector, Owned(d), NEW f \in Frames
    PROVE  LET e == OwnerFrame(d, f) IN
           /\ e \in Detector /\ Owned(e) /\ All(e) \subseteq All(d) \cup {f.id}
           /\ e.click = d.click /\ e.click_open_until = d.click_open_until
           /\ e.in_typing = d.in_typing /\ e.in_scroll = d.in_scroll
           /\ e.baseline = d.baseline /\ e.last_candidate = d.last_candidate
<1>1. d.typing \in Opt(Windows)
  BY DEF Detector
<1>2. d.scroll \in Opt(Windows)
  BY DEF Detector
<1>3. PICK T : T = {Observed(w, f, ~d.moving) : w \in d.typing}
  OBVIOUS
<1>10. PICK S : S = {Observed(w, f, ~d.moving) : w \in d.scroll}
  OBVIOUS
<1>4. /\ T \in Opt(Windows) /\ Ids(T) \subseteq Ids(d.typing) \cup {f.id}
      /\ d.typing = {} => T = {}
  <2>1. T = See(d.typing, f, ~d.moving)
    BY <1>3 DEF See
  <2> QED
    BY <1>1, <2>1, SeeIs
<1>5. /\ S \in Opt(Windows) /\ Ids(S) \subseteq Ids(d.scroll) \cup {f.id}
      /\ d.scroll = {} => S = {}
  <2>1. S = See(d.scroll, f, ~d.moving)
    BY <1>10 DEF See
  <2> QED
    BY <1>2, <2>1, SeeIs
<1>6. PICK e : e = OwnerFrame(d, f)
  OBVIOUS
<1>7. CASE d.in_typing
  <2>1. e = [d EXCEPT !.typing = T]
    BY <1>3, <1>6, <1>7 DEF OwnerFrame
  <2>2. /\ e \in Detector /\ e.typing = T /\ e.scroll = d.scroll
        /\ e.click = d.click /\ e.click_open_until = d.click_open_until
        /\ e.in_typing = d.in_typing /\ e.in_scroll = d.in_scroll
        /\ e.baseline = d.baseline /\ e.last_candidate = d.last_candidate
    BY <1>4, <2>1 DEF Detector
  <2> QED
    BY <1>4, <1>6, <2>2 DEF Owned, All
<1>8. CASE ~d.in_typing /\ d.in_scroll
  <2>1. e = [d EXCEPT !.scroll = S]
    BY <1>10, <1>6, <1>8 DEF OwnerFrame
  <2>2. /\ e \in Detector /\ e.typing = d.typing /\ e.scroll = S
        /\ e.click = d.click /\ e.click_open_until = d.click_open_until
        /\ e.in_typing = d.in_typing /\ e.in_scroll = d.in_scroll
        /\ e.baseline = d.baseline /\ e.last_candidate = d.last_candidate
    BY <1>5, <2>1 DEF Detector
  <2> QED
    BY <1>5, <1>6, <2>2 DEF Owned, All
<1>9. CASE ~d.in_typing /\ ~d.in_scroll
  <2>1. e = d
    BY <1>6, <1>9 DEF OwnerFrame
  <2> QED
    BY <1>6, <2>1
<1> QED
  BY <1>7, <1>8, <1>9

(* A settled view is a step of its own unless an owner has the change; a   *)
(* click that is still open takes it, so that no window is left.           *)
LEMMA SettledIs ==
    ASSUME NEW d \in Detector, Owned(d), NEW f \in Frames,
           \A t \in d.click_open_until : f.at_ms < t
    PROVE  FrameGives(d, f, Settled(d, f))
<1> DEFINE meaningful == \A b \in d.baseline : Motion(b, f.luma)
           clicked == \E t \in d.click_open_until : f.at_ms <= t
<1>1. PICK r : r = [d EXCEPT !.baseline = {f.luma}, !.saw_change = FALSE]
  OBVIOUS
<1>2. {f.luma} \in Opt(Luma) /\ f.at_ms \in Nat /\ f.id \in Nat
  BY DEF Opt, Frames
<1>3. /\ r \in Detector /\ r.baseline = {f.luma} /\ r.click = d.click
      /\ r.click_open_until = d.click_open_until /\ r.typing = d.typing /\ r.scroll = d.scroll
      /\ r.in_typing = d.in_typing /\ r.in_scroll = d.in_scroll
      /\ r.last_candidate = d.last_candidate
  BY <1>1, <1>2 DEF Detector
<1>4. PICK out : out = Settled(d, f)
  OBVIOUS
<1>5. CASE d.in_typing \/ d.in_scroll \/ ~meaningful \/ ~Cooled(d, f.at_ms)
  <2>1. out = [det |-> r, marker |-> {}]
    BY <1>1, <1>4, <1>5 DEF Settled, Nothing
  <2>2. Owned(r) /\ All(r) = All(d)
    BY <1>3 DEF Owned, All
  <2> QED
    BY <1>3, <1>4, <2>1, <2>2 DEF FrameGives, Emits
<1>6. CASE ~(d.in_typing \/ d.in_scroll \/ ~meaningful \/ ~Cooled(d, f.at_ms))
  <2>1. PICK o, c, e :
           /\ o = (IF clicked THEN {} ELSE r.click_open_until)
           /\ c = (IF clicked THEN {} ELSE r.click)
           /\ e = [r EXCEPT !.last_candidate = {f.at_ms}, !.click_open_until = o, !.click = c]
    OBVIOUS
  <2>2. PICK k : k = IF clicked THEN "Click" ELSE "UiChanged"
    OBVIOUS
  <2>3. out = [det |-> e, marker |-> {Marker(k, f)}]
    BY <1>1, <1>4, <1>6, <2>1, <2>2 DEF Settled
  <2>4. o = {} /\ c = {}
    <3>1. CASE d.click_open_until = {}
      BY <1>3, <2>1, <3>1 DEF Owned
    <3>2. ASSUME NEW t \in Nat, d.click_open_until = {t} PROVE clicked
      BY <1>2, <3>2
    <3>3. d.click_open_until \in Opt(Nat)
      BY DEF Detector
    <3>4. d.click_open_until = {} \/ clicked
      BY <3>2, <3>3, OptIs
    <3> HIDE DEF clicked
    <3> QED
      BY <2>1, <3>1, <3>4
  <2>5. {} \in Opt(Nat) /\ {} \in Opt(Windows) /\ {f.at_ms} \in Opt(Nat)
    BY <1>2 DEF Opt
  <2>6. /\ e \in Detector /\ e.click = {} /\ e.click_open_until = {} /\ e.baseline = {f.luma}
        /\ e.typing = d.typing /\ e.scroll = d.scroll /\ e.last_candidate = {f.at_ms}
        /\ e.in_typing = d.in_typing /\ e.in_scroll = d.in_scroll
    BY <1>3, <2>1, <2>4, <2>5 DEF Detector
  <2>7. d.typing = {} /\ d.scroll = {} /\ ~d.in_typing /\ ~d.in_scroll
    BY <1>6 DEF Owned
  <2>8. All(e) = {} /\ Owned(e) /\ Ids(e.click) = {}
    BY <2>6, <2>7, NoIds DEF All, Owned
  <2>9. k \in Kinds
    BY <2>2 DEF Kinds
  <2>10. Marker(k, f) \in Markers /\ Marker(k, f).center = f.id
    BY <1>2, <2>9 DEF Marker, Markers
  <2>11. out.det = e /\ out.marker = {Marker(k, f)}
    BY <2>3
  <2>12. Emits(out, d, f.at_ms, All(d) \cup {f.id})
    BY <2>6, <2>10, <2>11 DEF Emits
  <2> QED
    BY <1>4, <2>6, <2>8, <2>11, <2>12 DEF FrameGives
<1> QED
  BY <1>5, <1>6

(* What a later part of the call gives, the call gives: the parts before   *)
(* it only let the windows see the frame.                                  *)
LEMMA FrameChain ==
    ASSUME NEW d, NEW e, NEW f, NEW out, FrameGives(e, f, out),
           e.last_candidate = d.last_candidate, All(e) \subseteq All(d) \cup {f.id},
           Ids(e.click) \subseteq Ids(d.click) \cup {f.id},
           e.click_open_until \subseteq d.click_open_until
    PROVE  FrameGives(d, f, out)
<1>1. Emits(out, d, f.at_ms, All(d) \cup {f.id})
  BY DEF FrameGives, Emits
<1> QED
  BY <1>1 DEF FrameGives

LEMMA ClosesGive ==
    ASSUME NEW e \in Detector, NEW f \in Frames, Owned(e)
    PROVE  /\ e.in_typing => FrameGives(e, f, CloseTyping(e, f))
           /\ e.in_scroll => FrameGives(e, f, CloseScroll(e, f))
<1>1. ASSUME NEW out, /\ out.det \in Detector /\ Emits(out, e, f.at_ms, All(e))
                      /\ All(out.det) = {} /\ out.det.click_open_until = {} /\ Owned(out.det)
                      /\ out.det.baseline # {} /\ out.det.click = {}
      PROVE  FrameGives(e, f, out)
  <2>1. Emits(out, e, f.at_ms, All(e) \cup {f.id})
    BY <1>1 DEF Emits
  <2> QED
    BY <1>1, <2>1, NoIds DEF FrameGives
<1>2. ASSUME e.in_typing PROVE FrameGives(e, f, CloseTyping(e, f))
  <2>1. PICK out : out = CloseTyping(e, f)
    OBVIOUS
  <2> QED
    BY <1>1, <1>2, <2>1, CloseTypingIs
<1>3. ASSUME e.in_scroll PROVE FrameGives(e, f, CloseScroll(e, f))
  <2>1. PICK out : out = CloseScroll(e, f)
    OBVIOUS
  <2> QED
    BY <1>1, <1>3, <2>1, CloseScrollIs
<1> QED
  BY <1>2, <1>3

LEMMA FrameIs ==
    ASSUME NEW d \in Detector, Owned(d), NEW f \in Frames, d.baseline = {} => All(d) = {}
    PROVE  /\ FrameGives(d, f, ObserveFrame(d, f))
           /\ d.baseline = {} => /\ ObserveFrame(d, f).marker = {}
                                 /\ All(ObserveFrame(d, f).det) = {}
<1> DEFINE moved == Moved(d, f.luma)
           click == ClickFrame(moved, f)
           owner == OwnerFrame(click.det, f)
           out == ObserveFrame(d, f)
<1>1. CASE d.baseline = {}
  <2>1. out = Nothing(FirstFrame(d, f.luma))
    BY <1>1 DEF ObserveFrame
  <2> QED
    BY <1>1, <2>1, FirstFrameIs DEF Nothing
<1>2. CASE d.baseline # {} /\ \E p \in d.prev : p.size # f.luma.size
  <2>1. out = Nothing(Resized(d, f.luma))
    BY <1>2 DEF ObserveFrame
  <2> QED
    BY <1>2, <2>1, ResizedIs
<1>3. CASE d.baseline # {} /\ ~(\E p \in d.prev : p.size # f.luma.size)
  <2>1. f.luma \in Luma
    BY DEF Frames
  <2>2. /\ moved \in Detector /\ moved.last_candidate = d.last_candidate
        /\ moved.click = d.click /\ moved.typing = d.typing /\ moved.scroll = d.scroll
        /\ moved.click_open_until = d.click_open_until /\ moved.baseline = d.baseline
        /\ moved.in_typing = d.in_typing /\ moved.in_scroll = d.in_scroll
    BY <2>1, MovedIs
  <2> HIDE DEF moved
  <2>3. Owned(moved) /\ All(moved) = All(d)
    BY <2>2 DEF Owned, All
  <2>4. ClickGives(moved, f, click)
    BY <2>2, <2>3, ClickFrameIs
  <2> HIDE DEF click
  <2>5. /\ click.det \in Detector /\ Owned(click.det)
        /\ All(click.det) \subseteq All(d) \cup {f.id}
        /\ Ids(click.det.click) \subseteq Ids(d.click) \cup {f.id}
        /\ click.det.click_open_until \subseteq d.click_open_until
        /\ click.det.baseline # {}
    BY <1>3, <2>2, <2>4 DEF ClickGives, All
  <2>6. CASE d.in_typing /\ (d.typing_force_end \/ TypingIdle(d, f) > TYPING_PAUSE)
    <3>1. out = CloseTyping(moved, f)
      BY <1>3, <2>6 DEF ObserveFrame, moved
    <3> HIDE DEF out
    <3>2. FrameGives(moved, f, out)
      BY <2>2, <2>3, <2>6, <3>1, ClosesGive
    <3>3. FrameGives(d, f, out)
      BY <2>2, <2>3, <3>2, FrameChain
    <3> QED
      BY <1>3, <3>3 DEF out
  <2> DEFINE Late == d.in_typing /\ (d.typing_force_end \/ TypingIdle(d, f) > TYPING_PAUSE)
  <2>7. CASE ~Late /\ d.in_scroll /\ ScrollIdle(d, f) > SCROLL_DWELL
    <3>1. out = CloseScroll(moved, f)
      BY <1>3, <2>7 DEF ObserveFrame, moved
    <3> HIDE DEF out
    <3>2. FrameGives(moved, f, out)
      BY <2>2, <2>3, <2>7, <3>1, ClosesGive
    <3>3. FrameGives(d, f, out)
      BY <2>2, <2>3, <3>2, FrameChain
    <3> QED
      BY <1>3, <3>3 DEF out
  <2> DEFINE Dwell == d.in_scroll /\ ScrollIdle(d, f) > SCROLL_DWELL
  <2>8. CASE ~Late /\ ~Dwell /\ click.marker # {}
    <3>1. out = click
      BY <1>3, <2>8 DEF ObserveFrame, moved, click
    <3> HIDE DEF out
    <3>2. Emits(click, d, f.at_ms, All(d) \cup {f.id})
      BY <2>2, <2>4 DEF Emits, ClickGives, All
    <3>3. All(click.det) = {}
      BY <2>4, <2>8 DEF ClickGives
    <3>4. FrameGives(d, f, click)
      BY <2>5, <3>2, <3>3 DEF FrameGives, All
    <3> QED
      BY <1>3, <3>1, <3>4 DEF out
  <2>9. CASE ~Late /\ ~Dwell /\ click.marker = {}
    <3>1. PICK own : own = OwnerFrame(click.det, f)
      OBVIOUS
    <3>2. out = IF own.in_typing /\ TypingIdle(own, f) >= TYPING_PAUSE THEN CloseTyping(own, f)
                ELSE IF own.in_scroll /\ ScrollIdle(own, f) >= SCROLL_DWELL
                     THEN CloseScroll(own, f)
                ELSE IF Settles(d, f.luma) THEN Settled(own, f) ELSE Nothing(own)
      BY <1>3, <2>9, <3>1 DEF ObserveFrame, moved, click
    <3> HIDE DEF out
    <3>3. /\ own \in Detector /\ Owned(own) /\ All(own) \subseteq All(click.det) \cup {f.id}
          /\ own.click = click.det.click
          /\ own.click_open_until = click.det.click_open_until
          /\ own.baseline = click.det.baseline
          /\ own.last_candidate = click.det.last_candidate
      BY <2>5, <3>1, OwnerFrameIs
    <3>4. /\ own.last_candidate = d.last_candidate /\ All(own) \subseteq All(d) \cup {f.id}
          /\ Ids(own.click) \subseteq Ids(d.click) \cup {f.id}
          /\ own.click_open_until \subseteq d.click_open_until
          /\ own.baseline # {}
      BY <2>2, <2>4, <2>5, <2>9, <3>3 DEF ClickGives, Emits
    <3>5. \A t \in own.click_open_until : f.at_ms < t
      BY <2>4, <3>3 DEF ClickGives
    <3>6. FrameGives(own, f, Nothing(own))
      <4>1. PICK n : n = Nothing(own)
        OBVIOUS
      <4>2. n.det = own /\ n.marker = {}
        BY <4>1 DEF Nothing
      <4>3. FrameGives(own, f, n)
        BY <3>3, <3>4, <3>5, <4>2 DEF FrameGives, Emits
      <4> QED
        BY <4>1, <4>3
    <3>7. FrameGives(own, f, Settled(own, f))
      BY <3>3, <3>5, SettledIs
    <3>8. FrameGives(own, f, out)
      BY <3>2, <3>3, <3>6, <3>7, ClosesGive
    <3>9. FrameGives(d, f, out)
      BY <3>4, <3>8, FrameChain
    <3> QED
      BY <1>3, <3>9 DEF out
  <2> QED
    BY <2>6, <2>7, <2>8, <2>9
<1> QED
  BY <1>1, <1>2, <1>3

(* The last marker of a recording is of a frame an open window has seen,   *)
(* or of the last frame if no marker was found just before it.             *)
LEMMA FinishIs ==
    ASSUME NEW d \in Detector, Owned(d), NEW id \in Nat, NEW at_ms \in Nat,
           NEW f, f = [id |-> id, at_ms |-> at_ms]
    PROVE  LET out == DetectorFinish(d, f) IN
           \/ out.marker = {}
           \/ \E m \in Markers : /\ out.marker = {m}
                                 /\ m.center \in All(d) \/ (m.center = id /\ Cooled(d, at_ms))
<1> DEFINE out == DetectorFinish(d, f)
           Good(o) == \/ o.marker = {}
                      \/ \E m \in Markers : /\ o.marker = {m}
                                            /\ m.center \in All(d) \/ (m.center = id /\ Cooled(d, at_ms))
           click == IF d.click_open_until = {} THEN Nothing(d) ELSE CloseClick(d, f.at_ms)
<1>1. f.id = id /\ f.at_ms = at_ms
  OBVIOUS
<1>2. /\ click.det \in Detector /\ Emits(click, d, at_ms, All(d))
      /\ click.det.in_typing = d.in_typing
  <2>1. CASE d.click_open_until = {}
    <3>1. click = [det |-> d, marker |-> {}]
      BY <2>1 DEF Nothing
    <3> QED
      BY <3>1 DEF Emits
  <2>2. CASE d.click_open_until # {}
    <3>1. click = CloseClick(d, at_ms)
      BY <1>1, <2>2
    <3> HIDE DEF click
    <3> QED
      BY <3>1, CloseClickIs DEF Emits, All
  <2> QED
    BY <2>1, <2>2
<1>3. PICK e, g : /\ e = [click.det EXCEPT !.typing = {}, !.in_typing = FALSE,
                                            !.typing_force_end = FALSE]
                  /\ g = [click.det EXCEPT !.scroll = {}, !.in_scroll = FALSE,
                                            !.saw_change = FALSE]
  OBVIOUS
<1>4. \/ out = click
      \/ click.marker = {} /\ out = Semantic(e, d.typing, f.at_ms, "Typing")
      \/ click.marker = {} /\ out = Semantic(g, d.scroll, f.at_ms, "Scroll")
      \/ /\ click.marker = {} /\ Cooled(click.det, f.at_ms)
         /\ out.marker = {Marker("UiChanged", f)}
  BY <1>3 DEF DetectorFinish
<1> HIDE DEF click, out
<1>5. CASE out = click
  BY <1>2, <1>5 DEF Emits, out
<1>6. {} \in Opt(Windows) /\ d.typing \in Opt(Windows) /\ d.scroll \in Opt(Windows)
      /\ "Typing" \in Kinds /\ "Scroll" \in Kinds
  BY DEF Opt, Detector, Kinds
<1>7. e \in Detector /\ g \in Detector
  BY <1>2, <1>3, <1>6 DEF Detector
<1>8. CASE out = Semantic(e, d.typing, f.at_ms, "Typing")
  <2>1. Emits(out, e, at_ms, Ids(d.typing))
    BY <1>1, <1>6, <1>7, <1>8, SemanticIs
  <2> QED
    BY <2>1 DEF Emits, All, out
<1>9. CASE out = Semantic(g, d.scroll, f.at_ms, "Scroll")
  <2>1. Emits(out, g, at_ms, Ids(d.scroll))
    BY <1>1, <1>6, <1>7, <1>9, SemanticIs
  <2> QED
    BY <2>1 DEF Emits, All, out
<1>10. CASE click.marker = {} /\ Cooled(click.det, f.at_ms)
            /\ out.marker = {Marker("UiChanged", f)}
  <2>1. click.det.last_candidate = d.last_candidate
    BY <1>2, <1>10 DEF Emits
  <2>2. Cooled(d, at_ms)
    BY <1>1, <1>10, <2>1 DEF Cooled
  <2>3. Marker("UiChanged", f) \in Markers /\ Marker("UiChanged", f).center = id
    BY <1>1 DEF Marker, Markers, Kinds
  <2> QED
    BY <1>10, <2>2, <2>3 DEF out
<1> QED
  BY <1>4, <1>5, <1>8, <1>9, <1>10

-----------------------------------------------------------------------------
(* The store: what is retained around a frame of the ring is an interval   *)
(* that has the frame, and the strip is a part of it that has it too.      *)
LEMMA RetainIs ==
    ASSUME NEW c \in Nat, NEW n \in Nat, InRing(c, n)
    PROVE  \E a \in Nat, b \in Nat : /\ RetainWindow(c, n) = a..b /\ a <= c /\ c <= b
                                     /\ n >= c + WINDOW_AFTER => b = c + WINDOW_AFTER
<1> DEFINE old == Oldest(n)
           a == Max2(old, Minus(c, WINDOW_BEFORE))
           b == Min2(n, c + WINDOW_AFTER)
<1>1. old \in Nat /\ old <= c /\ c <= n
  <2>1. Minus(n, RING_CAPACITY) \in Nat
    BY ConstantsAreNumbers, MinusIs
  <2>2. old = Minus(n, RING_CAPACITY) + 1
    BY DEF Oldest
  <2> HIDE DEF old
  <2>3. c \in old..n
    BY DEF InRing, old
  <2> QED
    BY <2>1, <2>2, <2>3
<1>2. Minus(c, WINDOW_BEFORE) \in Nat /\ Minus(c, WINDOW_BEFORE) <= c
  BY ConstantsAreNumbers, MinusIs
<1>3. RetainWindow(c, n) = a..b
  BY DEF RetainWindow
<1> HIDE DEF old
<1>4. a \in Nat /\ a <= c
  BY <1>1, <1>2, ExtremesAre
<1>5. c + WINDOW_AFTER \in Nat /\ c <= c + WINDOW_AFTER
  BY ConstantsAreNumbers
<1>6. b \in Nat /\ c <= b /\ (n >= c + WINDOW_AFTER => b = c + WINDOW_AFTER)
  BY <1>1, <1>5 DEF Min2
<1> QED
  BY <1>3, <1>4, <1>6

LEMMA NearbyIs ==
    ASSUME NEW a \in Nat, NEW b \in Nat, NEW c \in Nat, a <= c, c <= b
    PROVE  /\ c \in Nearby(a..b, c) /\ Nearby(a..b, c) \subseteq a..b
           /\ Cardinality(Nearby(a..b, c)) <= NEARBY_MAX
<1> DEFINE size == Cardinality(a..b)
           first == CHOOSE i \in a..b : \A k \in a..b : i <= k
           half == NEARBY_MAX \div 2
           from == first + Min2(Minus(c - first, half), size - NEARBY_MAX)
<1>1. size = b - a + 1 /\ size \in Nat
  BY FS_Interval
<1>2. first = a
  <2>1. a \in a..b /\ \A k \in a..b : a <= k
    OBVIOUS
  <2>2. first \in a..b /\ \A k \in a..b : first <= k
    BY <2>1
  <2> HIDE DEF first
  <2> QED
    BY <2>1, <2>2
<1>3. half \in Nat /\ half < NEARBY_MAX
  BY ConstantsAreNumbers
<1>4. Nearby(a..b, c) = IF size <= NEARBY_MAX THEN a..b ELSE from..(from + NEARBY_MAX - 1)
  BY DEF Nearby
<1> HIDE DEF size, first, half
<1>5. CASE size <= NEARBY_MAX
  BY <1>1, <1>4, <1>5 DEF size
<1>6. CASE size > NEARBY_MAX
  <2>1. c - first \in Nat /\ c - first = c - a
    BY <1>2
  <2> DEFINE m == Minus(c - first, half)
  <2>2. m \in Nat /\ m <= c - a /\ (c - a >= half => m = c - a - half) /\ (c - a < half => m = 0)
    BY <1>3, <2>1, MinusIs
  <2> HIDE DEF m
  <2> DEFINE s == Min2(m, size - NEARBY_MAX)
  <2>3. NEARBY_MAX \in Nat /\ NEARBY_MAX > 0
    BY ConstantsAreNumbers
  <2>4. s \in {m, size - NEARBY_MAX} /\ s <= m /\ s <= size - NEARBY_MAX
    BY <1>1, <2>2, <2>3, ExtremesAre
  <2>5. from = a + s
    BY <1>2 DEF m
  <2> HIDE DEF from, s
  <2>6. from \in Nat /\ a <= from /\ from <= c /\ c <= from + NEARBY_MAX - 1
        /\ from + NEARBY_MAX - 1 <= b
    <3>1. CASE s = m
      BY <1>1, <1>3, <1>6, <2>2, <2>3, <2>4, <2>5, <3>1
    <3>2. CASE s = size - NEARBY_MAX
      BY <1>1, <1>3, <1>6, <2>2, <2>3, <2>4, <2>5, <3>2
    <3> QED
      BY <2>4, <3>1, <3>2
  <2>7. Nearby(a..b, c) = from..(from + NEARBY_MAX - 1)
    BY <1>1, <1>4, <1>6, <2>3
  <2>8. Cardinality(from..(from + NEARBY_MAX - 1)) = NEARBY_MAX
    <3>1. from \in Int /\ from + NEARBY_MAX - 1 \in Int
      BY <2>3, <2>6
    <3>2. Cardinality(from..(from + NEARBY_MAX - 1))
             = IF from > from + NEARBY_MAX - 1 THEN 0 ELSE (from + NEARBY_MAX - 1) - from + 1
      BY <3>1, FS_Interval
    <3> QED
      BY <2>3, <2>6, <3>2
  <2> QED
    BY <2>3, <2>6, <2>7, <2>8
<1> QED
  BY <1>1, <1>5, <1>6, ConstantsAreNumbers

-----------------------------------------------------------------------------
(* The markers that wait, and the steps made of them.                      *)
Waits == [marker : Markers, queued_at : Nat, resolve_at : Nat]
Steps == [kind : Kinds, at_ms : Nat, keyframe : Nat, nearby : SUBSET Nat]

(* A queue is in the order of its frames and of its arrivals.              *)
Lined(queue, n) ==
    /\ queue \in Seq(Waits)
    /\ \A i \in DOMAIN queue : /\ queue[i].marker.center >= 1
                               /\ queue[i].marker.center <= queue[i].queued_at
                               /\ queue[i].queued_at <= n
    /\ \A i, k \in DOMAIN queue :
          i < k => /\ queue[i].marker.center < queue[k].marker.center
                   /\ queue[i].queued_at <= queue[k].queued_at

(* A step made of the marker of a frame.                                   *)
Made(step, center, n, store) ==
    /\ InRing(center, n) /\ step.keyframe = center /\ center \in step.nearby
    /\ Cardinality(step.nearby) <= NEARBY_MAX /\ step.nearby \subseteq store
    /\ RetainWindow(center, n) \subseteq store

LEMMA PositionsAre ==
    ASSUME NEW queue, queue \in Seq(Waits), NEW S \in SUBSET (DOMAIN queue)
    PROVE  /\ S \in SUBSET Nat /\ IsFiniteSet(S) /\ Cardinality(S) \in Nat
           /\ \A i \in 1..Cardinality(S) : Nth(S, i) \in S
           /\ \A i, k \in 1..Cardinality(S) : i < k => Nth(S, i) < Nth(S, k)
<1>1. DOMAIN queue = 1..Len(queue) /\ Len(queue) \in Nat
  OBVIOUS
<1>2. IsFiniteSet(1..Len(queue))
  BY <1>1, FS_Interval
<1>3. S \in SUBSET Nat /\ IsFiniteSet(S)
  BY <1>1, <1>2, FS_Subset
<1> QED
  BY <1>3, NthIs, NthGrows, FS_CardinalityType

LEMMA OnlyIs ==
    ASSUME NEW queue, queue \in Seq(Waits), NEW S \in SUBSET (DOMAIN queue)
    PROVE  /\ Only(queue, S) \in Seq(Waits) /\ DOMAIN Only(queue, S) = 1..Cardinality(S)
           /\ \A i \in 1..Cardinality(S) : Only(queue, S)[i] = queue[Nth(S, i)]
<1>1. Cardinality(S) \in Nat /\ \A i \in 1..Cardinality(S) : Nth(S, i) \in DOMAIN queue
  BY PositionsAre
<1>2. \A i \in 1..Cardinality(S) : queue[Nth(S, i)] \in Waits
  BY <1>1
<1> QED
  BY <1>1, <1>2 DEF Only

StepOf(p, n) ==
    [kind |-> p.marker.kind, at_ms |-> p.marker.at_ms, keyframe |-> p.marker.center,
     nearby |-> Nearby(RetainWindow(p.marker.center, n), p.marker.center)]

LEMMA StepIs ==
    ASSUME NEW p \in Waits, NEW n \in Nat, InRing(p.marker.center, n),
           NEW store, RetainWindow(p.marker.center, n) \subseteq store
    PROVE  StepOf(p, n) \in Steps /\ Made(StepOf(p, n), p.marker.center, n, store)
<1>1. p.marker \in Markers /\ p.marker.center \in Nat /\ p.marker.kind \in Kinds
      /\ p.marker.at_ms \in Nat
  BY DEF Waits, Markers
<1>2. PICK a \in Nat, b \in Nat : /\ RetainWindow(p.marker.center, n) = a..b
                                  /\ a <= p.marker.center /\ p.marker.center <= b
  BY <1>1, RetainIs
<1>3. PICK N : N = Nearby(RetainWindow(p.marker.center, n), p.marker.center)
  OBVIOUS
<1>4. p.marker.center \in N /\ N \subseteq a..b /\ Cardinality(N) <= NEARBY_MAX
  BY <1>1, <1>2, <1>3, NearbyIs
<1>5. N \in SUBSET Nat
  BY <1>4
<1>6. StepOf(p, n) = [kind |-> p.marker.kind, at_ms |-> p.marker.at_ms,
                      keyframe |-> p.marker.center, nearby |-> N]
  BY <1>3 DEF StepOf
<1>7. StepOf(p, n) \in Steps
  BY <1>1, <1>5, <1>6 DEF Steps
<1> QED
  BY <1>2, <1>4, <1>6, <1>7 DEF Made

(* The steps there are and the markers of a queue are in order; or only    *)
(* the last one repeats a frame.                                           *)
Increasing ==
    \A i, k \in DOMAIN candidates : i < k => candidates[i].keyframe < candidates[k].keyframe

InOrder(queue) ==
    /\ Increasing
    /\ \A i \in DOMAIN candidates, k \in DOMAIN queue :
          candidates[i].keyframe < queue[k].marker.center
    /\ \A i, k \in DOMAIN queue : i < k => queue[i].marker.center < queue[k].marker.center

LastRepeats(steps) ==
    \A i, k \in DOMAIN steps :
        i < k => \/ steps[i].keyframe < steps[k].keyframe
                 \/ k = Len(steps) /\ steps[i].keyframe = steps[k].keyframe

InOrderToLast(queue) ==
    /\ Increasing
    /\ \A i \in DOMAIN candidates, k \in DOMAIN queue :
          \/ candidates[i].keyframe < queue[k].marker.center
          \/ k = Len(queue) /\ candidates[i].keyframe = queue[k].marker.center
    /\ \A i, k \in DOMAIN queue :
          i < k => \/ queue[i].marker.center < queue[k].marker.center
                   \/ k = Len(queue) /\ queue[i].marker.center = queue[k].marker.center

LEMMA FinalizeIs ==
    ASSUME NEW n \in Nat, NEW queue, queue \in Seq(Waits), NEW due \in SUBSET (DOMAIN queue),
           Finalize(queue, due, n), candidates \in Seq(Steps)
    PROVE  /\ candidates' \in Seq(Steps) /\ retained \subseteq retained'
           /\ InOrder(queue) => Increasing'
           /\ InOrderToLast(queue) => LastRepeats(candidates')
           /\ \A j \in DOMAIN candidates' :
                 \/ \E i \in DOMAIN candidates : candidates'[j] = candidates[i]
                 \/ \E i \in due : Made(candidates'[j], queue[i].marker.center, n, retained')
           /\ \A p \in lost' : p \in lost \/ \E i \in due : /\ p = queue[i]
                                                            /\ ~InRing(p.marker.center, n)
<1> DEFINE kept == {i \in due : InRing(queue[i].marker.center, n)}
           K == Cardinality(kept)
           new == [i \in 1..K |-> StepOf(Only(queue, kept)[i], n)]
           L == Len(candidates)
<1>1. /\ candidates' = candidates \o new
      /\ retained' = retained \cup UNION {RetainWindow(queue[i].marker.center, n) : i \in kept}
      /\ lost' = lost \cup {queue[i] : i \in due \ kept}
  BY DEF Finalize, StepOf
<1>2. kept \in SUBSET (DOMAIN queue)
  OBVIOUS
<1>3. \A i \in kept : i \in due /\ i \in DOMAIN queue /\ InRing(queue[i].marker.center, n)
  OBVIOUS
<1>4. \A i \in kept : RetainWindow(queue[i].marker.center, n) \subseteq retained'
  BY <1>1
<1>5. \A p \in lost' : p \in lost \/ \E i \in due : /\ p = queue[i]
                                                    /\ ~InRing(p.marker.center, n)
  BY <1>1
<1> HIDE DEF kept
<1>6. K \in Nat /\ (\A i \in 1..K : Nth(kept, i) \in kept)
      /\ \A i, k \in 1..K : i < k => Nth(kept, i) < Nth(kept, k)
  BY <1>2, PositionsAre
<1>7. \A i \in 1..K : Only(queue, kept)[i] = queue[Nth(kept, i)]
  BY <1>2, OnlyIs
<1>8. ASSUME NEW i \in 1..K
      PROVE  /\ new[i] \in Steps /\ Nth(kept, i) \in due /\ Nth(kept, i) \in DOMAIN queue
             /\ new[i].keyframe = queue[Nth(kept, i)].marker.center
             /\ Made(new[i], queue[Nth(kept, i)].marker.center, n, retained')
  <2>1. PICK k : k = Nth(kept, i)
    OBVIOUS
  <2>2. k \in kept /\ k \in due /\ k \in DOMAIN queue /\ InRing(queue[k].marker.center, n)
    BY <1>3, <1>6, <2>1
  <2>3. queue[k] \in Waits
    BY <1>2, <2>2
  <2>4. new[i] = StepOf(queue[k], n)
    BY <1>7, <2>1
  <2>5. RetainWindow(queue[k].marker.center, n) \subseteq retained'
    BY <1>4, <2>2
  <2> HIDE DEF new
  <2>6. new[i] \in Steps /\ Made(new[i], queue[k].marker.center, n, retained')
    BY <2>2, <2>3, <2>4, <2>5, StepIs
  <2> QED
    BY <2>1, <2>2, <2>6 DEF Made
<1>9. new \in Seq(Steps) /\ Len(new) = K /\ DOMAIN new = 1..K
  <2>1. \A i \in 1..K : StepOf(Only(queue, kept)[i], n) \in Steps
    BY <1>8
  <2> HIDE DEF K
  <2> QED
    BY <1>6, <2>1
<1> HIDE DEF new, K
<1>10. /\ candidates' \in Seq(Steps) /\ L \in Nat /\ Len(candidates') = L + K
       /\ \A j \in 1..L : candidates'[j] = candidates[j]
       /\ \A j \in 1..(L + K) : j > L => candidates'[j] = new[j - L]
  <2>1. PICK s, t : s = candidates /\ t = new
    OBVIOUS
  <2>2. s \in Seq(Steps) /\ t \in Seq(Steps) /\ candidates' = s \o t
    BY <1>1, <1>9, <2>1
  <2>3. Len(s) = L /\ Len(t) = K
    BY <1>9, <2>1
  <2>4. s \o t \in Seq(Steps) /\ Len(s) \in Nat /\ Len(s \o t) = Len(s) + Len(t)
    BY <2>2
  <2>5. \A j \in 1..Len(s) : (s \o t)[j] = s[j]
    BY <2>2
  <2>6. \A j \in 1..(Len(s) + Len(t)) : j > Len(s) => (s \o t)[j] = t[j - Len(s)]
    BY <2>2
  <2> HIDE DEF L
  <2> QED
    BY <2>1, <2>2, <2>3, <2>4, <2>5, <2>6
<1> HIDE DEF L
<1>11. DOMAIN candidates' = 1..(L + K) /\ DOMAIN candidates = 1..L
  BY <1>10 DEF L
<1>12. ASSUME NEW j \in DOMAIN candidates'
       PROVE  \/ \E i \in DOMAIN candidates : candidates'[j] = candidates[i]
              \/ \E i \in due : Made(candidates'[j], queue[i].marker.center, n, retained')
  <2>1. CASE j <= L
    BY <1>10, <1>11, <2>1
  <2>2. CASE j > L
    <3>1. j - L \in 1..K /\ candidates'[j] = new[j - L]
      BY <1>6, <1>10, <1>11, <2>2
    <3> QED
      BY <1>8, <3>1
  <2> QED
    BY <1>10, <1>11, <2>1, <2>2
<1>13. ASSUME InOrder(queue), NEW i \in DOMAIN candidates', NEW k \in DOMAIN candidates', i < k
       PROVE  candidates'[i].keyframe < candidates'[k].keyframe
  <2>0. i \in Nat /\ k \in Nat /\ L \in Nat /\ K \in Nat
    BY <1>6, <1>10, <1>11
  <2>1. CASE k <= L
    <3>1. i \in DOMAIN candidates /\ k \in DOMAIN candidates
          /\ candidates'[i] = candidates[i] /\ candidates'[k] = candidates[k]
      BY <1>10, <1>11, <1>13, <2>0, <2>1
    <3> QED
      BY <1>13, <3>1 DEF Increasing, InOrder
  <2>2. CASE i <= L /\ k > L
    <3>1. i \in DOMAIN candidates /\ candidates'[i] = candidates[i]
      BY <1>10, <1>11, <2>0, <2>2
    <3>2. k - L \in 1..K /\ candidates'[k] = new[k - L]
      BY <1>10, <1>11, <2>0, <2>2
    <3> QED
      BY <1>8, <1>13, <3>1, <3>2 DEF InOrder
  <2>3. CASE i > L
    <3>1. i - L \in 1..K /\ candidates'[i] = new[i - L]
      BY <1>10, <1>11, <2>0, <2>3
    <3>2. k - L \in 1..K /\ candidates'[k] = new[k - L] /\ i - L < k - L
      BY <1>10, <1>11, <1>13, <2>0, <2>3
    <3>3. Nth(kept, i - L) < Nth(kept, k - L)
      BY <1>6, <3>1, <3>2
    <3>4. queue[Nth(kept, i - L)].marker.center < queue[Nth(kept, k - L)].marker.center
      BY <1>8, <1>13, <3>1, <3>2, <3>3 DEF InOrder
    <3> QED
      BY <1>8, <3>1, <3>2, <3>4
  <2> QED
    BY <2>0, <2>1, <2>2, <2>3
<1>14. ASSUME NEW k \in DOMAIN candidates', k > L, Nth(kept, k - L) = Len(queue)
       PROVE  k = Len(candidates')
  <2>1. k \in Nat /\ L \in Nat /\ K \in Nat /\ k <= L + K /\ k - L \in 1..K
    BY <1>6, <1>10, <1>11, <1>14
  <2>2. SUFFICES ASSUME k - L < K PROVE FALSE
    BY <1>10, <2>1
  <2>3. K \in 1..K
    BY <2>1, <2>2
  <2>4. Nth(kept, k - L) < Nth(kept, K) /\ Nth(kept, K) \in DOMAIN queue
    BY <1>6, <1>8, <2>1, <2>2, <2>3
  <2>5. DOMAIN queue = 1..Len(queue) /\ Len(queue) \in Nat
    OBVIOUS
  <2> QED
    BY <1>14, <2>4, <2>5
<1>15. ASSUME InOrderToLast(queue), NEW i \in DOMAIN candidates', NEW k \in DOMAIN candidates',
              i < k
       PROVE  \/ candidates'[i].keyframe < candidates'[k].keyframe
              \/ k = Len(candidates') /\ candidates'[i].keyframe = candidates'[k].keyframe
  <2>0. i \in Nat /\ k \in Nat /\ L \in Nat /\ K \in Nat
    BY <1>6, <1>10, <1>11
  <2>1. CASE k <= L
    <3>1. i \in DOMAIN candidates /\ k \in DOMAIN candidates
          /\ candidates'[i] = candidates[i] /\ candidates'[k] = candidates[k]
      BY <1>10, <1>11, <1>15, <2>0, <2>1
    <3> QED
      BY <1>15, <3>1 DEF Increasing, InOrderToLast
  <2>2. CASE k > L
    <3>1. k - L \in 1..K /\ candidates'[k] = new[k - L]
      BY <1>10, <1>11, <2>0, <2>2
    <3>2. PICK q \in DOMAIN queue : q = Nth(kept, k - L)
      BY <1>8, <3>1
    <3>3. candidates'[k].keyframe = queue[q].marker.center
      BY <1>8, <3>1, <3>2
    <3>4. q = Len(queue) => k = Len(candidates')
      BY <1>14, <2>2, <3>2
    <3>5. CASE i <= L
      <4>1. i \in DOMAIN candidates /\ candidates'[i] = candidates[i]
        BY <1>10, <1>11, <2>0, <3>5
      <4>2. \/ candidates[i].keyframe < queue[q].marker.center
            \/ q = Len(queue) /\ candidates[i].keyframe = queue[q].marker.center
        BY <1>15, <3>2, <4>1 DEF InOrderToLast
      <4> QED
        BY <3>3, <3>4, <4>1, <4>2
    <3>6. CASE i > L
      <4>1. i - L \in 1..K /\ candidates'[i] = new[i - L]
        BY <1>10, <1>11, <2>0, <3>6
      <4>2. PICK p \in DOMAIN queue : p = Nth(kept, i - L)
        BY <1>8, <4>1
      <4>3. candidates'[i].keyframe = queue[p].marker.center
        BY <1>8, <4>1, <4>2
      <4>4. i - L < k - L
        BY <1>15, <2>0
      <4>5. p < q
        BY <1>6, <3>1, <3>2, <4>1, <4>2, <4>4
      <4>6. \/ queue[p].marker.center < queue[q].marker.center
            \/ q = Len(queue) /\ queue[p].marker.center = queue[q].marker.center
        BY <1>15, <4>5 DEF InOrderToLast
      <4> QED
        BY <3>3, <3>4, <4>3, <4>6
    <3> QED
      BY <2>0, <3>5, <3>6
  <2> QED
    BY <2>0, <2>1, <2>2
<1>16. InOrder(queue) => Increasing'
  BY <1>13 DEF Increasing
<1>17. InOrderToLast(queue) => LastRepeats(candidates')
  BY <1>15 DEF LastRepeats
<1> QED
  BY <1>1, <1>5, <1>10, <1>12, <1>16, <1>17

(* A step that repeats the frame of an earlier one repeats the one before  *)
(* it, when all but the last are in order.                                 *)
LEMMA RepeatsOne ==
    ASSUME NEW steps, steps \in Seq(Steps), LastRepeats(steps),
           NEW i \in DOMAIN steps, NEW k \in DOMAIN steps, i < k,
           ~(steps[i].keyframe < steps[k].keyframe)
    PROVE  /\ i + 1 = k /\ k = Len(steps)
           /\ steps[i].keyframe = steps[k].keyframe
<1>1. k = Len(steps) /\ steps[i].keyframe = steps[k].keyframe
  BY DEF LastRepeats
<1>2. DOMAIN steps = 1..Len(steps) /\ Len(steps) \in Nat
  OBVIOUS
<1>3. SUFFICES ASSUME i + 1 < k PROVE FALSE
  BY <1>1, <1>2
<1>4. i + 1 \in DOMAIN steps /\ i < i + 1 /\ i + 1 # Len(steps)
  BY <1>1, <1>2, <1>3
<1>5. /\ steps[i].keyframe \in Nat /\ steps[i + 1].keyframe \in Nat
      /\ steps[k].keyframe \in Nat
  <2>1. steps[i] \in Steps /\ steps[i + 1] \in Steps /\ steps[k] \in Steps
    BY <1>4
  <2> QED
    BY <2>1 DEF Steps
<1>6. steps[i].keyframe < steps[i + 1].keyframe
  BY <1>4 DEF LastRepeats
<1>7. \/ steps[i + 1].keyframe < steps[k].keyframe
      \/ steps[i + 1].keyframe = steps[k].keyframe
  BY <1>3, <1>4 DEF LastRepeats
<1> QED
  BY <1>1, <1>5, <1>6, <1>7

-----------------------------------------------------------------------------
(* A marker goes to the end of the queue, and is due when the frames after *)
(* it have been seen.                                                      *)
DueAt(center, n) == Max2(n, center + WINDOW_AFTER)

LEMMA RemainingIs ==
    ASSUME NEW c \in Nat, NEW n \in Nat, c <= n
    PROVE  /\ RemainingAfter(c, n) \in Nat
           /\ n + RemainingAfter(c, n) = DueAt(c, n)
<1>1. Minus(n, c) = n - c /\ n - c \in Nat /\ WINDOW_AFTER \in Nat
  BY ConstantsAreNumbers, MinusIs
<1>2. RemainingAfter(c, n) = Minus(WINDOW_AFTER, n - c)
  BY <1>1 DEF RemainingAfter
<1> QED
  BY <1>1, <1>2 DEF Minus, DueAt, Max2

LEMMA SeqOfNone == SetToSeq({}) = << >>
<1> DEFINE F == [1..0 -> {}]
<1>1. Cardinality({}) = 0
  BY FS_EmptySet
<1>2. PICK f : f = SetToSeq({})
  OBVIOUS
<1>3. \E g \in [1..Cardinality({}) -> {}] : IsInjective(g)
  <2>1. << >> \in [1..0 -> {}]
    OBVIOUS
  <2>2. IsInjective(<< >>)
    BY DEF IsInjective
  <2> QED
    BY <1>1, <2>1, <2>2
<1>4. f \in [1..0 -> {}]
  BY <1>1, <1>2, <1>3 DEF SetToSeq
<1> QED
  BY <1>2, <1>4

LEMMA SeqOfOne ==
    ASSUME NEW x
    PROVE  SetToSeq({x}) = <<x>>
<1>1. Cardinality({x}) = 1
  BY FS_Singleton
<1>2. PICK f : f = SetToSeq({x})
  OBVIOUS
<1>3. \E g \in [1..Cardinality({x}) -> {x}] : IsInjective(g)
  <2>1. <<x>> \in [1..1 -> {x}]
    OBVIOUS
  <2>2. IsInjective(<<x>>)
    BY DEF IsInjective
  <2> QED
    BY <1>1, <2>1, <2>2
<1>4. f \in [1..1 -> {x}]
  BY <1>1, <1>2, <1>3 DEF SetToSeq
<1> QED
  BY <1>2, <1>4

WaitOf(m, n, finishing) ==
    [marker |-> m, queued_at |-> n,
     resolve_at |-> n + IF finishing THEN 0 ELSE RemainingAfter(m.center, n)]

(* A queue made longer by a marker, if there is one.                       *)
Longer(longer, queue, marker, n, finishing) ==
    /\ longer \in Seq(Waits)
    /\ \A i \in DOMAIN queue : i \in DOMAIN longer /\ longer[i] = queue[i]
    /\ marker = {} => longer = queue
    /\ \A m : marker = {m} =>
         /\ Len(longer) = Len(queue) + 1
         /\ longer[Len(longer)] = WaitOf(m, n, finishing)
         /\ \A i \in DOMAIN longer : i \in DOMAIN queue \/ i = Len(longer)

LEMMA QueuedIs ==
    ASSUME NEW n \in Nat, NEW finishing, NEW queue, queue \in Seq(Waits), NEW marker,
           marker = {} \/ \E m \in Markers : marker = {m} /\ m.center <= n
    PROVE  Longer(queue \o SetToSeq(Queued(marker, n, finishing)), queue, marker, n, finishing)
<1> DEFINE longer == queue \o SetToSeq(Queued(marker, n, finishing))
<1>1. CASE marker = {}
  <2>1. Queued(marker, n, finishing) = {}
    BY <1>1 DEF Queued
  <2>2. longer = queue \o << >>
    BY <2>1, SeqOfNone
  <2>3. longer = queue
    BY <2>2
  <2>4. \A m : marker # {m}
    BY <1>1
  <2> QED
    BY <2>3, <2>4 DEF Longer
<1>2. ASSUME NEW m \in Markers, marker = {m}, m.center <= n
      PROVE  /\ longer \in Seq(Waits)
             /\ \A i \in DOMAIN queue : i \in DOMAIN longer /\ longer[i] = queue[i]
             /\ Len(longer) = Len(queue) + 1
             /\ longer[Len(longer)] = WaitOf(m, n, finishing)
             /\ \A i \in DOMAIN longer : i \in DOMAIN queue \/ i = Len(longer)
  <2>1. Queued(marker, n, finishing) = {WaitOf(m, n, finishing)}
    BY <1>2 DEF Queued, WaitOf
  <2>2. PICK w : w = WaitOf(m, n, finishing)
    OBVIOUS
  <2>3. longer = queue \o <<w>>
    BY <2>1, <2>2, SeqOfOne
  <2>4. w \in Waits
    <3>1. m.center \in Nat
      BY DEF Markers
    <3>2. RemainingAfter(m.center, n) \in Nat
      BY <1>2, <3>1, RemainingIs
    <3> QED
      BY <2>2, <3>2 DEF WaitOf, Waits
  <2> HIDE DEF longer
  <2>5. /\ longer \in Seq(Waits) /\ Len(longer) = Len(queue) + 1 /\ Len(queue) \in Nat
        /\ \A i \in 1..Len(queue) : longer[i] = queue[i]
        /\ longer[Len(queue) + 1] = w
    BY <2>3, <2>4
  <2>6. DOMAIN longer = 1..(Len(queue) + 1) /\ DOMAIN queue = 1..Len(queue)
    BY <2>5
  <2> QED
    BY <2>2, <2>5, <2>6
<1>3. ASSUME NEW m \in Markers, marker = {m}, m.center <= n, NEW k, marker = {k}
      PROVE k = m
  BY <1>3
<1> HIDE DEF longer
<1>4. CASE \E m \in Markers : marker = {m} /\ m.center <= n
  <2>1. PICK m \in Markers : marker = {m} /\ m.center <= n
    BY <1>4
  <2>2. marker # {} /\ \A k : marker = {k} => k = m
    BY <2>1
  <2> QED
    <3>1. /\ longer \in Seq(Waits)
          /\ \A i \in DOMAIN queue : i \in DOMAIN longer /\ longer[i] = queue[i]
          /\ Len(longer) = Len(queue) + 1
          /\ longer[Len(longer)] = WaitOf(m, n, finishing)
          /\ \A i \in DOMAIN longer : i \in DOMAIN queue \/ i = Len(longer)
      BY <1>2, <2>1
    <3>2. \A k : marker = {k} =>
             /\ Len(longer) = Len(queue) + 1
             /\ longer[Len(longer)] = WaitOf(k, n, finishing)
             /\ \A i \in DOMAIN longer : i \in DOMAIN queue \/ i = Len(longer)
      <4> SUFFICES ASSUME NEW k, marker = {k}
                   PROVE  /\ Len(longer) = Len(queue) + 1
                          /\ longer[Len(longer)] = WaitOf(k, n, finishing)
                          /\ \A i \in DOMAIN longer : i \in DOMAIN queue \/ i = Len(longer)
        OBVIOUS
      <4>1. k = m
        BY <2>2
      <4> QED
        BY <3>1, <4>1
    <3>3. Longer(longer, queue, marker, n, finishing)
      BY <2>2, <3>1, <3>2 DEF Longer
    <3> QED
      BY <3>3 DEF longer
<1> QED
  BY <1>1, <1>4 DEF longer

(* The queue is resolved from its front: a marker that is not due waits    *)
(* behind every one that is.                                               *)
LEMMA DueInOrder ==
    ASSUME NEW a \in Nat, NEW b \in Nat, NEW c \in Nat, NEW e \in Nat, a <= b, c <= e
    PROVE  DueAt(a, c) <= DueAt(b, e)
  BY ConstantsAreNumbers DEF DueAt, Max2

(* What a call leaves of the queue it resolves.                            *)
Resolved(queue, n) ==
    /\ candidates' \in Seq(Steps) /\ retained \subseteq retained' /\ Increasing'
    /\ Lined(pending', n)
    /\ \A i \in DOMAIN pending' : \E k \in DOMAIN queue : /\ pending'[i] = queue[k]
                                                          /\ queue[k].resolve_at > n
    /\ \A j \in DOMAIN candidates' :
          \/ \E i \in DOMAIN candidates : candidates'[j] = candidates[i]
          \/ \E i \in DOMAIN queue :
                /\ queue[i].resolve_at <= n
                /\ Made(candidates'[j], queue[i].marker.center, n, retained')
    /\ \A j \in DOMAIN candidates', i \in DOMAIN pending' :
          candidates'[j].keyframe < pending'[i].marker.center
    /\ \A p \in lost' : \/ p \in lost
                        \/ \E i \in DOMAIN queue : /\ p = queue[i] /\ p.resolve_at <= n
                                                   /\ ~InRing(p.marker.center, n)

LEMMA ResolveIs ==
    ASSUME NEW n \in Nat, NEW queue, Lined(queue, n), InOrder(queue), Resolve(queue, n),
           candidates \in Seq(Steps),
           \A i \in DOMAIN queue :
              queue[i].resolve_at = DueAt(queue[i].marker.center, queue[i].queued_at)
    PROVE  Resolved(queue, n)
<1> DEFINE due == {i \in DOMAIN queue : queue[i].resolve_at <= n}
           rest == DOMAIN queue \ due
<1>1. Finalize(queue, due, n) /\ pending' = Only(queue, rest)
  BY DEF Resolve
<1>2. queue \in Seq(Waits) /\ due \in SUBSET (DOMAIN queue) /\ rest \in SUBSET (DOMAIN queue)
  BY DEF Lined
<1>3. \A i \in due : queue[i].resolve_at <= n
  OBVIOUS
<1>4. ASSUME NEW k \in rest PROVE k \in DOMAIN queue /\ queue[k].resolve_at > n /\ k \in Nat
  <2>1. queue[k] \in Waits /\ ~(queue[k].resolve_at <= n) /\ k \in Nat
    BY <1>2
  <2>2. queue[k].resolve_at \in Nat
    BY <2>1 DEF Waits
  <2> QED
    BY <2>1, <2>2
<1> HIDE DEF due
<1>5. ASSUME NEW i \in due, NEW k \in rest
      PROVE  queue[i].marker.center < queue[k].marker.center
  <2>1. i \in DOMAIN queue /\ k \in DOMAIN queue /\ i \in Nat /\ k \in Nat /\ i # k
    BY <1>2
  <2>2. queue[i] \in Waits /\ queue[k] \in Waits
    BY <1>2, <2>1
  <2>3. /\ queue[i].marker.center \in Nat /\ queue[k].marker.center \in Nat
        /\ queue[i].queued_at \in Nat /\ queue[k].queued_at \in Nat
        /\ queue[i].resolve_at \in Nat /\ queue[k].resolve_at \in Nat
    BY <2>2 DEF Waits, Markers
  <2>4. CASE k < i
    <3>1. /\ queue[k].marker.center < queue[i].marker.center
          /\ queue[k].queued_at <= queue[i].queued_at
      BY <2>1, <2>4 DEF Lined
    <3>2. queue[k].resolve_at <= queue[i].resolve_at
      BY <2>1, <2>3, <3>1, DueInOrder
    <3> QED
      BY <1>3, <1>4, <2>3, <3>2
  <2>5. CASE i < k
    BY <2>1, <2>5 DEF Lined
  <2> QED
    BY <2>1, <2>4, <2>5
<1>6. /\ candidates' \in Seq(Steps) /\ retained \subseteq retained' /\ Increasing'
      /\ \A j \in DOMAIN candidates' :
                 \/ \E i \in DOMAIN candidates : candidates'[j] = candidates[i]
                 \/ \E i \in due : Made(candidates'[j], queue[i].marker.center, n, retained')
      /\ \A p \in lost' : p \in lost \/ \E i \in due : /\ p = queue[i]
                                                       /\ ~InRing(p.marker.center, n)
  BY <1>1, <1>2, FinalizeIs
<1> HIDE DEF rest
<1>7. /\ pending' \in Seq(Waits) /\ DOMAIN pending' = 1..Cardinality(rest)
      /\ \A i \in DOMAIN pending' : pending'[i] = queue[Nth(rest, i)] /\ Nth(rest, i) \in rest
      /\ \A i, k \in DOMAIN pending' : i < k => Nth(rest, i) < Nth(rest, k)
  BY <1>1, <1>2, OnlyIs, PositionsAre
<1>8. \A i \in DOMAIN pending' : \E k \in DOMAIN queue : /\ pending'[i] = queue[k]
                                                         /\ queue[k].resolve_at > n
  BY <1>4, <1>7
<1>9. Lined(pending', n)
  <2>1. ASSUME NEW i \in DOMAIN pending'
        PROVE  /\ pending'[i].marker.center >= 1
               /\ pending'[i].marker.center <= pending'[i].queued_at
               /\ pending'[i].queued_at <= n
    BY <1>8 DEF Lined
  <2>2. ASSUME NEW i \in DOMAIN pending', NEW k \in DOMAIN pending', i < k
        PROVE  /\ pending'[i].marker.center < pending'[k].marker.center
               /\ pending'[i].queued_at <= pending'[k].queued_at
    <3>1. /\ Nth(rest, i) < Nth(rest, k) /\ Nth(rest, i) \in DOMAIN queue
          /\ Nth(rest, k) \in DOMAIN queue
          /\ pending'[i] = queue[Nth(rest, i)] /\ pending'[k] = queue[Nth(rest, k)]
      BY <1>4, <1>7, <2>2
    <3> QED
      BY <3>1 DEF Lined
  <2> QED
    BY <1>7, <2>1, <2>2 DEF Lined
<1>10. ASSUME NEW j \in DOMAIN candidates', NEW i \in DOMAIN pending'
       PROVE  candidates'[j].keyframe < pending'[i].marker.center
  <2>1. PICK k : k \in rest /\ k \in DOMAIN queue /\ pending'[i] = queue[k]
    BY <1>4, <1>7
  <2>2. ASSUME NEW c \in DOMAIN candidates, candidates'[j] = candidates[c]
        PROVE  candidates'[j].keyframe < queue[k].marker.center
    BY <2>1, <2>2 DEF InOrder
  <2>3. ASSUME NEW d \in due, Made(candidates'[j], queue[d].marker.center, n, retained')
        PROVE  candidates'[j].keyframe < queue[k].marker.center
    BY <1>5, <2>1, <2>3 DEF Made
  <2> QED
    BY <1>6, <2>1, <2>2, <2>3
<1>11. ASSUME NEW i \in due PROVE i \in DOMAIN queue /\ queue[i].resolve_at <= n
  BY <1>2, <1>3
<1> QED
  BY <1>6, <1>8, <1>9, <1>10, <1>11 DEF Resolved

-----------------------------------------------------------------------------
(* The invariant of a recording that goes on.  The detector has one owner  *)
(* of the change, whose window has seen frames of the recording.           *)
Watching ==
    /\ det \in Detector /\ Owned(det)
    /\ det.baseline = {} <=> frame_count = 0
    /\ \A s \in All(det) : 1 <= s /\ s <= frame_count

(* A marker waits for the frames after its own, or just for the next frame.*)
Waiting ==
    /\ Lined(pending, frame_count)
    /\ \A i \in DOMAIN pending :
          /\ pending[i].resolve_at = DueAt(pending[i].marker.center, pending[i].queued_at)
          /\ pending[i].resolve_at > frame_count \/ pending[i].queued_at = frame_count

(* What an open window has seen is later than every frame that was found.  *)
Ordered ==
    /\ InOrder(pending)
    /\ \A i \in DOMAIN candidates : candidates[i].keyframe <= frame_count
    /\ \A s \in All(det) : /\ \A i \in DOMAIN candidates : candidates[i].keyframe < s
                           /\ \A i \in DOMAIN pending : pending[i].marker.center < s

(* If the last frame was found, the detector has not cooled down since.    *)
Rested ==
    \/ \E i \in DOMAIN candidates : candidates[i].keyframe = frame_count
    \/ \E i \in DOMAIN pending : pending[i].marker.center = frame_count
    => ~Cooled(det, last_at)

Live ==
    /\ Watching /\ Waiting /\ Ordered
    /\ ~early /\ COOLDOWN > 0 => Rested

Base ==
    /\ frame_count \in Nat /\ last_at \in Nat
    /\ early \in BOOLEAN /\ finished \in BOOLEAN
    /\ candidates \in Seq(Steps)

IInv ==
    /\ Base /\ (~finished => Live)
    /\ StepsInOrder /\ StepHasContext /\ WaitingLosesNothing

LEMMA NoFrames == \A i \in DOMAIN << >> : FALSE
  OBVIOUS

LEMMA InitInv == Init => IInv
<1> SUFFICES ASSUME Init PROVE IInv
  OBVIOUS
<1>1. /\ frame_count = 0 /\ last_at = 0 /\ retained = {} /\ pending = << >>
      /\ candidates = << >> /\ lost = {} /\ early = FALSE /\ finished = FALSE
  BY DEF Init
<1>2. /\ det.prev = {} /\ det.baseline = {} /\ det.click = {} /\ det.typing = {}
      /\ det.scroll = {} /\ det.click_open_until = {} /\ ~det.in_typing /\ ~det.in_scroll
  BY DEF Init
<1>3. det \in Detector
  <2>1. {} \in Opt(Luma) /\ {} \in Opt(Nat) /\ {} \in Opt(Windows)
    BY DEF Opt
  <2> QED
    BY <2>1 DEF Init, Detector
<1>4. Watching
  BY <1>1, <1>2, <1>3, NoIds DEF Watching, Owned, All
<1>5. Waiting /\ Ordered /\ ~(\E i \in DOMAIN candidates : TRUE)
      /\ ~(\E i \in DOMAIN pending : TRUE)
  <2>1. DOMAIN candidates = {} /\ DOMAIN pending = {}
    BY <1>1
  <2>2. pending \in Seq(Waits)
    BY <1>1
  <2> QED
    BY <1>2, <2>1, <2>2, NoIds
    DEF Waiting, Ordered, Lined, InOrder, Increasing, All
<1>6. Rested
  BY <1>5 DEF Rested
<1>7. StepHasContext /\ StepsInOrder /\ WaitingLosesNothing
  <2>1. ToSet(candidates) = {}
    BY <1>5 DEF ToSet
  <2> QED
    BY <1>1, <1>5, <2>1 DEF StepHasContext, StepsInOrder, WaitingLosesNothing
<1>8. Base
  <2>1. << >> \in Seq(Steps)
    OBVIOUS
  <2> QED
    BY <1>1, <2>1 DEF Base
<1> QED
  BY <1>4, <1>5, <1>6, <1>7, <1>8 DEF IInv, Live

(* When a frame is in the ring.                                            *)
LEMMA InRingIs ==
    ASSUME NEW c \in Nat, NEW n \in Nat
    PROVE  InRing(c, n) <=> 1 <= c /\ c <= n /\ n < c + RING_CAPACITY
  BY ConstantsAreNumbers DEF InRing, Oldest, Minus

(* A marker of a frame later than all that were found keeps the queue in   *)
(* its order.                                                              *)
Later(c) ==
    /\ \A i \in DOMAIN candidates : candidates[i].keyframe < c
    /\ \A i \in DOMAIN pending : pending[i].marker.center < c

LEMMA QueuedInOrder ==
    ASSUME NEW k \in Nat, NEW n \in Nat, k <= n, NEW finishing,
           Lined(pending, k), InOrder(pending), NEW marker,
           \/ marker = {}
           \/ \E m \in Markers : marker = {m} /\ 1 <= m.center /\ m.center <= n /\ Later(m.center)
    PROVE  LET longer == pending \o SetToSeq(Queued(marker, n, finishing)) IN
           Lined(longer, n) /\ InOrder(longer)
<1>1. PICK queue, longer : /\ queue = pending
                           /\ longer = queue \o SetToSeq(Queued(marker, n, finishing))
  OBVIOUS
<1>2. pending \in Seq(Waits)
  BY DEF Lined
<1>3. marker = {} \/ \E m \in Markers : marker = {m} /\ m.center <= n
  OBVIOUS
<1>4. /\ longer \in Seq(Waits)
      /\ \A i \in DOMAIN pending : i \in DOMAIN longer /\ longer[i] = pending[i]
      /\ marker = {} => longer = pending
      /\ \A m : marker = {m} =>
           /\ Len(longer) = Len(pending) + 1
           /\ longer[Len(longer)] = WaitOf(m, n, finishing)
           /\ \A i \in DOMAIN longer : i \in DOMAIN pending \/ i = Len(longer)
  <2>1. queue \in Seq(Waits)
    BY <1>1, <1>2
  <2>2. Longer(longer, queue, marker, n, finishing)
    BY ONLY <1>1, <1>3, <2>1, n \in Nat, QueuedIs
  <2> QED
    BY <1>1, <2>2 DEF Longer
<1>5. \A i \in DOMAIN pending : pending[i].queued_at \in Nat
  <2> TAKE i \in DOMAIN pending
  <2>1. pending[i] \in Waits
    BY <1>2
  <2> QED
    BY <2>1 DEF Waits
<1>6. CASE marker = {}
  <2>1. longer = pending
    BY <1>4, <1>6
  <2>2. Lined(pending, n)
    BY <1>5 DEF Lined
  <2> QED
    BY <1>1, <2>1, <2>2
<1>7. CASE marker # {}
  <2>1. PICK m \in Markers : marker = {m} /\ 1 <= m.center /\ m.center <= n /\ Later(m.center)
    BY <1>7
  <2>2. /\ Len(longer) = Len(pending) + 1
        /\ \A i \in DOMAIN longer : i \in DOMAIN pending \/ i = Len(longer)
        /\ longer[Len(longer)] = WaitOf(m, n, finishing)
    BY <1>4, <2>1
  <2>3. m.center \in Nat
    BY <2>1 DEF Markers
  <2>4. /\ longer[Len(longer)].marker.center = m.center
        /\ longer[Len(longer)].queued_at = n
    BY <2>2 DEF WaitOf
  <2>5. \A i \in DOMAIN longer : /\ longer[i].marker.center >= 1
                                 /\ longer[i].marker.center <= longer[i].queued_at
                                 /\ longer[i].queued_at <= n
    <3> TAKE i \in DOMAIN longer
    <3>1. CASE i \in DOMAIN pending
      BY <1>4, <1>5, <3>1 DEF Lined
    <3>2. CASE i = Len(longer)
      BY <2>1, <2>3, <2>4, <3>2
    <3> QED
      BY <2>2, <3>1, <3>2
  <2>6. \A i, j \in DOMAIN longer :
           i < j => /\ i \in DOMAIN pending
                    /\ longer[i].marker.center < longer[j].marker.center
                    /\ longer[i].queued_at <= longer[j].queued_at
    <3> TAKE i, j \in DOMAIN longer
    <3> HAVE i < j
    <3>1. i \in DOMAIN pending
      <4>1. DOMAIN longer = 1..Len(longer) /\ Len(longer) \in Nat
        BY <1>4
      <4> QED
        BY <2>2, <4>1
    <3>2. longer[i] = pending[i] /\ pending[i].queued_at <= n /\ pending[i].marker.center < m.center
      BY <1>4, <1>5, <2>1, <3>1 DEF Lined, Later
    <3>3. CASE j \in DOMAIN pending
      BY <1>4, <3>1, <3>3 DEF Lined
    <3>4. CASE j = Len(longer)
      BY <2>4, <3>1, <3>2, <3>4
    <3> QED
      BY <2>2, <3>3, <3>4
  <2>7. \A i \in DOMAIN candidates, j \in DOMAIN longer :
           candidates[i].keyframe < longer[j].marker.center
    <3> TAKE i \in DOMAIN candidates, j \in DOMAIN longer
    <3>1. CASE j \in DOMAIN pending
      BY <1>4, <3>1 DEF InOrder
    <3>2. CASE j = Len(longer)
      BY <2>1, <2>4, <3>2 DEF Later
    <3> QED
      BY <2>2, <3>1, <3>2
  <2>8. Lined(longer, n)
    BY <1>4, <2>5, <2>6 DEF Lined
  <2>9. InOrder(longer)
    BY <2>6, <2>7 DEF InOrder
  <2> QED
    BY <1>1, <2>8, <2>9
<1> QED
  BY <1>6, <1>7

-----------------------------------------------------------------------------
(* The call of a frame, part by part: the queue it resolves, the detector  *)
(* it leaves, the steps it made and what it lost.                          *)
FrameCall(f, out, queue) ==
    /\ f \in Frames /\ f.id = frame_count + 1 /\ f.at_ms \in Nat
    /\ out = ObserveFrame(det, f)
    /\ queue = pending \o SetToSeq(Queued(out.marker, f.id, FALSE))
    /\ ~finished /\ frame_count' = f.id /\ last_at' = f.at_ms /\ det' = out.det
    /\ Resolve(queue, f.id) /\ UNCHANGED <<early, finished>>

LEMMA FrameCallIs ==
    ASSUME Base, NEW luma \in Luma, NEW at_ms \in Stamps, IngestFrame(luma, at_ms)
    PROVE  \E f, out, queue : FrameCall(f, out, queue)
<1>1. frame_count \in Nat /\ at_ms \in Nat
  BY ConstantsAreNumbers DEF Base
<1>2. PICK f : f = [id |-> frame_count + 1, luma |-> luma, at_ms |-> at_ms]
  OBVIOUS
<1>3. f \in Frames /\ f.id = frame_count + 1 /\ f.at_ms = at_ms
  BY <1>1, <1>2 DEF Frames
<1>4. PICK out : out = ObserveFrame(det, f)
  OBVIOUS
<1>5. PICK queue : queue = pending \o SetToSeq(Queued(out.marker, f.id, FALSE))
  OBVIOUS
<1>6. /\ ~finished /\ frame_count' = f.id /\ last_at' = f.at_ms /\ det' = out.det
      /\ Resolve(queue, f.id) /\ UNCHANGED <<early, finished>>
  BY <1>2, <1>4, <1>5 DEF IngestFrame
<1> QED
  BY <1>1, <1>3, <1>4, <1>5, <1>6 DEF FrameCall

(* What the detector makes of the frame, and where its marker is.          *)
LEMMA FrameCallSees ==
    ASSUME Base, Watching, Waiting, Ordered, NEW f, NEW out, NEW queue, FrameCall(f, out, queue)
    PROVE  /\ FrameGives(det, f, out) /\ Owned(det) /\ det \in Detector
           /\ frame_count = 0 => out.marker = {} /\ All(out.det) = {} /\ All(det) = {}
           /\ Later(f.id) /\ \A s \in All(det) : Later(s) /\ 1 <= s /\ s <= frame_count
           /\ \/ out.marker = {}
              \/ \E m \in Markers : /\ out.marker = {m} /\ 1 <= m.center /\ m.center <= f.id
                                    /\ Later(m.center) /\ All(out.det) = {}
<1>1. f \in Frames /\ f.id = frame_count + 1 /\ frame_count \in Nat /\ out = ObserveFrame(det, f)
  BY DEF FrameCall, Base
<1>2. det \in Detector /\ Owned(det) /\ (det.baseline = {} <=> frame_count = 0)
  BY DEF Watching
<1>3. \A s \in All(det) : s \in Nat /\ 1 <= s /\ s <= frame_count
  BY DEF Watching, All, Ids
<1>4. frame_count = 0 => All(det) = {}
  BY <1>1, <1>3
<1>5. /\ FrameGives(det, f, ObserveFrame(det, f))
      /\ det.baseline = {} => /\ ObserveFrame(det, f).marker = {}
                              /\ All(ObserveFrame(det, f).det) = {}
  BY <1>1, <1>2, <1>4, FrameIs
<1>6. FrameGives(det, f, out) /\ (frame_count = 0 => out.marker = {} /\ All(out.det) = {})
  BY <1>1, <1>2, <1>5
<1>7. Later(f.id)
  <2>1. \A i \in DOMAIN candidates : candidates[i].keyframe < f.id
    <3> TAKE i \in DOMAIN candidates
    <3>1. candidates[i] \in Steps /\ candidates[i].keyframe <= frame_count
      BY DEF Base, Ordered
    <3>2. candidates[i].keyframe \in Nat
      BY <3>1 DEF Steps
    <3> QED
      BY <1>1, <3>1, <3>2
  <2>2. \A i \in DOMAIN pending : pending[i].marker.center < f.id
    <3> TAKE i \in DOMAIN pending
    <3>1. /\ pending[i] \in Waits /\ pending[i].marker.center <= pending[i].queued_at
          /\ pending[i].queued_at <= frame_count
      BY DEF Waiting, Lined
    <3>2. pending[i].marker.center \in Nat /\ pending[i].queued_at \in Nat
      BY <3>1 DEF Waits, Markers
    <3> QED
      BY <1>1, <3>1, <3>2
  <2> QED
    BY <2>1, <2>2 DEF Later
<1>8. \A s \in All(det) : Later(s)
  BY DEF Ordered, Later
<1>9. \/ out.marker = {}
      \/ \E m \in Markers : /\ out.marker = {m} /\ 1 <= m.center /\ m.center <= f.id
                            /\ Later(m.center) /\ All(out.det) = {}
  <2>1. CASE out.marker # {}
    <3>1. PICK m \in Markers : out.marker = {m} /\ m.center \in All(det) \cup {f.id}
      BY <1>6, <2>1 DEF FrameGives, Emits
    <3>2. 1 <= m.center /\ m.center <= f.id /\ Later(m.center)
      BY <1>1, <1>3, <1>7, <1>8, <3>1
    <3>3. All(out.det) = {}
      BY <1>6, <2>1 DEF FrameGives
    <3> QED
      BY <3>1, <3>2, <3>3
  <2> QED
    BY <2>1
<1> QED
  BY <1>2, <1>3, <1>4, <1>6, <1>7, <1>8, <1>9

LEMMA FrameCallQueues ==
    ASSUME Base, Watching, Waiting, Ordered, NEW f, NEW out, NEW queue, FrameCall(f, out, queue)
    PROVE  /\ Lined(queue, f.id) /\ Resolved(queue, f.id)
           /\ \A i \in DOMAIN queue :
                 queue[i].resolve_at = DueAt(queue[i].marker.center, queue[i].queued_at)
           /\ \A i \in DOMAIN queue : \/ i \in DOMAIN pending /\ queue[i] = pending[i]
                                      \/ out.marker # {} /\ queue[i].queued_at = f.id
<1>1. /\ f.id \in Nat /\ f.id = frame_count + 1 /\ frame_count \in Nat /\ candidates \in Seq(Steps)
      /\ queue = pending \o SetToSeq(Queued(out.marker, f.id, FALSE)) /\ Resolve(queue, f.id)
  BY DEF FrameCall, Base
<1>2. /\ Lined(pending, frame_count) /\ pending \in Seq(Waits) /\ InOrder(pending)
      /\ \A i \in DOMAIN pending :
            pending[i].resolve_at = DueAt(pending[i].marker.center, pending[i].queued_at)
  BY DEF Waiting, Ordered, Lined
<1>3. \/ out.marker = {}
      \/ \E m \in Markers : /\ out.marker = {m} /\ 1 <= m.center /\ m.center <= f.id
                            /\ Later(m.center)
  BY FrameCallSees
<1>4. PICK marker, finishing : marker = out.marker /\ finishing = FALSE
  OBVIOUS
<1>5. queue = pending \o SetToSeq(Queued(marker, f.id, finishing))
  BY <1>1, <1>4
<1>6. Lined(queue, f.id) /\ InOrder(queue)
  <2>1. frame_count <= f.id
    BY <1>1
  <2>2. \/ marker = {}
        \/ \E m \in Markers : marker = {m} /\ 1 <= m.center /\ m.center <= f.id /\ Later(m.center)
    BY <1>3, <1>4
  <2>3. LET longer == pending \o SetToSeq(Queued(marker, f.id, finishing)) IN
        Lined(longer, f.id) /\ InOrder(longer)
    BY ONLY <1>1, <1>2, <2>1, <2>2, QueuedInOrder
  <2> QED
    BY <1>5, <2>3
<1>7. Longer(queue, pending, marker, f.id, finishing)
  BY <1>1, <1>2, <1>3, <1>4, <1>5, QueuedIs
<1>8. ASSUME NEW i \in DOMAIN queue
      PROVE  \/ i \in DOMAIN pending /\ queue[i] = pending[i]
             \/ \E m \in Markers : /\ out.marker = {m} /\ m.center <= f.id
                                   /\ queue[i] = WaitOf(m, f.id, finishing)
  <2>1. CASE marker = {}
    BY <1>7, <2>1 DEF Longer
  <2>2. CASE marker # {}
    <3>1. PICK m \in Markers : marker = {m} /\ m.center <= f.id
      BY <1>3, <1>4, <2>2
    <3>2. /\ queue[Len(queue)] = WaitOf(m, f.id, finishing)
          /\ i \in DOMAIN pending \/ i = Len(queue)
          /\ \A k \in DOMAIN pending : queue[k] = pending[k]
      BY <1>7, <3>1 DEF Longer
    <3> QED
      BY <1>4, <3>1, <3>2
  <2> QED
    BY <2>1, <2>2
<1>9. ASSUME NEW i \in DOMAIN queue
      PROVE  /\ queue[i].resolve_at = DueAt(queue[i].marker.center, queue[i].queued_at)
             /\ \/ i \in DOMAIN pending /\ queue[i] = pending[i]
                \/ out.marker # {} /\ queue[i].queued_at = f.id
  <2>1. CASE i \in DOMAIN pending /\ queue[i] = pending[i]
    BY <1>2, <2>1
  <2>2. CASE \E m \in Markers : /\ out.marker = {m} /\ m.center <= f.id
                                /\ queue[i] = WaitOf(m, f.id, finishing)
    <3>1. PICK m \in Markers : /\ out.marker = {m} /\ m.center <= f.id
                               /\ queue[i] = WaitOf(m, f.id, finishing)
      BY <2>2
    <3>2. m.center \in Nat
      BY DEF Markers
    <3>3. /\ queue[i].queued_at = f.id /\ queue[i].marker = m
          /\ queue[i].resolve_at = f.id + RemainingAfter(m.center, f.id)
      BY <1>4, <3>1 DEF WaitOf
    <3>4. f.id + RemainingAfter(m.center, f.id) = DueAt(m.center, f.id)
      BY <1>1, <3>1, <3>2, RemainingIs
    <3> QED
      BY <3>1, <3>3, <3>4
  <2> QED
    BY <1>8, <2>1, <2>2
<1>10. Resolved(queue, f.id)
  BY <1>1, <1>6, <1>9, ResolveIs
<1> QED
  BY <1>6, <1>9, <1>10

LEMMA FrameCallDetects ==
    ASSUME Base, Watching, Waiting, Ordered, NEW f, NEW out, NEW queue, FrameCall(f, out, queue)
    PROVE  Watching'
<1>1. f.id = frame_count + 1 /\ frame_count \in Nat /\ frame_count' = f.id /\ det' = out.det
  BY DEF FrameCall, Base
<1>2. FrameGives(det, f, out) /\ \A s \in All(det) : 1 <= s /\ s <= frame_count
  BY FrameCallSees
<1>3. /\ out.det \in Detector /\ Owned(out.det) /\ out.det.baseline # {}
      /\ All(out.det) \subseteq All(det) \cup {f.id}
  BY <1>2 DEF FrameGives
<1>4. \A s \in All(out.det) : 1 <= s /\ s <= f.id
  <2>1. \A s \in All(out.det) : s \in Nat
    BY DEF All, Ids
  <2> QED
    BY <1>1, <1>2, <1>3, <2>1
<1>5. f.id # 0
  BY <1>1
<1> QED
  BY <1>1, <1>3, <1>4, <1>5 DEF Watching

LEMMA DueIs ==
    ASSUME NEW p \in Waits
    PROVE  /\ p.marker.center \in Nat /\ p.queued_at \in Nat /\ p.resolve_at \in Nat
           /\ DueAt(p.marker.center, p.queued_at) \in {p.queued_at, p.marker.center + WINDOW_AFTER}
           /\ DueAt(p.marker.center, p.queued_at) >= p.marker.center + WINDOW_AFTER
<1>1. p.marker.center \in Nat /\ p.queued_at \in Nat /\ p.resolve_at \in Nat
  BY DEF Waits, Markers
<1> QED
  BY <1>1, ConstantsAreNumbers, ExtremesAre DEF DueAt

LEMMA FrameCallOrders ==
    ASSUME Base, Watching, Waiting, Ordered, NEW f, NEW out, NEW queue, FrameCall(f, out, queue)
    PROVE  Waiting' /\ Ordered'
<1>1. /\ f.id = frame_count + 1 /\ frame_count \in Nat /\ frame_count' = f.id /\ det' = out.det
  BY DEF FrameCall, Base
<1>2. /\ FrameGives(det, f, out) /\ Later(f.id) /\ \A s \in All(det) : Later(s)
      /\ out.marker # {} => All(out.det) = {}
  BY FrameCallSees
<1>3. /\ Lined(queue, f.id) /\ Resolved(queue, f.id)
      /\ \A i \in DOMAIN queue :
            queue[i].resolve_at = DueAt(queue[i].marker.center, queue[i].queued_at)
      /\ \A i \in DOMAIN queue : \/ i \in DOMAIN pending /\ queue[i] = pending[i]
                                 \/ out.marker # {} /\ queue[i].queued_at = f.id
  BY FrameCallQueues
<1>4. /\ Lined(pending', f.id) /\ Increasing' /\ candidates' \in Seq(Steps)
      /\ \A i \in DOMAIN pending' : \E k \in DOMAIN queue : /\ pending'[i] = queue[k]
                                                            /\ queue[k].resolve_at > f.id
      /\ \A j \in DOMAIN candidates' :
            \/ \E i \in DOMAIN candidates : candidates'[j] = candidates[i]
            \/ \E i \in DOMAIN queue :
                 candidates'[j].keyframe = queue[i].marker.center
      /\ \A j \in DOMAIN candidates', i \in DOMAIN pending' :
            candidates'[j].keyframe < pending'[i].marker.center
  BY <1>3 DEF Resolved, Made
<1>5. \A i \in DOMAIN pending' :
         /\ pending'[i].resolve_at = DueAt(pending'[i].marker.center, pending'[i].queued_at)
         /\ pending'[i].resolve_at > f.id
  BY <1>3, <1>4
<1>6. Waiting'
  BY <1>1, <1>4, <1>5 DEF Waiting
<1>8. ASSUME NEW i \in DOMAIN queue
      PROVE  queue[i].marker.center <= f.id
  <2>1. queue[i] \in Waits /\ queue[i].marker.center <= queue[i].queued_at /\ queue[i].queued_at <= f.id
    BY <1>3 DEF Lined
  <2> QED
    BY <1>1, <2>1, DueIs
<1>9. ASSUME NEW j \in DOMAIN candidates'
      PROVE  candidates'[j].keyframe <= f.id
  <2>1. ASSUME NEW i \in DOMAIN candidates, candidates'[j] = candidates[i]
        PROVE  candidates'[j].keyframe <= f.id
    <3>1. candidates[i].keyframe <= frame_count /\ candidates[i] \in Steps
      BY DEF Ordered, Base
    <3>2. candidates[i].keyframe \in Nat
      BY <3>1 DEF Steps
    <3> QED
      BY <1>1, <2>1, <3>1, <3>2
  <2> QED
    BY <1>4, <1>8, <2>1
<1>10. ASSUME NEW s \in All(out.det)
       PROVE  /\ \A j \in DOMAIN candidates' : candidates'[j].keyframe < s
              /\ \A i \in DOMAIN pending' : pending'[i].marker.center < s
  <2>1. Later(s)
    BY <1>2 DEF FrameGives
  <2>2. \A i \in DOMAIN queue : queue[i].marker.center < s
    <3>1. \A i \in DOMAIN queue : i \in DOMAIN pending /\ queue[i] = pending[i]
      BY <1>2, <1>3
    <3> QED
      BY <2>1, <3>1 DEF Later
  <2>3. \A j \in DOMAIN candidates' : candidates'[j].keyframe < s
    BY <1>4, <2>1, <2>2 DEF Later
  <2>4. \A i \in DOMAIN pending' : pending'[i].marker.center < s
    BY <1>4, <2>2
  <2> QED
    BY <2>3, <2>4
<1>11. InOrder(pending)'
  BY <1>4 DEF InOrder, Lined
<1>12. Ordered'
  BY <1>1, <1>9, <1>10, <1>11 DEF Ordered
<1> QED
  BY <1>6, <1>12

(* A frame that is found is the only one since the detector fired.         *)
LEMMA FrameCallRests ==
    ASSUME Base, Watching, Waiting, Ordered, COOLDOWN > 0,
           NEW f, NEW out, NEW queue, FrameCall(f, out, queue)
    PROVE  Rested'
<1>1. /\ f.id = frame_count + 1 /\ frame_count \in Nat /\ frame_count' = f.id /\ det' = out.det
      /\ last_at' = f.at_ms /\ f.at_ms \in Nat
  BY DEF FrameCall, Base
<1>2. FrameGives(det, f, out) /\ Later(f.id)
  BY FrameCallSees
<1>3. /\ Resolved(queue, f.id)
      /\ \A i \in DOMAIN queue : \/ i \in DOMAIN pending /\ queue[i] = pending[i]
                                 \/ out.marker # {} /\ queue[i].queued_at = f.id
  BY FrameCallQueues
<1>4. /\ \A i \in DOMAIN pending' : \E k \in DOMAIN queue : pending'[i] = queue[k]
      /\ \A j \in DOMAIN candidates' :
            \/ \E i \in DOMAIN candidates : candidates'[j] = candidates[i]
            \/ \E i \in DOMAIN queue :
                 candidates'[j].keyframe = queue[i].marker.center
  BY <1>3 DEF Resolved, Made
<1>5. CASE out.marker = {}
  <2>1. \A i \in DOMAIN queue : queue[i].marker.center < f.id
    BY <1>2, <1>3, <1>5 DEF Later
  <2>2. \A i \in DOMAIN pending' : pending'[i].marker.center < f.id
    BY <1>4, <2>1
  <2>3. \A j \in DOMAIN candidates' : candidates'[j].keyframe < f.id
    BY <1>2, <1>4, <2>1 DEF Later
  <2> QED
    BY <1>1, <2>2, <2>3 DEF Rested
<1>6. CASE out.marker # {}
  <2>1. out.det.last_candidate = {f.at_ms}
    BY <1>2, <1>6 DEF FrameGives, Emits
  <2>2. Minus(f.at_ms, f.at_ms) = 0
    BY <1>1 DEF Minus
  <2>3. ~(Minus(f.at_ms, f.at_ms) >= COOLDOWN)
    BY <2>2, ConstantsAreNumbers
  <2>4. ~Cooled(out.det, f.at_ms)
    BY <2>1, <2>3 DEF Cooled
  <2> QED
    BY <1>1, <2>4 DEF Rested
<1> QED
  BY <1>5, <1>6

(* A step that is made when it is due has the frames after it.             *)
LEMMA FrameCallContext ==
    ASSUME Base, Watching, Waiting, Ordered, StepHasContext,
           NEW f, NEW out, NEW queue, FrameCall(f, out, queue)
    PROVE  StepHasContext'
<1>1. f.id \in Nat /\ ~finished /\ candidates \in Seq(Steps)
  BY DEF FrameCall, Base
<1>2. /\ Lined(queue, f.id) /\ Resolved(queue, f.id)
      /\ \A i \in DOMAIN queue :
            queue[i].resolve_at = DueAt(queue[i].marker.center, queue[i].queued_at)
  BY FrameCallQueues
<1>3. /\ retained \subseteq retained' /\ candidates' \in Seq(Steps)
      /\ \A j \in DOMAIN candidates' :
            \/ \E i \in DOMAIN candidates : candidates'[j] = candidates[i]
            \/ \E i \in DOMAIN queue :
                  /\ queue[i].resolve_at <= f.id
                  /\ Made(candidates'[j], queue[i].marker.center, f.id, retained')
  BY <1>2 DEF Resolved
<1>4. ASSUME NEW j \in DOMAIN candidates'
      PROVE  LET c == candidates'[j] IN
             /\ c.keyframe \in c.nearby /\ Cardinality(c.nearby) <= NEARBY_MAX
             /\ c.nearby \subseteq retained'
             /\ c.keyframe..(c.keyframe + WINDOW_AFTER) \subseteq retained'
  <2>1. ASSUME NEW i \in DOMAIN candidates, candidates'[j] = candidates[i]
        PROVE  LET c == candidates'[j] IN
               /\ c.keyframe \in c.nearby /\ Cardinality(c.nearby) <= NEARBY_MAX
               /\ c.nearby \subseteq retained'
               /\ c.keyframe..(c.keyframe + WINDOW_AFTER) \subseteq retained'
    <3>1. candidates[i] \in ToSet(candidates)
      BY DEF ToSet
    <3> QED
      BY <1>1, <1>3, <2>1, <3>1 DEF StepHasContext
  <2>2. ASSUME NEW i \in DOMAIN queue, queue[i].resolve_at <= f.id,
               Made(candidates'[j], queue[i].marker.center, f.id, retained')
        PROVE  LET c == candidates'[j] IN
               /\ c.keyframe \in c.nearby /\ Cardinality(c.nearby) <= NEARBY_MAX
               /\ c.nearby \subseteq retained'
               /\ c.keyframe..(c.keyframe + WINDOW_AFTER) \subseteq retained'
    <3>1. PICK p : p = queue[i]
      OBVIOUS
    <3>2. p \in Waits /\ p.resolve_at = DueAt(p.marker.center, p.queued_at) /\ p.resolve_at <= f.id
      BY <1>2, <2>2, <3>1 DEF Lined
    <3>3. PICK c \in Nat : c = p.marker.center
      BY <3>2, DueIs
    <3>4. f.id >= c + WINDOW_AFTER
      BY <1>1, <3>2, <3>3, DueIs, ConstantsAreNumbers
    <3>5. /\ InRing(c, f.id) /\ candidates'[j].keyframe = c
          /\ c \in candidates'[j].nearby /\ Cardinality(candidates'[j].nearby) <= NEARBY_MAX
          /\ candidates'[j].nearby \subseteq retained' /\ RetainWindow(c, f.id) \subseteq retained'
      BY <2>2, <3>1, <3>3 DEF Made
    <3>6. PICK a \in Nat, b \in Nat : /\ RetainWindow(c, f.id) = a..b /\ a <= c /\ c <= b
                                      /\ f.id >= c + WINDOW_AFTER => b = c + WINDOW_AFTER
      BY <1>1, <3>5, RetainIs
    <3>7. c..(c + WINDOW_AFTER) \subseteq a..b
      BY <3>4, <3>6, ConstantsAreNumbers
    <3> QED
      BY <3>5, <3>6, <3>7
  <2> QED
    BY <1>3, <2>1, <2>2
<1>5. \A c \in ToSet(candidates') : \E j \in DOMAIN candidates' : c = candidates'[j]
  BY DEF ToSet
<1> QED
  BY <1>4, <1>5 DEF StepHasContext

(* A frame that has left the ring does not come back.                      *)
LEMMA LeftRing ==
    ASSUME NEW c \in Nat, NEW n \in Nat, 1 <= c, c <= n, ~InRing(c, n)
    PROVE  ~InRing(c, n + 1)
<1>1. ~(n < c + RING_CAPACITY)
  BY InRingIs
<1>2. n + 1 \in Nat /\ ~(n + 1 < c + RING_CAPACITY)
  BY <1>1, ConstantsAreNumbers
<1> QED
  BY <1>2, InRingIs

(* What a frame resolves was due at that frame, and then its own frame is  *)
(* in the ring, or it was found since the frame before.                    *)
LEMMA FrameCallLoses ==
    ASSUME Base, Watching, Waiting, Ordered, WaitingLosesNothing,
           NEW f, NEW out, NEW queue, FrameCall(f, out, queue)
    PROVE  WaitingLosesNothing'
<1>1. f.id = frame_count + 1 /\ frame_count \in Nat
  BY DEF FrameCall, Base
<1>2. /\ Lined(queue, f.id) /\ Resolved(queue, f.id)
      /\ \A i \in DOMAIN queue :
            queue[i].resolve_at = DueAt(queue[i].marker.center, queue[i].queued_at)
      /\ \A i \in DOMAIN queue : \/ i \in DOMAIN pending /\ queue[i] = pending[i]
                                 \/ out.marker # {} /\ queue[i].queued_at = f.id
  BY FrameCallQueues
<1>3. \A p \in lost' : \/ p \in lost
                       \/ \E i \in DOMAIN queue : /\ p = queue[i] /\ p.resolve_at <= f.id
                                                  /\ ~InRing(p.marker.center, f.id)
  BY <1>2 DEF Resolved
<1>4. ASSUME NEW p \in lost'
      PROVE  ~InRing(p.marker.center, p.queued_at + 1)
  <2>1. CASE p \in lost
    BY <2>1 DEF WaitingLosesNothing
  <2>2. ASSUME NEW i \in DOMAIN queue, p = queue[i], p.resolve_at <= f.id,
               ~InRing(p.marker.center, f.id)
        PROVE  ~InRing(p.marker.center, p.queued_at + 1)
    <3>0. /\ p \in Waits /\ p.marker.center >= 1 /\ p.marker.center <= p.queued_at
          /\ p.resolve_at = DueAt(p.marker.center, p.queued_at)
      BY <1>2, <2>2 DEF Lined
    <3>1. /\ p.marker.center \in Nat /\ p.queued_at \in Nat /\ p.resolve_at \in Nat
          /\ p.resolve_at \in {p.queued_at, p.marker.center + WINDOW_AFTER}
      BY <3>0, DueIs
    <3>2. CASE p.queued_at = f.id
      BY <2>2, <3>0, <3>1, <3>2, LeftRing
    <3>3. CASE i \in DOMAIN pending /\ queue[i] = pending[i]
      <4>1. /\ p.queued_at <= frame_count
            /\ p.resolve_at > frame_count \/ p.queued_at = frame_count
        BY <2>2, <3>3 DEF Waiting, Lined
      <4>2. CASE p.queued_at = frame_count
        BY <1>1, <2>2, <4>2
      <4>3. CASE p.resolve_at > frame_count
        <5>1. f.id < p.marker.center + RING_CAPACITY /\ p.marker.center <= f.id /\ f.id \in Nat
          BY <1>1, <2>2, <3>0, <3>1, <4>1, <4>3, ConstantsAreNumbers
        <5>2. InRing(p.marker.center, f.id)
          BY <3>0, <3>1, <5>1, InRingIs
        <5> QED
          BY <2>2, <5>2
      <4> QED
        BY <4>1, <4>2, <4>3
    <3> QED
      BY <1>2, <2>2, <3>2, <3>3
  <2> QED
    BY <1>3, <2>1, <2>2
<1> QED
  BY <1>4 DEF WaitingLosesNothing

LEMMA FrameInv ==
    ASSUME IInv, NEW luma \in Luma, NEW at_ms \in Stamps, IngestFrame(luma, at_ms)
    PROVE  IInv'
<1>1. PICK f, out, queue : FrameCall(f, out, queue)
  BY FrameCallIs DEF IInv
<1>2. Base /\ Watching /\ Waiting /\ Ordered /\ StepHasContext /\ WaitingLosesNothing
  BY <1>1 DEF IInv, Live, FrameCall
<1>3. Watching' /\ Waiting' /\ Ordered' /\ StepHasContext' /\ WaitingLosesNothing'
  BY <1>1, <1>2, FrameCallDetects, FrameCallOrders, FrameCallContext, FrameCallLoses
<1>4. ~early' /\ COOLDOWN > 0 => Rested'
  BY <1>1, <1>2, FrameCallRests
<1>5. StepsInOrder'
  BY <1>3 DEF Ordered, InOrder, Increasing, StepsInOrder
<1>6. Base'
  <2>1. /\ f.id \in Nat /\ f.at_ms \in Nat /\ frame_count' = f.id /\ last_at' = f.at_ms
        /\ early' = early /\ finished' = finished
    BY <1>1, <1>2 DEF FrameCall, Base
  <2>2. candidates' \in Seq(Steps)
    BY <1>1, <1>2, FrameCallQueues DEF Resolved
  <2> QED
    BY <1>2, <2>1, <2>2 DEF Base
<1> QED
  BY <1>3, <1>4, <1>5, <1>6 DEF IInv, Live

-----------------------------------------------------------------------------
(* The call of an event: only a click that is closed gives a marker.       *)
EventCall(at_ms, out) ==
    /\ at_ms \in Nat /\ EventGives(det, at_ms, out)
    /\ ~finished /\ det' = out.det
    /\ pending' = pending \o SetToSeq(Queued(out.marker, frame_count, FALSE))
    /\ early' = (early \/ (out.marker # {} /\ Minus(last_at, at_ms) >= COOLDOWN))
    /\ UNCHANGED <<frame_count, last_at, retained, candidates, lost, finished>>

LEMMA EventCallIs ==
    ASSUME Base, Watching, NEW action \in Actions, NEW at_ms \in Stamps,
           IngestEvent(action, at_ms)
    PROVE  \E out : EventCall(at_ms, out)
<1>1. at_ms \in Nat
  BY ConstantsAreNumbers
<1>2. PICK out : out = ObserveEvent(det, action, at_ms)
  OBVIOUS
<1>3. EventGives(det, at_ms, out)
  BY <1>1, <1>2, EventIs DEF Watching
<1>4. /\ ~finished /\ det' = out.det
      /\ pending' = pending \o SetToSeq(Queued(out.marker, frame_count, FALSE))
      /\ early' = (early \/ (out.marker # {} /\ Minus(last_at, at_ms) >= COOLDOWN))
      /\ UNCHANGED <<frame_count, last_at, retained, candidates, lost, finished>>
  BY <1>2 DEF IngestEvent
<1> QED
  BY <1>1, <1>3, <1>4 DEF EventCall

LEMMA EventCallQueues ==
    ASSUME Base, Watching, Waiting, Ordered, NEW at_ms, NEW out, EventCall(at_ms, out)
    PROVE  /\ Lined(pending', frame_count) /\ InOrder(pending')
           /\ out.marker = {} => pending' = pending
           /\ \A i \in DOMAIN pending' :
                 \/ i \in DOMAIN pending /\ pending'[i] = pending[i]
                 \/ /\ out.marker # {} /\ All(out.det) = {}
                    /\ pending'[i].marker.center \in Ids(det.click)
                    /\ pending'[i].queued_at = frame_count
                    /\ pending'[i].resolve_at
                          = DueAt(pending'[i].marker.center, pending'[i].queued_at)
<1>1. frame_count \in Nat /\ candidates \in Seq(Steps)
  BY DEF Base
<1>2. Lined(pending, frame_count) /\ pending \in Seq(Waits) /\ InOrder(pending)
  BY DEF Waiting, Ordered, Lined
<1>3. out.marker = {} \/ \E m \in Markers : out.marker = {m} /\ m.center \in Ids(det.click)
  BY DEF EventCall, EventGives, Emits
<1>4. out.marker # {} => All(out.det) = {}
  BY DEF EventCall, EventGives
<1>5. \A s \in Ids(det.click) : s \in Nat /\ 1 <= s /\ s <= frame_count /\ Later(s)
  BY DEF All, Ids, Watching, Ordered, Later
<1>6. PICK queue, marker, finishing :
         /\ marker = out.marker /\ finishing = FALSE
         /\ queue = pending \o SetToSeq(Queued(marker, frame_count, finishing))
  OBVIOUS
<1>7. pending' = queue
  BY <1>6 DEF EventCall
<1>8. \/ marker = {}
      \/ \E m \in Markers : /\ marker = {m} /\ 1 <= m.center /\ m.center <= frame_count
                            /\ Later(m.center)
  BY <1>3, <1>5, <1>6
<1>9. Lined(queue, frame_count) /\ InOrder(queue)
  <2>1. frame_count <= frame_count
    BY <1>1
  <2>2. LET longer == pending \o SetToSeq(Queued(marker, frame_count, finishing)) IN
        Lined(longer, frame_count) /\ InOrder(longer)
    BY ONLY <1>1, <1>2, <1>8, <2>1, QueuedInOrder
  <2> QED
    BY <1>6, <2>2
<1>10. Longer(queue, pending, marker, frame_count, finishing)
  BY <1>1, <1>2, <1>6, <1>8, QueuedIs
<1>11. ASSUME NEW i \in DOMAIN queue
       PROVE  \/ i \in DOMAIN pending /\ queue[i] = pending[i]
              \/ /\ out.marker # {} /\ All(out.det) = {}
                 /\ queue[i].marker.center \in Ids(det.click)
                 /\ queue[i].queued_at = frame_count
                 /\ queue[i].resolve_at = DueAt(queue[i].marker.center, queue[i].queued_at)
  <2>1. CASE marker = {}
    BY <1>10, <2>1 DEF Longer
  <2>2. CASE marker # {}
    <3>1. PICK m \in Markers : marker = {m} /\ m.center \in Ids(det.click)
      BY <1>3, <1>6, <2>2
    <3>2. /\ queue[Len(queue)] = WaitOf(m, frame_count, finishing)
          /\ i \in DOMAIN pending \/ i = Len(queue)
          /\ \A k \in DOMAIN pending : queue[k] = pending[k]
      BY <1>10, <3>1 DEF Longer
    <3>3. /\ WaitOf(m, frame_count, finishing).marker = m
          /\ WaitOf(m, frame_count, finishing).queued_at = frame_count
          /\ WaitOf(m, frame_count, finishing).resolve_at
                = frame_count + RemainingAfter(m.center, frame_count)
      BY <1>6 DEF WaitOf
    <3>4. frame_count + RemainingAfter(m.center, frame_count) = DueAt(m.center, frame_count)
      BY <1>1, <1>5, <3>1, RemainingIs
    <3> QED
      BY <1>4, <1>6, <2>2, <3>1, <3>2, <3>3, <3>4
  <2> QED
    BY <2>1, <2>2
<1>12. out.marker = {} => queue = pending
  BY <1>6, <1>10 DEF Longer
<1> QED
  BY <1>7, <1>9, <1>11, <1>12

LEMMA EventCallOrders ==
    ASSUME Base, Watching, Waiting, Ordered, NEW at_ms, NEW out, EventCall(at_ms, out)
    PROVE  /\ Waiting' /\ Ordered'
           /\ ~early' /\ COOLDOWN > 0 /\ Rested => Rested'
<1>1. /\ EventGives(det, at_ms, out) /\ det' = out.det /\ frame_count' = frame_count
      /\ last_at' = last_at /\ candidates' = candidates /\ at_ms \in Nat /\ last_at \in Nat
      /\ ~early' => out.marker = {} \/ ~(Minus(last_at, at_ms) >= COOLDOWN)
  BY DEF EventCall, Base
<1>2. /\ Lined(pending', frame_count) /\ InOrder(pending')
      /\ out.marker = {} => pending' = pending
      /\ \A i \in DOMAIN pending' :
            \/ i \in DOMAIN pending /\ pending'[i] = pending[i]
            \/ /\ out.marker # {} /\ All(out.det) = {}
               /\ pending'[i].queued_at = frame_count
               /\ pending'[i].resolve_at
                     = DueAt(pending'[i].marker.center, pending'[i].queued_at)
  BY EventCallQueues
<1>3. Waiting'
  BY <1>1, <1>2 DEF Waiting
<1>4. Ordered'
  <2>1. InOrder(pending)'
    BY <1>1, <1>2 DEF InOrder, Increasing
  <2>2. \A i \in DOMAIN candidates' : candidates'[i].keyframe <= frame_count'
    BY <1>1 DEF Ordered
  <2>3. ASSUME NEW s \in All(out.det)
        PROVE  /\ \A i \in DOMAIN candidates' : candidates'[i].keyframe < s
               /\ \A i \in DOMAIN pending' : pending'[i].marker.center < s
    <3>1. s \in All(det) /\ pending' = pending
      BY <1>1, <1>2, <2>3 DEF EventGives
    <3> QED
      BY <1>1, <3>1 DEF Ordered
  <2> QED
    BY <1>1, <2>1, <2>2, <2>3 DEF Ordered
<1>5. ASSUME ~early', Rested PROVE Rested'
  <2>1. CASE out.marker = {}
    <3>1. out.det.last_candidate = det.last_candidate /\ pending' = pending
      BY <1>1, <1>2, <2>1 DEF EventGives, Emits
    <3>2. Cooled(out.det, last_at) <=> Cooled(det, last_at)
      BY <3>1 DEF Cooled
    <3> QED
      BY <1>1, <1>5, <3>1, <3>2 DEF Rested
  <2>2. CASE out.marker # {}
    <3>1. out.det.last_candidate = {at_ms}
      BY <1>1, <2>2 DEF EventGives, Emits
    <3>2. Minus(last_at, at_ms) \in Nat /\ ~(Minus(last_at, at_ms) >= COOLDOWN)
      BY <1>1, <1>5, <2>2, MinusIs
    <3>3. ~Cooled(out.det, last_at)
      BY <3>1, <3>2, ConstantsAreNumbers DEF Cooled
    <3> QED
      BY <1>1, <3>3 DEF Rested
  <2> QED
    BY <2>1, <2>2
<1> QED
  BY <1>3, <1>4, <1>5

LEMMA EventInv ==
    ASSUME IInv, NEW action \in Actions, NEW at_ms \in Stamps, IngestEvent(action, at_ms)
    PROVE  IInv'
<1>1. ~finished
  BY DEF IngestEvent
<1>2. /\ Base /\ Watching /\ Waiting /\ Ordered /\ StepHasContext /\ WaitingLosesNothing
      /\ (~early /\ COOLDOWN > 0 => Rested)
  BY <1>1 DEF IInv, Live
<1>3. PICK out : EventCall(at_ms, out)
  BY <1>2, EventCallIs
<1>4. Watching'
  <2>1. /\ EventGives(det, at_ms, out) /\ det' = out.det /\ frame_count' = frame_count
    BY <1>3 DEF EventCall
  <2> QED
    BY <1>2, <2>1 DEF Watching, EventGives
<1>5. Waiting' /\ Ordered' /\ (~early' /\ COOLDOWN > 0 /\ Rested => Rested')
  BY <1>2, <1>3, EventCallOrders
<1>6. /\ UNCHANGED <<frame_count, last_at, retained, candidates, lost, finished>>
      /\ early' = (early \/ (out.marker # {} /\ Minus(last_at, at_ms) >= COOLDOWN))
  BY <1>3 DEF EventCall
<1>7. early' \in BOOLEAN /\ (early => early')
  BY <1>2, <1>6 DEF Base
<1>8. Base' /\ StepHasContext' /\ WaitingLosesNothing'
  BY <1>2, <1>6, <1>7 DEF Base, StepHasContext, WaitingLosesNothing
<1>9. StepsInOrder'
  BY <1>5 DEF Ordered, InOrder, Increasing, StepsInOrder
<1>10. ~early' /\ COOLDOWN > 0 => Rested'
  BY <1>2, <1>5, <1>7
<1> QED
  BY <1>4, <1>5, <1>8, <1>9, <1>10 DEF IInv, Live

-----------------------------------------------------------------------------
(* The end: every marker is resolved at once, after the last frame.        *)
FinishCall(f, out, queue) ==
    /\ f = [id |-> frame_count, at_ms |-> last_at]
    /\ out = IF frame_count = 0 THEN Nothing(det) ELSE DetectorFinish(det, f)
    /\ queue = pending \o SetToSeq(Queued(out.marker, frame_count, TRUE))
    /\ Finalize(queue, DOMAIN queue, frame_count)
    /\ ~finished /\ finished' = TRUE
    /\ UNCHANGED <<frame_count, last_at, early>>

LEMMA FinishCallIs ==
    ASSUME Finish
    PROVE  \E f, out, queue : FinishCall(f, out, queue)
<1>1. PICK f : f = [id |-> frame_count, at_ms |-> last_at]
  OBVIOUS
<1>2. PICK out : out = IF frame_count = 0 THEN Nothing(det) ELSE DetectorFinish(det, f)
  OBVIOUS
<1>3. PICK queue : queue = pending \o SetToSeq(Queued(out.marker, frame_count, TRUE))
  OBVIOUS
<1> QED
  BY <1>1, <1>2, <1>3 DEF Finish, FinishCall

(* The marker of the end is of a frame a window has seen, or of the last   *)
(* one if the detector has cooled down.                                    *)
LEMMA FinishCallSees ==
    ASSUME Base, Watching, NEW f, NEW out, NEW queue, FinishCall(f, out, queue)
    PROVE  \/ out.marker = {}
           \/ \E m \in Markers : /\ out.marker = {m} /\ 1 <= m.center /\ m.center <= frame_count
                                 /\ \/ m.center \in All(det)
                                    \/ m.center = frame_count /\ Cooled(det, last_at)
<1>1. frame_count \in Nat /\ last_at \in Nat /\ f = [id |-> frame_count, at_ms |-> last_at]
      /\ out = IF frame_count = 0 THEN Nothing(det) ELSE DetectorFinish(det, f)
  BY DEF FinishCall, Base
<1>2. det \in Detector /\ Owned(det) /\ \A s \in All(det) : 1 <= s /\ s <= frame_count
  BY DEF Watching
<1>3. CASE frame_count = 0
  BY <1>1, <1>3 DEF Nothing
<1>4. CASE frame_count # 0
  <2>1. out = DetectorFinish(det, f)
    BY <1>1, <1>4
  <2>2. LET o == DetectorFinish(det, f) IN
        \/ o.marker = {}
        \/ \E m \in Markers :
              /\ o.marker = {m}
              /\ m.center \in All(det) \/ (m.center = frame_count /\ Cooled(det, last_at))
    BY <1>1, <1>2, FinishIs
  <2>3. CASE out.marker # {}
    <3>1. PICK m \in Markers :
             /\ out.marker = {m}
             /\ m.center \in All(det) \/ (m.center = frame_count /\ Cooled(det, last_at))
      BY <2>1, <2>2, <2>3
    <3>2. 1 <= m.center /\ m.center <= frame_count
      BY <1>1, <1>2, <1>4, <3>1
    <3> QED
      BY <3>1, <3>2
  <2> QED
    BY <2>3
<1> QED
  BY <1>3, <1>4

LEMMA FinishCallQueues ==
    ASSUME Base, Watching, Waiting, NEW f, NEW out, NEW queue, FinishCall(f, out, queue)
    PROVE  /\ queue \in Seq(Waits)
           /\ \A i \in DOMAIN queue : \/ i \in DOMAIN pending /\ queue[i] = pending[i]
                                      \/ /\ queue[i].queued_at = frame_count
                                         /\ 1 <= queue[i].marker.center
                                         /\ queue[i].marker.center <= frame_count
           /\ Ordered /\ Rested => InOrder(queue)
           /\ Ordered => InOrderToLast(queue)
<1>1. frame_count \in Nat /\ queue = pending \o SetToSeq(Queued(out.marker, frame_count, TRUE))
  BY DEF FinishCall, Base
<1>2. Lined(pending, frame_count) /\ pending \in Seq(Waits)
  BY DEF Waiting, Lined
<1>3. \/ out.marker = {}
      \/ \E m \in Markers : /\ out.marker = {m} /\ 1 <= m.center /\ m.center <= frame_count
                            /\ \/ m.center \in All(det)
                               \/ m.center = frame_count /\ Cooled(det, last_at)
  BY FinishCallSees
<1>4. PICK marker, finishing : marker = out.marker /\ finishing = TRUE
  OBVIOUS
<1>5. queue = pending \o SetToSeq(Queued(marker, frame_count, finishing))
  BY <1>1, <1>4
<1>6. marker = {} \/ \E m \in Markers : marker = {m} /\ m.center <= frame_count
  BY <1>3, <1>4
<1>7. Longer(queue, pending, marker, frame_count, finishing)
  BY <1>1, <1>2, <1>5, <1>6, QueuedIs
<1>8. ASSUME NEW i \in DOMAIN queue
      PROVE  \/ i \in DOMAIN pending /\ queue[i] = pending[i]
             \/ /\ queue[i].queued_at = frame_count
                /\ 1 <= queue[i].marker.center /\ queue[i].marker.center <= frame_count
  <2>1. CASE marker = {}
    BY <1>7, <2>1 DEF Longer
  <2>2. CASE marker # {}
    <3>1. PICK m \in Markers : marker = {m} /\ 1 <= m.center /\ m.center <= frame_count
      BY <1>3, <1>4, <2>2
    <3>2. /\ queue[Len(queue)] = WaitOf(m, frame_count, finishing)
          /\ i \in DOMAIN pending \/ i = Len(queue)
          /\ \A k \in DOMAIN pending : queue[k] = pending[k]
      BY <1>7, <3>1 DEF Longer
    <3>3. /\ WaitOf(m, frame_count, finishing).queued_at = frame_count
          /\ WaitOf(m, frame_count, finishing).marker = m
      BY DEF WaitOf
    <3> QED
      BY <3>1, <3>2, <3>3
  <2> QED
    BY <2>1, <2>2
<1>a. ASSUME Ordered, NEW i \in DOMAIN candidates
      PROVE  candidates[i].keyframe \in Nat /\ candidates[i].keyframe <= frame_count
  <2>1. candidates[i] \in Steps
    BY DEF Base
  <2> QED
    BY <1>a, <2>1 DEF Ordered, Steps
<1>b. ASSUME NEW i \in DOMAIN pending
      PROVE  pending[i].marker.center \in Nat /\ pending[i].marker.center <= frame_count
  <2>1. /\ pending[i] \in Waits /\ pending[i].marker.center <= pending[i].queued_at
        /\ pending[i].queued_at <= frame_count
    BY <1>2 DEF Lined
  <2> QED
    BY <1>1, <2>1, DueIs
<1>9. ASSUME Ordered, Rested PROVE InOrder(queue)
  <2>1. ASSUME NEW m \in Markers, m.center = frame_count, Cooled(det, last_at)
        PROVE  Later(m.center)
    <3>1. \A i \in DOMAIN candidates :
             candidates[i].keyframe \in Nat /\ candidates[i].keyframe <= frame_count
      BY <1>a, <1>9
    <3>2. \A i \in DOMAIN pending :
             pending[i].marker.center \in Nat /\ pending[i].marker.center <= frame_count
      BY <1>b
    <3>3. /\ \A i \in DOMAIN candidates : candidates[i].keyframe # frame_count
          /\ \A i \in DOMAIN pending : pending[i].marker.center # frame_count
      BY <1>9, <2>1 DEF Rested
    <3> QED
      BY <1>1, <2>1, <3>1, <3>2, <3>3 DEF Later
  <2>2. \A s \in All(det) : Later(s)
    BY <1>9 DEF Ordered, Later
  <2>3. \/ marker = {}
        \/ \E m \in Markers : /\ marker = {m} /\ 1 <= m.center /\ m.center <= frame_count
                              /\ Later(m.center)
    BY <1>3, <1>4, <2>1, <2>2
  <2>4. InOrder(pending) /\ frame_count <= frame_count
    BY <1>1, <1>9 DEF Ordered
  <2>5. LET longer == pending \o SetToSeq(Queued(marker, frame_count, finishing)) IN
        Lined(longer, frame_count) /\ InOrder(longer)
    BY ONLY <1>1, <1>2, <2>3, <2>4, QueuedInOrder
  <2> QED
    BY <1>5, <2>5
<1>10. ASSUME Ordered PROVE InOrderToLast(queue)
  <2>0. InOrder(pending) /\ \A s \in All(det) : Later(s)
    BY <1>10 DEF Ordered, Later
  <2>1. CASE marker = {}
    <3>1. queue = pending
      BY <1>7, <2>1 DEF Longer
    <3> QED
      BY <2>0, <3>1 DEF InOrder, InOrderToLast
  <2>2. CASE marker # {}
    <3>1. PICK m \in Markers : /\ marker = {m} /\ m.center <= frame_count
                               /\ m.center \in All(det) \/ m.center = frame_count
      BY <1>3, <1>4, <2>2
    <3>2. m.center \in Nat
      BY DEF Markers
    <3>3. \A i \in DOMAIN candidates :
             candidates[i].keyframe < m.center \/ candidates[i].keyframe = m.center
      <4> TAKE i \in DOMAIN candidates
      <4>1. candidates[i].keyframe \in Nat /\ candidates[i].keyframe <= frame_count
        BY <1>a, <1>10
      <4> QED
        BY <1>1, <2>0, <3>1, <3>2, <4>1 DEF Later
    <3>4. \A i \in DOMAIN pending :
             pending[i].marker.center < m.center \/ pending[i].marker.center = m.center
      <4> TAKE i \in DOMAIN pending
      <4>1. pending[i].marker.center \in Nat /\ pending[i].marker.center <= frame_count
        BY <1>b
      <4> QED
        BY <1>1, <2>0, <3>1, <3>2, <4>1 DEF Later
    <3>5. /\ queue \in Seq(Waits) /\ Len(queue) = Len(pending) + 1
          /\ queue[Len(queue)] = WaitOf(m, frame_count, finishing)
          /\ \A i \in DOMAIN pending : queue[i] = pending[i]
          /\ \A i \in DOMAIN queue : i \in DOMAIN pending \/ i = Len(queue)
      BY <1>7, <3>1 DEF Longer
    <3>6. queue[Len(queue)].marker.center = m.center
      BY <3>5 DEF WaitOf
    <3>7. \A i, k \in DOMAIN queue : i < k => i \in DOMAIN pending
      <4>1. DOMAIN queue = 1..Len(queue) /\ Len(queue) \in Nat
        BY <3>5
      <4> QED
        BY <3>5, <4>1
    <3>8. \A i \in DOMAIN candidates, k \in DOMAIN queue :
             \/ candidates[i].keyframe < queue[k].marker.center
             \/ k = Len(queue) /\ candidates[i].keyframe = queue[k].marker.center
      BY <2>0, <3>3, <3>5, <3>6 DEF InOrder
    <3>9. \A i, k \in DOMAIN queue :
             i < k => \/ queue[i].marker.center < queue[k].marker.center
                      \/ k = Len(queue) /\ queue[i].marker.center = queue[k].marker.center
      <4> TAKE i, k \in DOMAIN queue
      <4> HAVE i < k
      <4>1. i \in DOMAIN pending /\ queue[i] = pending[i]
        BY <3>5, <3>7
      <4>2. CASE k \in DOMAIN pending
        BY <2>0, <3>5, <4>1, <4>2 DEF InOrder
      <4>3. CASE k = Len(queue)
        BY <3>4, <3>6, <4>1, <4>3
      <4> QED
        BY <3>5, <4>2, <4>3
    <3> QED
      BY <2>0, <3>8, <3>9 DEF InOrder, InOrderToLast
  <2> QED
    BY <2>1, <2>2
<1> QED
  BY <1>2, <1>7, <1>8, <1>9, <1>10 DEF Longer

LEMMA FinishInv ==
    ASSUME IInv, Finish
    PROVE  IInv'
<1>1. PICK f, out, queue : FinishCall(f, out, queue)
  BY FinishCallIs
<1>2. /\ ~finished /\ finished' = TRUE /\ frame_count' = frame_count /\ last_at' = last_at
      /\ early' = early /\ Finalize(queue, DOMAIN queue, frame_count)
  BY <1>1 DEF FinishCall
<1>3. /\ Base /\ Watching /\ Waiting /\ Ordered /\ StepHasContext /\ WaitingLosesNothing
      /\ (~early /\ COOLDOWN > 0 => Rested)
  BY <1>2 DEF IInv, Live
<1>4. /\ queue \in Seq(Waits)
      /\ \A i \in DOMAIN queue : \/ i \in DOMAIN pending /\ queue[i] = pending[i]
                                 \/ /\ queue[i].queued_at = frame_count
                                    /\ 1 <= queue[i].marker.center
                                    /\ queue[i].marker.center <= frame_count
      /\ (Rested => InOrder(queue)) /\ InOrderToLast(queue)
  BY <1>1, <1>3, FinishCallQueues
<1>5. PICK due : due = DOMAIN queue
  OBVIOUS
<1>6. /\ candidates' \in Seq(Steps) /\ retained \subseteq retained'
      /\ InOrder(queue) => Increasing'
      /\ LastRepeats(candidates')
      /\ \A j \in DOMAIN candidates' :
            \/ \E i \in DOMAIN candidates : candidates'[j] = candidates[i]
            \/ \E i \in due : Made(candidates'[j], queue[i].marker.center, frame_count, retained')
      /\ \A p \in lost' : p \in lost \/ \E i \in due : /\ p = queue[i]
                                                       /\ ~InRing(p.marker.center, frame_count)
  BY <1>2, <1>3, <1>4, <1>5, FinalizeIs DEF Base
<1>7. Base'
  BY <1>2, <1>3, <1>6 DEF Base
<1>8. StepsInOrder'
  <2>1. CASE ~early /\ COOLDOWN > 0
    BY <1>3, <1>4, <1>6, <2>1 DEF Increasing, StepsInOrder
  <2>2. CASE early \/ COOLDOWN = 0
    <3> SUFFICES ASSUME NEW i \in DOMAIN candidates', NEW k \in DOMAIN candidates', i < k,
                        ~(candidates'[i].keyframe < candidates'[k].keyframe)
                 PROVE  /\ i + 1 = k /\ k = Len(candidates')
                        /\ candidates'[i].keyframe = candidates'[k].keyframe
      BY <1>2, <2>2 DEF StepsInOrder
    <3> QED
      BY <1>6, RepeatsOne
  <2> QED
    BY <1>3, <2>1, <2>2, ConstantsAreNumbers DEF Base
<1>9. StepHasContext'
  <2>1. ASSUME NEW j \in DOMAIN candidates'
        PROVE  LET c == candidates'[j] IN
               /\ c.keyframe \in c.nearby /\ Cardinality(c.nearby) <= NEARBY_MAX
               /\ c.nearby \subseteq retained'
    <3>1. ASSUME NEW i \in DOMAIN candidates, candidates'[j] = candidates[i]
          PROVE  LET c == candidates'[j] IN
                 /\ c.keyframe \in c.nearby /\ Cardinality(c.nearby) <= NEARBY_MAX
                 /\ c.nearby \subseteq retained'
      <4>1. candidates[i] \in ToSet(candidates)
        BY DEF ToSet
      <4> QED
        BY <1>3, <1>6, <3>1, <4>1 DEF StepHasContext
    <3>2. ASSUME NEW i \in due,
                 Made(candidates'[j], queue[i].marker.center, frame_count, retained')
          PROVE  LET c == candidates'[j] IN
                 /\ c.keyframe \in c.nearby /\ Cardinality(c.nearby) <= NEARBY_MAX
                 /\ c.nearby \subseteq retained'
      BY <3>2 DEF Made
    <3> QED
      BY <1>6, <3>1, <3>2
  <2>2. \A c \in ToSet(candidates') : \E j \in DOMAIN candidates' : c = candidates'[j]
    BY DEF ToSet
  <2> QED
    BY <1>2, <2>1, <2>2 DEF StepHasContext
<1>10. WaitingLosesNothing'
  <2>1. ASSUME NEW p \in lost'
        PROVE  ~InRing(p.marker.center, p.queued_at + 1)
    <3>1. CASE p \in lost
      BY <1>3, <3>1 DEF WaitingLosesNothing
    <3>2. ASSUME NEW i \in DOMAIN queue, p = queue[i], ~InRing(p.marker.center, frame_count)
          PROVE  ~InRing(p.marker.center, p.queued_at + 1)
      <4>0. frame_count \in Nat
        BY <1>3 DEF Base
      <4>1. CASE i \in DOMAIN pending /\ queue[i] = pending[i]
        <5>1. /\ p \in Waits /\ p.marker.center >= 1 /\ p.marker.center <= p.queued_at
              /\ p.queued_at <= frame_count
              /\ p.resolve_at = DueAt(p.marker.center, p.queued_at)
              /\ p.resolve_at > frame_count \/ p.queued_at = frame_count
          BY <1>3, <3>2, <4>1 DEF Waiting, Lined
        <5>2. /\ p.marker.center \in Nat /\ p.queued_at \in Nat /\ p.resolve_at \in Nat
              /\ p.resolve_at \in {p.queued_at, p.marker.center + WINDOW_AFTER}
          BY <5>1, DueIs
        <5>3. CASE p.queued_at = frame_count
          BY <3>2, <5>1, <5>2, <5>3, LeftRing
        <5>4. CASE p.resolve_at > frame_count /\ p.queued_at # frame_count
          <6>1. frame_count < p.marker.center + RING_CAPACITY /\ p.marker.center <= frame_count
            BY <4>0, <5>1, <5>2, <5>4, ConstantsAreNumbers
          <6>2. InRing(p.marker.center, frame_count)
            BY <4>0, <5>1, <5>2, <6>1, InRingIs
          <6> QED
            BY <3>2, <6>2
        <5> QED
          BY <5>1, <5>3, <5>4
      <4>2. CASE p.queued_at = frame_count /\ 1 <= p.marker.center /\ p.marker.center <= frame_count
        <5>1. p \in Waits
          BY <1>4, <3>2
        <5>2. p.marker.center \in Nat
          BY <5>1, DueIs
        <5> QED
          BY <3>2, <4>0, <4>2, <5>2, LeftRing
      <4> QED
        BY <1>4, <3>2, <4>1, <4>2
    <3> QED
      BY <1>5, <1>6, <3>1, <3>2
  <2> QED
    BY <2>1 DEF WaitingLosesNothing
<1> QED
  BY <1>2, <1>7, <1>8, <1>9, <1>10 DEF IInv

LEMMA StutterInv ==
    ASSUME IInv, UNCHANGED vars
    PROVE  IInv'
<1>1. UNCHANGED <<frame_count, last_at, retained, det, pending, candidates, lost, early,
                  finished>>
  BY DEF vars
<1>2. Base' /\ StepHasContext' /\ StepsInOrder' /\ WaitingLosesNothing'
  BY <1>1 DEF IInv, Base, StepHasContext, StepsInOrder, WaitingLosesNothing
<1>3. ASSUME ~finished' PROVE Live'
  <2>1. Live
    BY <1>1, <1>3 DEF IInv
  <2>2. Watching' /\ Waiting' /\ Ordered'
    BY <1>1, <2>1 DEF Live, Watching, Waiting, Ordered, InOrder, Increasing
  <2>3. ~early' /\ COOLDOWN > 0 => Rested'
    BY <1>1, <2>1 DEF Live, Rested
  <2> QED
    BY <2>2, <2>3 DEF Live
<1> QED
  BY <1>2, <1>3 DEF IInv

LEMMA NextInv ==
    ASSUME IInv, [Next]_vars
    PROVE  IInv'
<1>1. CASE \E luma \in Luma, at_ms \in Stamps : IngestFrame(luma, at_ms)
  BY <1>1, FrameInv
<1>2. CASE \E action \in Actions, at_ms \in Stamps : IngestEvent(action, at_ms)
  BY <1>2, EventInv
<1>3. CASE Finish
  BY <1>3, FinishInv
<1>4. CASE UNCHANGED vars
  BY <1>4, StutterInv
<1> QED
  BY <1>1, <1>2, <1>3, <1>4 DEF Next

LEMMA AlwaysInv == Spec => []IInv
<1>1. Init => IInv
  BY InitInv
<1>2. IInv /\ [Next]_vars => IInv'
  BY NextInv
<1> QED
  BY <1>1, <1>2, PTL DEF Spec

-----------------------------------------------------------------------------
(* Whatever the clocks stamp, the steps of a recording come out in the     *)
(* order of their keyframes and no frame is the keyframe of two; only the  *)
(* last step can repeat the one before it, when an event that closed a     *)
(* click was stamped a cooldown or more before the last frame              *)
(* (src/crates/rollshot-action/src/recorder.rs:91, :111).                  *)
THEOREM StepsAlwaysInOrder == Spec => []StepsInOrder
<1>1. IInv => StepsInOrder
  BY DEF IInv
<1> QED
  BY <1>1, AlwaysInv, PTL

(* A step found while recording has its keyframe in its strip, a strip of  *)
(* retained frames, and the whole window after the keyframe retained       *)
(* (src/crates/rollshot-action/src/frame_store.rs:136, :175).              *)
THEOREM StepsAlwaysHaveContext == Spec => []StepHasContext
<1>1. IInv => StepHasContext
  BY DEF IInv
<1> QED
  BY <1>1, AlwaysInv, PTL

(* Whatever the clocks stamp, no marker loses its frame by waiting: what   *)
(* is lost had left the ring one frame after the detector decided          *)
(* (src/crates/rollshot-action/src/recorder.rs:27, :111, :129).            *)
THEOREM WaitingNeverLoses == Spec => []WaitingLosesNothing
<1>1. IInv => WaitingLosesNothing
  BY DEF IInv
<1> QED
  BY <1>1, AlwaysInv, PTL
=============================================================================
