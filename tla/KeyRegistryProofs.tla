-------------------------- MODULE KeyRegistryProofs --------------------------
(***************************************************************************)
(* Theorems about KeyRegistry, for Registries of any length, any keys,     *)
(* principals and instants, and any number of spellings of an instant.     *)
(***************************************************************************)
EXTENDS KeyRegistry, TLAPS

Boundaries == {"validUntil", "revokedAt"}

\* Registries as they are read, of headers H and statuses S.
ReadsOf(H, S) == [header: H, statuses: Seq(S)]
TextsOf(H, S) == Seq(ReadsOf(H, S))

-----------------------------------------------------------------------------
(* Texts and their places.                                                 *)

\* A place is a declaration of its key and one of its statuses, and every such
\* pair is a place.
LEMMA PlaceIsPair ==
  ASSUME NEW text, NEW k, NEW p \in Places(text, k)
  PROVE  \E i \in DOMAIN text : \E j \in DOMAIN text[i].statuses :
           text[i].header.key = k /\ p = <<i, j>>
BY DEF Places

LEMMA PairIsPlace ==
  ASSUME NEW text, NEW k, NEW i \in DOMAIN text, NEW j \in DOMAIN text[i].statuses,
         text[i].header.key = k
  PROVE  <<i, j>> \in Places(text, k)
BY DEF Places

LEMMA PlaceType ==
  ASSUME NEW H, NEW S, NEW text \in TextsOf(H, S), NEW k, NEW p \in Places(text, k)
  PROVE  /\ p[1] \in DOMAIN text /\ p[1] \in Nat
         /\ p[2] \in DOMAIN text[p[1]].statuses /\ p[2] \in Nat
         /\ p = <<p[1], p[2]>> /\ text[p[1]].header.key = k
         /\ StatusAt(text, p) \in S
<1>1. PICK i \in DOMAIN text : \E j \in DOMAIN text[i].statuses :
        text[i].header.key = k /\ p = <<i, j>>
  BY PlaceIsPair
<1>2. PICK j \in DOMAIN text[i].statuses : text[i].header.key = k /\ p = <<i, j>>
  BY <1>1
<1>3. text[i] \in ReadsOf(H, S) /\ i \in Nat
  BY DEF TextsOf
<1>4. text[i].statuses \in Seq(S)
  BY <1>3 DEF ReadsOf
<1>5. j \in Nat /\ text[i].statuses[j] \in S
  BY <1>2, <1>4
<1> QED
  BY <1>1, <1>2, <1>3, <1>5 DEF StatusAt

\* Two places of one text are the same or one is before the other.
LEMMA PlacesAreOrdered ==
  ASSUME NEW H, NEW S, NEW text \in TextsOf(H, S), NEW k,
         NEW p \in Places(text, k), NEW q \in Places(text, k)
  PROVE  /\ p = q \/ Before(p, q) \/ Before(q, p)
         /\ Before(p, q) => ~Before(q, p) /\ p # q
BY PlaceType DEF Before

LEMMA Limits == Instants \subseteq Nat /\ MaxSequence \in Nat /\ None \notin Stamps
                /\ None \notin Instants /\ None \notin Requests
BY RegistryAssumption

LEMMA StampFields ==
  ASSUME NEW e \in Stamps
  PROVE  e.at \in Nat /\ e.at \in Instants /\ e # None
BY Limits DEF Stamps

LEMMA HeaderFields ==
  ASSUME NEW h \in HeaderTypes
  PROVE  /\ h.key \in Keys /\ h.principal \in Principals
         /\ h.public \in PublicKeys /\ h.from \in Stamps
         /\ h.from.at \in Nat /\ h.wellFormed \in BOOLEAN
<1>1. /\ h.key \in Keys /\ h.principal \in Principals
      /\ h.public \in PublicKeys /\ h.from \in Stamps /\ h.wellFormed \in BOOLEAN
  BY DEF HeaderTypes
<1> QED
  BY <1>1, StampFields

LEMMA StatusFields ==
  ASSUME NEW s \in StatusTypes
  PROVE  /\ s.sequence \in Nat /\ s.recordedAt \in Nat
         /\ s.recordedAt \in Instants /\ s.wellFormed \in BOOLEAN
         /\ \A b \in Boundaries :
              /\ s[b] \in Stamps \cup {None}
              /\ s[b] # None => s[b] \in Stamps /\ s[b].at \in Nat
<1>1. /\ s.sequence \in 0..(MaxSequence + 1)
      /\ s.recordedAt \in Instants /\ s.wellFormed \in BOOLEAN
      /\ s.validUntil \in Stamps \cup {None} /\ s.revokedAt \in Stamps \cup {None}
  BY DEF StatusTypes
<1>2. \A e \in Stamps : e.at \in Nat
  BY StampFields
<1>3. s.recordedAt \in Nat
  BY <1>1, Limits
<1>4. s.sequence \in Nat
  BY <1>1, Limits
<1> QED
  BY <1>1, <1>2, <1>3, <1>4 DEF Boundaries

Declared(text, h) == Append(text, [header |-> h, statuses |-> <<>>])

Merged(text, s) == [text EXCEPT ![Len(text)].statuses = Append(@, s)]

\* The place of a status that is appended.
NextPlace(text) == <<Len(text), Len(text[Len(text)].statuses) + 1>>

\* A declaration is appended.
LEMMA DeclarationReads ==
  ASSUME NEW H, NEW S, NEW text \in TextsOf(H, S), NEW h \in H
  PROVE  /\ Declared(text, h) \in TextsOf(H, S) /\ Declared(text, h) # <<>>
         /\ HeadersOf(Declared(text, h)) = HeadersOf(text) \cup {h}
         /\ \A k : Places(Declared(text, h), k) = Places(text, k)
         /\ \A k : \A p \in Places(text, k) :
              StatusAt(Declared(text, h), p) = StatusAt(text, p)
<1> DEFINE element == [header |-> h, statuses |-> <<>>]
           longer == Declared(text, h)
<1>l. longer = Append(text, element)
  BY DEF Declared
<1> HIDE DEF longer
<1>0. element \in ReadsOf(H, S)
  BY DEF ReadsOf
<1>1. longer \in TextsOf(H, S) /\ longer # <<>>
  BY <1>0, <1>l DEF TextsOf
<1>2. /\ DOMAIN longer = DOMAIN text \cup {Len(text) + 1}
      /\ longer[Len(text) + 1] = element
      /\ \A i \in DOMAIN text : longer[i] = text[i]
  BY <1>l DEF TextsOf
<1>3. HeadersOf(longer) = HeadersOf(text) \cup {h}
  BY <1>2 DEF HeadersOf
<1>4. \A k : Places(longer, k) = Places(text, k)
  <2>1. DOMAIN longer[Len(text) + 1].statuses = {}
    BY <1>2
  <2>2. ASSUME NEW k, NEW p \in Places(text, k) PROVE p \in Places(longer, k)
    <3>1. PICK i \in DOMAIN text : \E j \in DOMAIN text[i].statuses :
            text[i].header.key = k /\ p = <<i, j>>
      BY PlaceIsPair
    <3>2. i \in DOMAIN longer /\ longer[i] = text[i]
      BY <1>2
    <3> QED
      BY <3>1, <3>2, PairIsPlace
  <2>3. ASSUME NEW k, NEW p, p \in Places(longer, k) PROVE p \in Places(text, k)
    <3>1. PICK i \in DOMAIN longer : \E j \in DOMAIN longer[i].statuses :
            longer[i].header.key = k /\ p = <<i, j>>
      BY ONLY <2>3, PlaceIsPair
    <3>2. i \in DOMAIN text /\ longer[i] = text[i]
      BY <1>2, <2>1, <3>1
    <3> QED
      BY <3>1, <3>2, PairIsPlace
  <2>4. ASSUME NEW k PROVE Places(longer, k) \subseteq Places(text, k)
    BY ONLY <2>3
  <2>5. ASSUME NEW k PROVE Places(text, k) \subseteq Places(longer, k)
    BY ONLY <2>2
  <2> QED
    BY ONLY <2>4, <2>5
<1>5. ASSUME NEW k, NEW p \in Places(text, k)
      PROVE  StatusAt(longer, p) = StatusAt(text, p)
  BY <1>2, PlaceType DEF StatusAt
<1> QED
  BY <1>1, <1>3, <1>4, <1>5 DEF longer

\* A status is appended to the last declaration.
LEMMA StatusReads ==
  ASSUME NEW H, NEW S, NEW text \in TextsOf(H, S), text # <<>>, NEW s \in S
  PROVE  /\ Merged(text, s) \in TextsOf(H, S) /\ Merged(text, s) # <<>>
         /\ text[Len(text)].header \in HeadersOf(text)
         /\ HeadersOf(Merged(text, s)) = HeadersOf(text)
         /\ \A k : \A p : p \in Places(Merged(text, s), k)
              <=> \/ p \in Places(text, k)
                  \/ k = text[Len(text)].header.key /\ p = NextPlace(text)
         /\ StatusAt(Merged(text, s), NextPlace(text)) = s
         /\ \A k : \A p \in Places(text, k) :
              /\ StatusAt(Merged(text, s), p) = StatusAt(text, p)
              /\ Before(p, NextPlace(text))
<1> DEFINE last == Len(text)
           old == text[last].statuses
           key == text[last].header.key
           place == <<last, Len(old) + 1>>
           longer == Merged(text, s)
<1>l. longer = [text EXCEPT ![last].statuses = Append(@, s)]
      /\ NextPlace(text) = place
  BY DEF Merged, NextPlace
<1> HIDE DEF longer
<1>1. last \in DOMAIN text /\ text[last] \in ReadsOf(H, S)
  BY DEF TextsOf
<1>2. old \in Seq(S) /\ text[last].header \in H
  BY <1>1 DEF ReadsOf
<1>3. /\ DOMAIN longer = DOMAIN text
      /\ longer[last] = [text[last] EXCEPT !.statuses = Append(@, s)]
      /\ \A i \in DOMAIN text : i # last => longer[i] = text[i]
  BY <1>1, <1>l
<1>4. /\ longer[last].header = text[last].header
      /\ longer[last].statuses = Append(old, s)
      /\ longer[last] \in ReadsOf(H, S)
  <2>1. Append(old, s) \in Seq(S)
    BY <1>2
  <2> QED
    BY <1>1, <1>2, <1>3, <2>1 DEF ReadsOf
<1>5. longer \in TextsOf(H, S) /\ longer # <<>>
  <2>1. \A i \in DOMAIN text : longer[i] \in ReadsOf(H, S)
    BY <1>3, <1>4 DEF TextsOf
  <2>2. Len(text) \in Nat /\ DOMAIN text = 1..Len(text)
    BY DEF TextsOf
  <2>3. longer = [i \in 1..Len(text) |-> longer[i]]
    BY <1>l, <2>2
  <2> QED
    BY <1>1, <1>3, <2>1, <2>2, <2>3 DEF TextsOf
<1>6. HeadersOf(longer) = HeadersOf(text) /\ text[last].header \in HeadersOf(text)
  <2>1. \A i \in DOMAIN text : longer[i].header = text[i].header
    BY <1>3, <1>4
  <2> QED
    BY <1>1, <1>3, <2>1 DEF HeadersOf
<1>7. /\ DOMAIN longer[last].statuses = DOMAIN old \cup {Len(old) + 1}
      /\ longer[last].statuses[Len(old) + 1] = s
      /\ \A j \in DOMAIN old : longer[last].statuses[j] = old[j]
  BY <1>2, <1>4
<1>8. ASSUME NEW k, NEW p \in Places(text, k)
      PROVE  /\ p \in Places(longer, k)
             /\ StatusAt(longer, p) = StatusAt(text, p) /\ Before(p, place)
  <2>1. PICK i \in DOMAIN text : \E j \in DOMAIN text[i].statuses :
          text[i].header.key = k /\ p = <<i, j>>
    BY PlaceIsPair
  <2>2. PICK j \in DOMAIN text[i].statuses : text[i].header.key = k /\ p = <<i, j>>
    BY <2>1
  <2>3. /\ j \in DOMAIN longer[i].statuses /\ i \in DOMAIN longer
        /\ longer[i].statuses[j] = text[i].statuses[j]
        /\ longer[i].header.key = k
    BY <1>3, <1>4, <1>7, <2>2
  <2>4. p \in Places(longer, k)
    BY <2>2, <2>3, PairIsPlace
  <2>5. i < last \/ (i = last /\ j < Len(old) + 1)
    BY <1>2 DEF TextsOf
  <2> QED
    BY <2>2, <2>3, <2>4, <2>5 DEF StatusAt, Before
<1>9. place \in Places(longer, key)
  BY <1>1, <1>3, <1>4, <1>7, PairIsPlace
<1>10. ASSUME NEW k, NEW p, p \in Places(longer, k), p \notin Places(text, k)
       PROVE  k = key /\ p = place
  <2>1. PICK i \in DOMAIN longer : \E j \in DOMAIN longer[i].statuses :
          longer[i].header.key = k /\ p = <<i, j>>
    BY ONLY <1>10, PlaceIsPair
  <2>2. PICK j \in DOMAIN longer[i].statuses :
          longer[i].header.key = k /\ p = <<i, j>>
    BY <2>1
  <2>3. i = last
    BY <1>3, <1>10, <2>2, PairIsPlace
  <2>4. j \notin DOMAIN old
    BY <1>1, <1>4, <1>10, <2>2, <2>3, PairIsPlace
  <2> QED
    BY <1>4, <1>7, <2>2, <2>3, <2>4
<1>11. StatusAt(longer, place) = s
  BY <1>7 DEF StatusAt
<1> HIDE DEF last, old, key, place
<1>12. \A k : \A p : p \in Places(longer, k)
              <=> p \in Places(text, k) \/ (k = key /\ p = place)
  BY <1>8, <1>9, <1>10
<1>13. \A k : \A p \in Places(text, k) :
         StatusAt(longer, p) = StatusAt(text, p) /\ Before(p, place)
  BY <1>8
<1> QED
  BY <1>l, <1>5, <1>6, <1>11, <1>12, <1>13 DEF key, longer, last

-----------------------------------------------------------------------------
(* Maps, statuses and their order.                                         *)

LEMMA EmplaceKeeps ==
  ASSUME NEW map, NEW k, NEW v
  PROVE  /\ DOMAIN Emplace(map, k, v) = DOMAIN map \cup {k}
         /\ \A x \in DOMAIN map : Emplace(map, k, v)[x] = map[x]
         /\ k \notin DOMAIN map => Emplace(map, k, v)[k] = v
BY DEF Emplace

LEMMA EmplaceIsMap ==
  ASSUME NEW map, NEW K, NEW V, IsMap(map, K, V), NEW k \in K, NEW v \in V
  PROVE  IsMap(Emplace(map, k, v), K, V)
BY DEF IsMap, Emplace

LEMMA EmptyIsMap == ASSUME NEW K, NEW V PROVE IsMap(EmptyMap, K, V)
BY DEF IsMap, EmptyMap

\* Two statuses say the same when they are recorded at one time and each
\* boundary is absent from both or at one instant in both.
LEMMA SameStatusIs ==
  ASSUME NEW s, NEW t
  PROVE  SameStatus(s, t)
           <=> /\ s.recordedAt = t.recordedAt
               /\ \A b \in Boundaries :
                    /\ s[b] = None <=> t[b] = None
                    /\ s[b] # None => s[b].at = t[b].at
BY DEF SameStatus, SameBoundary, Boundaries

LEMMA PrecedesIs ==
  ASSUME NEW s \in StatusTypes, NEW t \in StatusTypes
  PROVE  Precedes(s, t)
           <=> /\ s.recordedAt <= t.recordedAt
               /\ \A b \in Boundaries :
                    s[b] # None /\ t[b] # None => t[b].at <= s[b].at
<1>1. \A b \in Boundaries : /\ s[b] # None => s[b].at \in Nat
                            /\ t[b] # None => t[b].at \in Nat
  BY StatusFields
<1>2. \A b \in Boundaries :
        ~MovesLater(t[b], s[b]) <=> (s[b] # None /\ t[b] # None => t[b].at <= s[b].at)
  BY <1>1 DEF MovesLater
<1> QED
  BY <1>2 DEF Precedes, Boundaries

-----------------------------------------------------------------------------
(* What a history holds of a text: every status of the key, and under each *)
(* sequence the status that was read first.                                *)

First(text, k, history, n, p) ==
  /\ StatusAt(text, p) = history[n]
  /\ StatusAt(text, p).sequence = n
  /\ \A q \in Places(text, k) :
       StatusAt(text, q).sequence = n => q = p \/ Before(p, q)

Entered(history, s) ==
  /\ s.wellFormed
  /\ s.sequence \in DOMAIN history
  /\ SameStatus(history[s.sequence], s)

Enters(text, k, history) ==
  /\ \A p \in Places(text, k) : Entered(history, StatusAt(text, p))
  /\ \A n \in DOMAIN history : \E p \in Places(text, k) : First(text, k, history, n, p)

\* A text without statuses of the key has an empty history.
LEMMA EntersNothing ==
  ASSUME NEW text, NEW k, Places(text, k) = {}
  PROVE  Enters(text, k, EmptyMap)
BY DEF Enters, EmptyMap

\* A history holds of every text in which its key has the same statuses.
LEMMA EntersAlike ==
  ASSUME NEW text, NEW longer, NEW k, NEW history, Enters(text, k, history),
         Places(longer, k) = Places(text, k),
         \A p \in Places(text, k) : StatusAt(longer, p) = StatusAt(text, p)
  PROVE  Enters(longer, k, history)
<1>1. ASSUME NEW n \in DOMAIN history, NEW p \in Places(text, k),
             First(text, k, history, n, p)
      PROVE  First(longer, k, history, n, p)
  BY <1>1 DEF First
<1> QED
  BY <1>1 DEF Enters

\* A status is entered.
LEMMA EntersStatus ==
  ASSUME NEW text, NEW longer, NEW k, NEW history, Enters(text, k, history),
         NEW place, NEW s, StatusAt(longer, place) = s,
         Places(longer, k) = Places(text, k) \cup {place},
         \A p \in Places(text, k) :
           StatusAt(longer, p) = StatusAt(text, p) /\ Before(p, place),
         s.wellFormed,
         SameStatus(Emplace(history, s.sequence, s)[s.sequence], s)
  PROVE  Enters(longer, k, Emplace(history, s.sequence, s))
<1> DEFINE new == Emplace(history, s.sequence, s)
<1>1. /\ DOMAIN new = DOMAIN history \cup {s.sequence}
      /\ \A x \in DOMAIN history : new[x] = history[x]
      /\ s.sequence \notin DOMAIN history => new[s.sequence] = s
  BY DEF Emplace
<1> HIDE DEF new
<1>2. ASSUME NEW p \in Places(longer, k) PROVE Entered(new, StatusAt(longer, p))
  <2>1. CASE p = place
    BY <1>1, <2>1 DEF Entered, new
  <2>2. CASE p \in Places(text, k)
    BY <1>1, <2>2 DEF Entered, Enters
  <2> QED
    BY <2>1, <2>2
<1>3. ASSUME NEW n \in DOMAIN history
      PROVE  \E p \in Places(longer, k) : First(longer, k, new, n, p)
  <2>1. PICK p \in Places(text, k) : First(text, k, history, n, p)
    BY DEF Enters
  <2>2. First(longer, k, new, n, p)
    BY <1>1, <2>1 DEF First
  <2> QED
    BY <2>2
<1>4. ASSUME s.sequence \notin DOMAIN history
      PROVE  First(longer, k, new, s.sequence, place)
  <2>1. ASSUME NEW q \in Places(text, k) PROVE StatusAt(longer, q).sequence # s.sequence
    BY <1>4 DEF Enters, Entered
  <2> QED
    BY <1>1, <1>4, <2>1 DEF First
<1>5. \A n \in DOMAIN new : \E p \in Places(longer, k) : First(longer, k, new, n, p)
  BY <1>1, <1>3, <1>4
<1> QED
  BY <1>2, <1>5 DEF Enters, new

\* A status that cannot be entered makes no history.
LEMMA EntersFault ==
  ASSUME NEW text, NEW longer, NEW k, NEW history, Enters(text, k, history),
         NEW place, NEW s \in StatusTypes, StatusAt(longer, place) = s,
         Places(longer, k) = Places(text, k) \cup {place},
         \A p \in Places(text, k) : StatusAt(longer, p) = StatusAt(text, p),
         ~(/\ s.wellFormed
           /\ s.sequence \in 1..MaxSequence
           /\ SameStatus(Emplace(history, s.sequence, s)[s.sequence], s))
  PROVE  ~HistoryAgrees(StatusesOf(longer, k))
<1> SUFFICES ASSUME HistoryAgrees(StatusesOf(longer, k)) PROVE FALSE
  OBVIOUS
<1>1. s \in StatusesOf(longer, k)
  BY DEF StatusesOf
<1>2. s.wellFormed
  BY <1>1 DEF HistoryAgrees
<1>3. s.sequence \in 1..MaxSequence
  <2>1. PICK n \in 0..MaxSequence :
          {t.sequence : t \in StatusesOf(longer, k)} = 1..n
    BY DEF HistoryAgrees
  <2>2. s.sequence \in 1..n
    BY <1>1, <2>1
  <2> QED
    BY <2>2, Limits
<1>4. s.sequence \in DOMAIN history
  <2>1. SameStatus(s, s)
    BY SameStatusIs
  <2>2. s.sequence \notin DOMAIN history => Emplace(history, s.sequence, s)[s.sequence] = s
    BY EmplaceKeeps
  <2> QED
    BY <1>2, <1>3, <2>1, <2>2
<1>5. Emplace(history, s.sequence, s)[s.sequence] = history[s.sequence]
  BY <1>4 DEF Emplace
<1>6. PICK p \in Places(text, k) : First(text, k, history, s.sequence, p)
  BY <1>4 DEF Enters
<1>7. /\ history[s.sequence] \in StatusesOf(longer, k)
      /\ history[s.sequence].sequence = s.sequence
  BY <1>6 DEF First, StatusesOf
<1> QED
  BY <1>1, <1>2, <1>3, <1>5, <1>7 DEF HistoryAgrees

-----------------------------------------------------------------------------
(* What a fold holds of a history: it is folded up to the status before    *)
(* the next, without a gap and in order, and each boundary is what the     *)
(* first status with its earliest instant says.                            *)

Folded(history, next, b, e) ==
  IF e = None THEN \A m \in 1..(next - 1) : history[m][b] = None
  ELSE \E m \in 1..(next - 1) :
         /\ history[m][b] = e
         /\ \A l \in 1..(next - 1) : history[l][b] # None =>
              e.at < history[l][b].at \/ (e.at = history[l][b].at /\ m <= l)

InOrder(history, next) ==
  \A m, n \in 1..(next - 1) : m < n => Precedes(history[m], history[n])

Folds(history, f) ==
  /\ f.next \in Nat \ {0}
  /\ 1..(f.next - 1) \subseteq DOMAIN history
  /\ f.next = 1 => f.recordedAt = None
  /\ f.next # 1 => f.recordedAt = history[f.next - 1].recordedAt
  /\ InOrder(history, f.next)
  /\ \A b \in Boundaries : Folded(history, f.next, b, f[b])

LEMMA HistoryAt ==
  ASSUME NEW history, IsMap(history, 1..MaxSequence, StatusTypes),
         NEW n \in DOMAIN history
  PROVE  /\ n \in 1..MaxSequence /\ n \in Nat /\ n >= 1
         /\ history[n] \in StatusTypes
BY Limits DEF IsMap

\* Nothing is folded yet.
LEMMA FoldsNothing == ASSUME NEW history PROVE Folds(history, Unfolded)
BY DEF Folds, Unfolded, InOrder, Folded, Boundaries

\* A boundary is folded over one more status.
LEMMA FoldedOn ==
  ASSUME NEW history, IsMap(history, 1..MaxSequence, StatusTypes),
         NEW n \in DOMAIN history, 1..(n - 1) \subseteq DOMAIN history,
         NEW b \in Boundaries, NEW e \in Stamps \cup {None},
         Folded(history, n, b, e)
  PROVE  Folded(history, n + 1, b, Earlier(history[n][b], e))
<1> DEFINE s == history[n][b]
<1>1. /\ n \in Nat /\ n >= 1
      /\ s # None => s.at \in Nat
      /\ \A l \in 1..(n - 1) : history[l][b] # None => history[l][b].at \in Nat
  BY HistoryAt, StatusFields
<1>2. e # None => e.at \in Nat
  BY StampFields
<1>3. \A l \in 1..((n + 1) - 1) : l = n \/ l \in 1..(n - 1)
  BY <1>1
<1>4. 1..(n - 1) \subseteq 1..((n + 1) - 1) /\ n \in 1..((n + 1) - 1)
  BY <1>1
<1>5. CASE s = None /\ e = None
  BY <1>3, <1>5 DEF Folded, Earlier
<1>6. CASE s = None /\ e # None
  <2>1. PICK m \in 1..(n - 1) :
          /\ history[m][b] = e
          /\ \A l \in 1..(n - 1) : history[l][b] # None =>
               e.at < history[l][b].at \/ (e.at = history[l][b].at /\ m <= l)
    BY <1>6 DEF Folded
  <2> QED
    BY <1>3, <1>4, <1>6, <2>1 DEF Folded, Earlier
<1>7. CASE s # None /\ e = None
  <2>1. \A l \in 1..(n - 1) : history[l][b] = None
    BY <1>7 DEF Folded
  <2> QED
    BY <1>1, <1>3, <1>4, <1>7, <2>1 DEF Folded, Earlier
<1>8. CASE s # None /\ e # None
  <2>1. PICK m \in 1..(n - 1) :
          /\ history[m][b] = e
          /\ \A l \in 1..(n - 1) : history[l][b] # None =>
               e.at < history[l][b].at \/ (e.at = history[l][b].at /\ m <= l)
    BY <1>8 DEF Folded
  <2>2. CASE s.at < e.at
    <3>1. Earlier(s, e) = s
      BY <1>8, <2>2 DEF Earlier
    <3>2. \A l \in 1..(n - 1) : history[l][b] # None => s.at < history[l][b].at
      BY <1>1, <1>2, <1>8, <2>1, <2>2
    <3> QED
      BY <1>1, <1>3, <1>4, <1>8, <3>1, <3>2 DEF Folded
  <2>3. CASE ~(s.at < e.at)
    <3>1. Earlier(s, e) = e
      BY <1>8, <2>3 DEF Earlier
    <3>2. e.at < s.at \/ (e.at = s.at /\ m <= n)
      BY <1>1, <1>2, <1>8, <2>3
    <3> QED
      BY <1>3, <1>4, <1>8, <2>1, <3>1, <3>2 DEF Folded
  <2> QED
    BY <2>2, <2>3
<1> QED
  BY <1>5, <1>6, <1>7, <1>8

\* What Foldable looks at of one history and one fold.
Continues(history, f, n) ==
  /\ n = f.next
  /\ f.recordedAt # None => f.recordedAt <= history[n].recordedAt
  /\ ~MovesLater(history[n].validUntil, f.validUntil)
  /\ ~MovesLater(history[n].revokedAt, f.revokedAt)

FoldTypes == [next: 1..(MaxSequence + 1), recordedAt: Instants \cup {None},
              validUntil: Stamps \cup {None}, revokedAt: Stamps \cup {None}]

FoldedWith(f, n, s) ==
  [next |-> n + 1, recordedAt |-> s.recordedAt,
   validUntil |-> Earlier(s.validUntil, f.validUntil),
   revokedAt |-> Earlier(s.revokedAt, f.revokedAt)]

LEMMA FoldFields ==
  ASSUME NEW f \in FoldTypes
  PROVE  /\ f.next \in 1..(MaxSequence + 1)
         /\ \A b \in Boundaries : f[b] \in Stamps \cup {None}
BY DEF FoldTypes, Boundaries

LEMMA FoldedWithType ==
  ASSUME NEW f \in FoldTypes, NEW n \in 1..MaxSequence, NEW s \in StatusTypes
  PROVE  FoldedWith(f, n, s) \in FoldTypes
<1>1. s.recordedAt \in Instants /\ s.validUntil \in Stamps \cup {None}
      /\ s.revokedAt \in Stamps \cup {None}
  BY DEF StatusTypes
<1>2. f.validUntil \in Stamps \cup {None} /\ f.revokedAt \in Stamps \cup {None}
  BY DEF FoldTypes
<1>3. n + 1 \in 1..(MaxSequence + 1)
  BY Limits
<1>4. /\ Earlier(s.validUntil, f.validUntil) \in Stamps \cup {None}
      /\ Earlier(s.revokedAt, f.revokedAt) \in Stamps \cup {None}
  BY <1>1, <1>2 DEF Earlier
<1> QED
  BY <1>1, <1>3, <1>4 DEF FoldTypes, FoldedWith

\* A boundary that does not move later than the folded one moves later than
\* none of the folded statuses, and the other way round.
LEMMA FoldedOrder ==
  ASSUME NEW history, IsMap(history, 1..MaxSequence, StatusTypes),
         NEW n \in DOMAIN history, 1..(n - 1) \subseteq DOMAIN history,
         NEW b \in Boundaries, NEW e \in Stamps \cup {None},
         Folded(history, n, b, e)
  PROVE  ~MovesLater(history[n][b], e)
           <=> \A l \in 1..(n - 1) : history[l][b] # None /\ history[n][b] # None
                 => history[n][b].at <= history[l][b].at
<1>1. /\ history[n][b] # None => history[n][b].at \in Nat
      /\ \A l \in 1..(n - 1) : history[l][b] # None => history[l][b].at \in Nat
      /\ e # None => e.at \in Nat
  BY HistoryAt, StatusFields, StampFields
<1>2. CASE e = None
  BY <1>2 DEF Folded, MovesLater
<1>3. CASE e # None
  <2>1. PICK m \in 1..(n - 1) :
          /\ history[m][b] = e
          /\ \A l \in 1..(n - 1) : history[l][b] # None =>
               e.at < history[l][b].at \/ (e.at = history[l][b].at /\ m <= l)
    BY <1>3 DEF Folded
  <2>2. ~MovesLater(history[n][b], e) <=> (history[n][b] # None => history[n][b].at <= e.at)
    BY <1>1, <1>3 DEF MovesLater
  <2>3. ASSUME history[n][b] # None
        PROVE  history[n][b].at <= e.at
                 <=> \A l \in 1..(n - 1) : history[l][b] # None
                       => history[n][b].at <= history[l][b].at
    BY <1>1, <1>3, <2>1, <2>3
  <2> QED
    BY <2>2, <2>3
<1> QED
  BY <1>2, <1>3

\* The next status is folded.
LEMMA FoldsOn ==
  ASSUME NEW history, IsMap(history, 1..MaxSequence, StatusTypes),
         NEW f \in FoldTypes, Folds(history, f),
         NEW n \in DOMAIN history, Continues(history, f, n)
  PROVE  Folds(history, FoldedWith(f, n, history[n]))
<1> DEFINE s == history[n]
           g == FoldedWith(f, n, s)
<1>1. /\ n = f.next /\ n \in Nat /\ n >= 1 /\ s \in StatusTypes
      /\ 1..(n - 1) \subseteq DOMAIN history
  BY HistoryAt DEF Continues, Folds
<1>2. /\ g.next = n + 1 /\ g.recordedAt = s.recordedAt
      /\ \A b \in Boundaries : g[b] = Earlier(s[b], f[b])
  BY DEF FoldedWith, Boundaries
<1>3. /\ g.next \in Nat \ {0} /\ g.next # 1 /\ g.next - 1 = n
      /\ 1..n = 1..(n - 1) \cup {n}
  BY <1>1, <1>2
<1>4. \A b \in Boundaries : f[b] \in Stamps \cup {None} /\ Folded(history, n, b, f[b])
  BY <1>1, FoldFields DEF Folds
<1>5. ASSUME NEW b \in Boundaries PROVE Folded(history, g.next, b, g[b])
  BY <1>1, <1>2, <1>4, FoldedOn
<1>6. ASSUME NEW m \in 1..(n - 1) PROVE Precedes(history[m], s)
  <2>1. history[m] \in StatusTypes /\ history[n - 1] \in StatusTypes /\ n - 1 \in 1..(n - 1)
    BY <1>1, HistoryAt
  <2>2. history[m].recordedAt <= history[n - 1].recordedAt
    <3>1. CASE m = n - 1
      BY <2>1, <3>1, StatusFields
    <3>2. CASE m < n - 1
      BY <1>1, <2>1, <3>2 DEF Folds, InOrder, Precedes
    <3> QED
      BY <1>1, <3>1, <3>2
  <2>3. history[n - 1].recordedAt <= s.recordedAt
    <3>1. n # 1
      BY <1>1
    <3>2. f.recordedAt = history[n - 1].recordedAt
      BY <1>1, <3>1 DEF Folds
    <3>3. f.recordedAt # None
      BY <2>1, <3>2, StatusFields, Limits
    <3> QED
      BY <3>2, <3>3 DEF Continues
  <2>4. history[m].recordedAt <= s.recordedAt
    BY <1>1, <2>1, <2>2, <2>3, StatusFields
  <2>5. \A b \in Boundaries : ~MovesLater(s[b], f[b])
    BY DEF Continues, Boundaries
  <2>6. \A b \in Boundaries : history[m][b] # None /\ s[b] # None
          => s[b].at <= history[m][b].at
    BY <1>1, <1>4, <2>5, FoldedOrder
  <2> QED
    BY <1>1, <2>1, <2>4, <2>6, PrecedesIs
<1>7. InOrder(history, g.next)
  <2>1. ASSUME NEW l \in 1..n, NEW m \in 1..n, l < m PROVE Precedes(history[l], history[m])
    <3>1. CASE m = n
      BY <1>1, <1>6, <2>1, <3>1
    <3>2. CASE m # n
      BY <1>1, <2>1, <3>2 DEF Folds, InOrder
    <3> QED
      BY <3>1, <3>2
  <2> QED
    BY <1>3, <2>1 DEF InOrder
<1>8. /\ 1..(g.next - 1) \subseteq DOMAIN history
      /\ g.recordedAt = history[g.next - 1].recordedAt
  BY <1>1, <1>2, <1>3
<1> HIDE DEF g
<1> QED
  BY <1>3, <1>5, <1>7, <1>8 DEF Folds, g

-----------------------------------------------------------------------------
(* A history and a fold of it against the text.                            *)

\* The sequences of a text are the sequences of its history.
LEMMA SequencesEntered ==
  ASSUME NEW text, NEW k, NEW history, Enters(text, k, history)
  PROVE  /\ {s.sequence : s \in StatusesOf(text, k)} = DOMAIN history
         /\ \A n \in DOMAIN history :
              history[n] \in StatusesOf(text, k) /\ history[n].sequence = n
<1>1. ASSUME NEW n \in DOMAIN history
      PROVE  history[n] \in StatusesOf(text, k) /\ history[n].sequence = n
  <2>1. PICK p \in Places(text, k) : First(text, k, history, n, p)
    BY DEF Enters
  <2> QED
    BY <2>1 DEF First, StatusesOf
<1>2. \A s \in StatusesOf(text, k) : s.sequence \in DOMAIN history
  BY DEF Enters, Entered, StatusesOf
<1> QED
  BY <1>1, <1>2

\* A history that cannot be folded is none.
LEMMA FoldsFault ==
  ASSUME NEW text, NEW k, NEW history, Enters(text, k, history),
         IsMap(history, 1..MaxSequence, StatusTypes),
         NEW f \in FoldTypes, Folds(history, f),
         NEW n \in DOMAIN history, n >= f.next,
         \A m \in DOMAIN history : m >= f.next => n <= m,
         ~Continues(history, f, n)
  PROVE  ~HistoryAgrees(StatusesOf(text, k))
<1> SUFFICES ASSUME HistoryAgrees(StatusesOf(text, k)) PROVE FALSE
  OBVIOUS
<1>1. n = f.next
  <2>1. PICK N \in 0..MaxSequence : DOMAIN history = 1..N
    BY SequencesEntered DEF HistoryAgrees
  <2>2. f.next \in DOMAIN history
    BY <2>1, Limits DEF Folds
  <2> QED
    BY <2>2, HistoryAt DEF Folds
<1>2. /\ n \in Nat /\ n >= 1 /\ history[n] \in StatusTypes
      /\ 1..(n - 1) \subseteq DOMAIN history
  BY <1>1, HistoryAt DEF Folds
<1>3. ASSUME NEW m \in 1..(n - 1) PROVE Precedes(history[m], history[n])
  <2>1. /\ history[m] \in StatusesOf(text, k) /\ history[m].sequence = m
        /\ history[n] \in StatusesOf(text, k) /\ history[n].sequence = n
    <3>1. \A l \in DOMAIN history :
            history[l] \in StatusesOf(text, k) /\ history[l].sequence = l
      BY SequencesEntered
    <3> QED
      BY <1>2, <3>1
  <2> QED
    BY <1>2, <2>1 DEF HistoryAgrees
<1>4. f.recordedAt # None => f.recordedAt <= history[n].recordedAt
  <2>1. CASE n = 1
    BY <1>1, <2>1 DEF Folds
  <2>2. CASE n # 1
    <3>1. f.recordedAt = history[n - 1].recordedAt
      BY <1>1, <2>2 DEF Folds
    <3>2. n - 1 \in 1..(n - 1)
      BY <1>2, <2>2
    <3> QED
      BY <1>3, <3>1, <3>2 DEF Precedes
  <2> QED
    BY <2>1, <2>2
<1>5. ASSUME NEW b \in Boundaries PROVE ~MovesLater(history[n][b], f[b])
  <2>1. \A l \in 1..(n - 1) : history[l][b] # None /\ history[n][b] # None
          => history[n][b].at <= history[l][b].at
    BY <1>2, <1>3, HistoryAt, PrecedesIs
  <2>2. f[b] \in Stamps \cup {None} /\ Folded(history, n, b, f[b])
    BY <1>1, FoldFields DEF Folds
  <2> QED
    BY <1>2, <2>1, <2>2, FoldedOrder
<1> QED
  BY <1>1, <1>4, <1>5 DEF Continues, Boundaries

\* A history that is folded to its end is one.
LEMMA FoldsEnd ==
  ASSUME NEW text, NEW k, NEW history, Enters(text, k, history),
         IsMap(history, 1..MaxSequence, StatusTypes),
         NEW f \in FoldTypes, Folds(history, f),
         \A n \in DOMAIN history : n < f.next,
         \A p \in Places(text, k) : StatusAt(text, p) \in StatusTypes
  PROVE  HistoryAgrees(StatusesOf(text, k))
<1>1. /\ f.next - 1 \in 0..MaxSequence
      /\ DOMAIN history = 1..(f.next - 1)
  <2>1. f.next \in 1..(MaxSequence + 1)
    BY FoldFields
  <2>2. \A n \in DOMAIN history : n \in 1..(f.next - 1)
    BY <2>1, HistoryAt, Limits
  <2>3. DOMAIN history = 1..(f.next - 1)
    BY <2>2 DEF Folds
  <2> QED
    BY <2>1, <2>3, Limits
<1>2. ASSUME NEW s \in StatusesOf(text, k)
      PROVE  /\ s \in StatusTypes /\ s.wellFormed
             /\ s.sequence \in DOMAIN history /\ history[s.sequence] \in StatusTypes
             /\ SameStatus(history[s.sequence], s)
  BY HistoryAt DEF StatusesOf, Enters, Entered
<1>3. ASSUME NEW s \in StatusesOf(text, k), NEW t \in StatusesOf(text, k),
             s.sequence = t.sequence
      PROVE  SameStatus(s, t)
  BY <1>2, <1>3, SameStatusIs
<1>4. ASSUME NEW s \in StatusesOf(text, k), NEW t \in StatusesOf(text, k),
             s.sequence < t.sequence
      PROVE  Precedes(s, t)
  <2>1. Precedes(history[s.sequence], history[t.sequence])
    BY <1>1, <1>2, <1>4 DEF Folds, InOrder
  <2>2. SameStatus(history[s.sequence], s) /\ SameStatus(history[t.sequence], t)
    BY <1>2
  <2> QED
    BY <1>2, <2>1, <2>2, SameStatusIs, PrecedesIs
<1>5. {s.sequence : s \in StatusesOf(text, k)} = 1..(f.next - 1)
  BY <1>1, SequencesEntered
<1> QED
  BY <1>1, <1>2, <1>3, <1>4, <1>5 DEF HistoryAgrees

-----------------------------------------------------------------------------
(* Boundaries against the text.                                            *)

\* v is what the text makes of a boundary.
Settled(text, k, b, v) ==
  IF v = None THEN \A p \in Places(text, k) : StatusAt(text, p)[b] = None
  ELSE \E p \in Places(text, k) :
         DecidesBoundary(text, k, b, p) /\ StatusAt(text, p)[b] = v

\* No two places decide one boundary.
LEMMA DeciderIsOne ==
  ASSUME NEW H, NEW text \in TextsOf(H, StatusTypes), NEW k, NEW b \in Boundaries,
         NEW p, DecidesBoundary(text, k, b, p),
         NEW q, DecidesBoundary(text, k, b, q)
  PROVE  p = q
<1> DEFINE s == StatusAt(text, p)
           t == StatusAt(text, q)
<1> SUFFICES ASSUME p # q PROVE FALSE
  OBVIOUS
<1>1. /\ p \in Places(text, k) /\ q \in Places(text, k)
      /\ s[b] # None /\ t[b] # None
  BY DEF DecidesBoundary
<1>2. /\ s[b].at \in Nat /\ s.sequence \in Nat
      /\ t[b].at \in Nat /\ t.sequence \in Nat
  <2>1. s \in StatusTypes /\ t \in StatusTypes
    BY <1>1, PlaceType
  <2> QED
    BY <1>1, <2>1, StatusFields
<1>3. \/ s[b].at < t[b].at
      \/ /\ s[b].at = t[b].at
         /\ s.sequence < t.sequence \/ (s.sequence = t.sequence /\ Before(p, q))
  BY <1>1 DEF DecidesBoundary
<1>4. \/ t[b].at < s[b].at
      \/ /\ t[b].at = s[b].at
         /\ t.sequence < s.sequence \/ (t.sequence = s.sequence /\ Before(q, p))
  BY <1>1 DEF DecidesBoundary
<1>5. ~(Before(p, q) /\ Before(q, p))
  BY <1>1, PlacesAreOrdered
<1> HIDE DEF s, t
<1> QED
  BY <1>2, <1>3, <1>4, <1>5

LEMMA SettledIsEffective ==
  ASSUME NEW H, NEW text \in TextsOf(H, StatusTypes), NEW k, NEW b \in Boundaries,
         NEW v, Settled(text, k, b, v)
  PROVE  EffectiveBoundary(text, k, b) = v
<1>1. CASE v = None
  <2>1. ~\E p \in Places(text, k) : DecidesBoundary(text, k, b, p)
    BY <1>1 DEF Settled, DecidesBoundary
  <2> QED
    BY <1>1, <2>1 DEF EffectiveBoundary
<1>2. CASE v # None
  <2>1. PICK p \in Places(text, k) :
          DecidesBoundary(text, k, b, p) /\ StatusAt(text, p)[b] = v
    BY <1>2 DEF Settled
  <2> DEFINE q == CHOOSE q \in Places(text, k) : DecidesBoundary(text, k, b, q)
  <2>2. DecidesBoundary(text, k, b, q)
    BY <2>1
  <2>3. EffectiveBoundary(text, k, b) = StatusAt(text, q)[b]
    BY <2>1 DEF EffectiveBoundary
  <2> HIDE DEF q
  <2>4. p = q
    BY <2>1, <2>2, DeciderIsOne
  <2> QED
    BY <2>1, <2>3, <2>4
<1> QED
  BY <1>1, <1>2

LEMMA EffectiveIsDecided ==
  ASSUME NEW text, NEW k, NEW b, EffectiveBoundary(text, k, b) # None
  PROVE  \E p \in Places(text, k) :
           /\ DecidesBoundary(text, k, b, p)
           /\ StatusAt(text, p)[b] = EffectiveBoundary(text, k, b)
BY DEF EffectiveBoundary

\* A fold that is ended holds what the text makes of each boundary.
LEMMA FoldsSettle ==
  ASSUME NEW H, NEW text \in TextsOf(H, StatusTypes), NEW k,
         NEW history, Enters(text, k, history),
         IsMap(history, 1..MaxSequence, StatusTypes),
         NEW f \in FoldTypes, Folds(history, f),
         \A n \in DOMAIN history : n < f.next,
         NEW b \in Boundaries
  PROVE  Settled(text, k, b, f[b])
<1>1. ASSUME NEW q \in Places(text, k)
      PROVE  LET t == StatusAt(text, q) IN
             /\ t \in StatusTypes /\ t.sequence \in 1..(f.next - 1)
             /\ t[b] # None <=> history[t.sequence][b] # None
             /\ t[b] # None => t[b].at = history[t.sequence][b].at
  <2> DEFINE t == StatusAt(text, q)
  <2>1. t.sequence \in DOMAIN history /\ SameStatus(history[t.sequence], t)
    BY DEF Enters, Entered
  <2>2. t \in StatusTypes
    BY PlaceType
  <2>3. f.next \in Nat
    BY DEF Folds
  <2>4. t.sequence \in 1..(f.next - 1)
    BY <2>1, <2>3, HistoryAt
  <2> QED
    BY <2>1, <2>2, <2>4, SameStatusIs
<1>2. Folded(history, f.next, b, f[b]) /\ f.next \in Nat
  BY DEF Folds
<1>3. CASE f[b] = None
  BY <1>1, <1>2, <1>3 DEF Folded, Settled
<1>4. CASE f[b] # None
  <2>1. PICK m \in 1..(f.next - 1) :
          /\ history[m][b] = f[b]
          /\ \A l \in 1..(f.next - 1) : history[l][b] # None =>
               f[b].at < history[l][b].at \/ (f[b].at = history[l][b].at /\ m <= l)
    BY <1>2, <1>4 DEF Folded
  <2>2. PICK p \in Places(text, k) : First(text, k, history, m, p)
    BY DEF Enters, Folds
  <2>3. StatusAt(text, p)[b] = f[b] /\ StatusAt(text, p).sequence = m
    BY <2>1, <2>2 DEF First
  <2>4. ASSUME NEW q \in Places(text, k), StatusAt(text, q)[b] # None, q # p
        PROVE  LET t == StatusAt(text, q) IN
               \/ f[b].at < t[b].at
               \/ /\ f[b].at = t[b].at
                  /\ m < t.sequence \/ (m = t.sequence /\ Before(p, q))
    <3> DEFINE t == StatusAt(text, q)
    <3>1. t.sequence \in 1..(f.next - 1) /\ t[b].at = history[t.sequence][b].at
          /\ history[t.sequence][b] # None
      BY <1>1, <2>4
    <3>2. f[b].at < t[b].at \/ (f[b].at = t[b].at /\ m <= t.sequence)
      BY <2>1, <3>1
    <3>3. t.sequence = m => Before(p, q)
      BY <2>2, <2>4 DEF First
    <3>4. m <= t.sequence => m < t.sequence \/ m = t.sequence
      BY <1>2, <3>1
    <3> QED
      BY <3>2, <3>3, <3>4
  <2>5. DecidesBoundary(text, k, b, p)
    BY <1>4, <2>3, <2>4 DEF DecidesBoundary
  <2> QED
    BY <1>4, <2>3, <2>5 DEF Settled
<1> QED
  BY <1>3, <1>4

\* What a prefix of a Registry that is itself one makes of a boundary: the
\* whole leaves it, or brings it forward.
LEMMA PrefixSettles ==
  ASSUME NEW H, NEW text \in TextsOf(H, StatusTypes), NEW k, NEW b \in Boundaries,
         NEW n \in 1..Len(text),
         HistoryAgrees(StatusesOf(SubSeq(text, 1, n), k)),
         HistoryAgrees(StatusesOf(text, k)),
         EffectiveBoundary(SubSeq(text, 1, n), k, b) # None,
         NEW is, Settled(text, k, b, is)
  PROVE  /\ is # None
         /\ \/ is.at < EffectiveBoundary(SubSeq(text, 1, n), k, b).at
            \/ is = EffectiveBoundary(SubSeq(text, 1, n), k, b)
<1> DEFINE earlier == SubSeq(text, 1, n)
           was == EffectiveBoundary(earlier, k, b)
<1>1. /\ DOMAIN earlier = 1..n /\ 1..n \subseteq DOMAIN text
      /\ DOMAIN text = 1..Len(text)
      /\ \A i \in 1..n : earlier[i] = text[i]
  BY DEF TextsOf
<1>e. was # None /\ was = EffectiveBoundary(earlier, k, b)
      /\ HistoryAgrees(StatusesOf(earlier, k))
  OBVIOUS
<1> SUFFICES is # None /\ (is.at < was.at \/ is = was)
  OBVIOUS
<1> HIDE DEF earlier, was
<1>2. ASSUME NEW q, q \in Places(earlier, k)
      PROVE  q \in Places(text, k) /\ StatusAt(earlier, q) = StatusAt(text, q)
             /\ q[1] \in 1..n
  <2>1. PICK i \in DOMAIN earlier : \E j \in DOMAIN earlier[i].statuses :
          earlier[i].header.key = k /\ q = <<i, j>>
    BY ONLY <1>2, PlaceIsPair
  <2>2. PICK j \in DOMAIN earlier[i].statuses : earlier[i].header.key = k /\ q = <<i, j>>
    BY <2>1
  <2>3. i \in DOMAIN text /\ earlier[i] = text[i]
    BY <1>1
  <2>4. q \in Places(text, k)
    BY <2>2, <2>3, PairIsPlace
  <2> QED
    BY <1>1, <2>2, <2>3, <2>4 DEF StatusAt
<1>3. ASSUME NEW q, q \in Places(text, k), q[1] \in 1..n
      PROVE  q \in Places(earlier, k)
  <2>1. PICK i \in DOMAIN text : \E j \in DOMAIN text[i].statuses :
          text[i].header.key = k /\ q = <<i, j>>
    BY ONLY <1>3, PlaceIsPair
  <2>2. PICK j \in DOMAIN text[i].statuses : text[i].header.key = k /\ q = <<i, j>>
    BY <2>1
  <2>3. i \in DOMAIN earlier /\ earlier[i] = text[i]
    BY <1>1, <1>3, <2>2
  <2> QED
    BY <2>2, <2>3, PairIsPlace
<1>4. PICK p \in Places(earlier, k) :
        DecidesBoundary(earlier, k, b, p) /\ StatusAt(earlier, p)[b] = was
  BY <1>e, EffectiveIsDecided
<1>5. p \in Places(text, k) /\ StatusAt(text, p) = StatusAt(earlier, p)
      /\ p[1] \in 1..n
  BY <1>2
<1>6. is # None
  BY <1>e, <1>4, <1>5 DEF Settled
<1>7. PICK q \in Places(text, k) :
        DecidesBoundary(text, k, b, q) /\ StatusAt(text, q)[b] = is
  BY <1>6 DEF Settled
<1> DEFINE s == StatusAt(text, p)
           t == StatusAt(text, q)
<1>8. /\ s \in StatusTypes /\ t \in StatusTypes
      /\ s[b] = was /\ t[b] = is
      /\ was.at \in Nat /\ is.at \in Nat /\ s.sequence \in Nat /\ t.sequence \in Nat
  <2>1. s \in StatusTypes /\ t \in StatusTypes
    BY <1>5, <1>7, PlaceType
  <2> QED
    BY <1>e, <1>4, <1>5, <1>6, <1>7, <2>1, StatusFields
<1>9. CASE p = q
  BY <1>6, <1>8, <1>9
<1>10. CASE p # q /\ is.at < was.at
  BY <1>6, <1>10
<1>11. CASE p # q /\ ~(is.at < was.at)
  <2>1. /\ is.at = was.at
        /\ t.sequence < s.sequence \/ (t.sequence = s.sequence /\ Before(q, p))
    BY <1>e, <1>5, <1>7, <1>8, <1>11 DEF DecidesBoundary
  <2>2. ASSUME NEW r \in Places(earlier, k), r # p, StatusAt(text, r)[b] # None
        PROVE  LET u == StatusAt(text, r) IN
               \/ was.at < u[b].at
               \/ /\ was.at = u[b].at
                  /\ s.sequence < u.sequence \/ (s.sequence = u.sequence /\ Before(p, r))
    BY <1>2, <1>4, <1>5, <1>8, <2>2 DEF DecidesBoundary
  <2>3. CASE t.sequence = s.sequence /\ Before(q, p)
    <3>1. q[1] \in 1..n
      BY <1>5, <1>7, <2>3, PlaceType DEF Before
    <3>2. q \in Places(earlier, k)
      BY <1>3, <1>7, <3>1
    <3>3. Before(p, q)
      BY <1>6, <1>8, <1>11, <2>1, <2>2, <2>3, <3>2
    <3> QED
      BY <1>5, <1>7, <2>3, <3>3, PlacesAreOrdered
  <2>4. CASE t.sequence < s.sequence
    <3>1. s \in StatusesOf(earlier, k)
      BY <1>4, <1>5 DEF StatusesOf
    <3>2. t \in StatusesOf(text, k)
      BY <1>7 DEF StatusesOf
    <3>3. t.sequence >= 1
      <4>1. PICK N \in 0..MaxSequence : {u.sequence : u \in StatusesOf(text, k)} = 1..N
        BY DEF HistoryAgrees
      <4>2. t.sequence \in 1..N
        BY <3>2, <4>1
      <4> QED
        BY <4>2
    <3>4. \E u \in StatusesOf(earlier, k) : u.sequence = t.sequence
      <4>1. PICK N \in 0..MaxSequence : {u.sequence : u \in StatusesOf(earlier, k)} = 1..N
        BY <1>e DEF HistoryAgrees
      <4>2. s.sequence \in 1..N
        BY <3>1, <4>1
      <4>3. t.sequence \in 1..N
        BY <1>8, <2>4, <3>3, <4>2
      <4> QED
        BY <4>1, <4>3
    <3>5. PICK r \in Places(earlier, k) : StatusAt(earlier, r).sequence = t.sequence
      BY <3>4 DEF StatusesOf
    <3>6. r \in Places(text, k) /\ StatusAt(text, r) = StatusAt(earlier, r)
      BY <1>2
    <3> DEFINE u == StatusAt(text, r)
    <3>7. u \in StatusesOf(text, k) /\ u.sequence = t.sequence
      BY <3>5, <3>6 DEF StatusesOf
    <3>8. SameStatus(t, u)
      BY <3>2, <3>7 DEF HistoryAgrees
    <3>9. u[b] # None /\ u[b].at = is.at
      BY <1>6, <1>8, <3>8, SameStatusIs
    <3>10. r # p
      BY <1>8, <2>4, <3>7
    <3>11. was.at < u[b].at \/ s.sequence < u.sequence \/ s.sequence = u.sequence
      BY <2>2, <3>9, <3>10
    <3> HIDE DEF s, t, u
    <3> QED
      BY <1>8, <2>1, <2>4, <3>7, <3>9, <3>11
  <2> QED
    BY <2>1, <2>3, <2>4
<1> QED
  BY <1>9, <1>10, <1>11

-----------------------------------------------------------------------------
(* What the three maps hold of the declarations.                           *)

Declares(text, bs, ts, os) ==
  /\ DOMAIN bs = {h.key : h \in HeadersOf(text)}
  /\ DOMAIN ts = {<<h.principal, h.public>> : h \in HeadersOf(text)}
  /\ DOMAIN os = {h.public : h \in HeadersOf(text)}
  /\ \A h \in HeadersOf(text) :
       /\ h.wellFormed
       /\ SameImmutable(bs[h.key], h)
       /\ ts[<<h.principal, h.public>>] = h.key
       /\ os[h.public] = <<h.key, h.principal>>

\* Declarations that are all entered have identities that agree.
LEMMA DeclaredAgree ==
  ASSUME NEW text, NEW bs, NEW ts, NEW os, Declares(text, bs, ts, os)
  PROVE  IdentitiesAgree(text)
<1> SUFFICES ASSUME NEW g \in HeadersOf(text), NEW h \in HeadersOf(text)
             PROVE  /\ g.wellFormed
                    /\ g.key = h.key <=> g.public = h.public
                    /\ g.key = h.key => g.principal = h.principal /\ g.from.at = h.from.at
  BY DEF IdentitiesAgree
<1>1. /\ g.wellFormed
      /\ SameImmutable(bs[g.key], g) /\ SameImmutable(bs[h.key], h)
      /\ os[g.public] = <<g.key, g.principal>> /\ os[h.public] = <<h.key, h.principal>>
  BY DEF Declares
<1> QED
  BY <1>1 DEF SameImmutable

Binding(h) == [principal |-> h.principal, public |-> h.public,
               from |-> h.from, history |-> EmptyMap]

\* The maps before a declaration that agrees with them, and after it.
Adds(h, text, longer, bs, bw, ts, tw, os, ow) ==
  /\ HeadersOf(longer) = HeadersOf(text) \cup {h}
  /\ Declares(text, bs, ts, os)
  /\ bw = Emplace(bs, h.key, Binding(h))
  /\ tw = Emplace(ts, <<h.principal, h.public>>, h.key)
  /\ ow = Emplace(os, h.public, <<h.key, h.principal>>)
  /\ h.wellFormed /\ SameImmutable(bw[h.key], h)
  /\ tw[<<h.principal, h.public>>] = h.key
  /\ ow[h.public] = <<h.key, h.principal>>

\* A declaration that agrees with the maps is entered.
LEMMA DeclaresMore ==
  ASSUME NEW h, NEW text, NEW longer, NEW bs, NEW bw, NEW ts, NEW tw, NEW os, NEW ow,
         Adds(h, text, longer, bs, bw, ts, tw, os, ow)
  PROVE  Declares(longer, bw, tw, ow)
<1>0. /\ HeadersOf(longer) = HeadersOf(text) \cup {h}
      /\ Declares(text, bs, ts, os)
      /\ bw = Emplace(bs, h.key, Binding(h))
      /\ tw = Emplace(ts, <<h.principal, h.public>>, h.key)
      /\ ow = Emplace(os, h.public, <<h.key, h.principal>>)
      /\ h.wellFormed /\ SameImmutable(bw[h.key], h)
      /\ tw[<<h.principal, h.public>>] = h.key
      /\ ow[h.public] = <<h.key, h.principal>>
  BY DEF Adds
<1>1. /\ DOMAIN bw = DOMAIN bs \cup {h.key}
      /\ \A x \in DOMAIN bs : bw[x] = bs[x]
  BY <1>0 DEF Emplace
<1>2. /\ DOMAIN tw = DOMAIN ts \cup {<<h.principal, h.public>>}
      /\ \A x \in DOMAIN ts : tw[x] = ts[x]
  BY <1>0 DEF Emplace
<1>3. /\ DOMAIN ow = DOMAIN os \cup {h.public}
      /\ \A x \in DOMAIN os : ow[x] = os[x]
  BY <1>0 DEF Emplace
<1>4. ASSUME NEW g \in HeadersOf(text)
      PROVE  /\ g.wellFormed
             /\ SameImmutable(bw[g.key], g)
             /\ tw[<<g.principal, g.public>>] = g.key
             /\ ow[g.public] = <<g.key, g.principal>>
  <2>1. /\ g.wellFormed /\ SameImmutable(bs[g.key], g)
        /\ ts[<<g.principal, g.public>>] = g.key /\ os[g.public] = <<g.key, g.principal>>
    BY <1>0 DEF Declares
  <2>2. /\ g.key \in DOMAIN bs /\ <<g.principal, g.public>> \in DOMAIN ts
        /\ g.public \in DOMAIN os
    BY <1>0 DEF Declares
  <2> QED
    BY <1>1, <1>2, <1>3, <2>1, <2>2
<1>5. ASSUME NEW g \in HeadersOf(longer)
      PROVE  /\ g.wellFormed
             /\ SameImmutable(bw[g.key], g)
             /\ tw[<<g.principal, g.public>>] = g.key
             /\ ow[g.public] = <<g.key, g.principal>>
  BY <1>0, <1>4
<1>6. DOMAIN bw = {g.key : g \in HeadersOf(longer)}
  <2>1. DOMAIN bs = {g.key : g \in HeadersOf(text)}
    BY <1>0 DEF Declares
  <2>2. HeadersOf(longer) = HeadersOf(text) \cup {h}
    BY <1>0
  <2> QED
    BY ONLY <1>1, <2>1, <2>2
<1>7. DOMAIN tw = {<<g.principal, g.public>> : g \in HeadersOf(longer)}
  <2>1. DOMAIN ts = {<<g.principal, g.public>> : g \in HeadersOf(text)}
    BY <1>0 DEF Declares
  <2>2. HeadersOf(longer) = HeadersOf(text) \cup {h}
    BY <1>0
  <2> QED
    BY ONLY <1>2, <2>1, <2>2
<1>8. DOMAIN ow = {g.public : g \in HeadersOf(longer)}
  <2>1. DOMAIN os = {g.public : g \in HeadersOf(text)}
    BY <1>0 DEF Declares
  <2>2. HeadersOf(longer) = HeadersOf(text) \cup {h}
    BY <1>0
  <2> QED
    BY ONLY <1>3, <2>1, <2>2
<1> QED
  BY <1>5, <1>6, <1>7, <1>8 DEF Declares

\* One that does not agree with an earlier declaration.
LEMMA DeclaresFault ==
  ASSUME NEW text, NEW longer, NEW h, HeadersOf(longer) = HeadersOf(text) \cup {h},
         NEW bs, NEW ts, NEW os, Declares(text, bs, ts, os),
         ~(/\ h.wellFormed
           /\ SameImmutable(Emplace(bs, h.key, Binding(h))[h.key], h)
           /\ Emplace(ts, <<h.principal, h.public>>, h.key)[<<h.principal, h.public>>]
                = h.key
           /\ Emplace(os, h.public, <<h.key, h.principal>>)[h.public]
                = <<h.key, h.principal>>)
  PROVE  ~IdentitiesAgree(longer)
<1> DEFINE bw == Emplace(bs, h.key, Binding(h))
           tw == Emplace(ts, <<h.principal, h.public>>, h.key)
           ow == Emplace(os, h.public, <<h.key, h.principal>>)
<1>1. h \in HeadersOf(longer) /\ HeadersOf(text) \subseteq HeadersOf(longer)
  OBVIOUS
<1>2. CASE ~h.wellFormed
  BY <1>1, <1>2 DEF IdentitiesAgree
<1>3. CASE ~SameImmutable(bw[h.key], h)
  <2>1. h.key \in DOMAIN bs
    BY <1>3 DEF Emplace, Binding, SameImmutable
  <2>2. PICK g \in HeadersOf(text) : g.key = h.key
    BY <2>1 DEF Declares
  <2>3. bw[h.key] = bs[g.key] /\ SameImmutable(bs[g.key], g)
    BY <2>1, <2>2 DEF Emplace, Declares
  <2> QED
    BY <1>1, <1>3, <2>2, <2>3 DEF SameImmutable, IdentitiesAgree
<1>4. CASE tw[<<h.principal, h.public>>] # h.key
  <2>1. <<h.principal, h.public>> \in DOMAIN ts
    BY <1>4 DEF Emplace
  <2>2. PICK g \in HeadersOf(text) : <<g.principal, g.public>> = <<h.principal, h.public>>
    BY <2>1 DEF Declares
  <2>3. tw[<<h.principal, h.public>>] = g.key /\ g.public = h.public
    BY <2>1, <2>2 DEF Emplace, Declares
  <2> QED
    BY <1>1, <1>4, <2>3 DEF IdentitiesAgree
<1>5. CASE ow[h.public] # <<h.key, h.principal>>
  <2>1. h.public \in DOMAIN os
    BY <1>5 DEF Emplace
  <2>2. PICK g \in HeadersOf(text) : g.public = h.public
    BY <2>1 DEF Declares
  <2>3. ow[h.public] = <<g.key, g.principal>>
    BY <2>1, <2>2 DEF Emplace, Declares
  <2> QED
    BY <1>1, <1>5, <2>2, <2>3 DEF IdentitiesAgree
<1> QED
  BY <1>2, <1>3, <1>4, <1>5

-----------------------------------------------------------------------------
(* The inductive invariant.  What the resolver knows at each stage: of the *)
(* declarations read, of the statuses read, of the statuses folded and of  *)
(* the key selected.  Of a text it rejects only that it is no Registry.    *)

Scanned ==
  /\ Declares(read, bindings, tupleIds, owners)
  /\ \A k \in DOMAIN bindings : Enters(read, k, bindings[k].history)

Folding ==
  /\ read # <<>>
  /\ DOMAIN fold = DOMAIN bindings
  /\ \A k \in DOMAIN bindings : Folds(bindings[k].history, fold[k])

Selected ==
  /\ \A k \in DOMAIN bindings : ToFold(k) = {}
  /\ request \in Requests
  /\ phase = "resolved" <=> Selectable(request)
  /\ phase = "resolved" => result = Resolved(request.key)

IInv ==
  /\ TypeOK
  /\ phase = "rejected" => ~IsRegistry(read)
  /\ phase # "rejected" => Scanned
  /\ phase \in {"folding", "resolved", "refused"} => Folding
  /\ phase \in {"resolved", "refused"} => Selected

BindingOK(b, S) ==
  /\ DOMAIN b = {"principal", "public", "from", "history"}
  /\ b.principal \in Principals /\ b.public \in PublicKeys /\ b.from \in Stamps
  /\ IsMap(b.history, 1..MaxSequence, S)

\* The type invariant in the words of this module.
LEMMA TypeOKIs ==
  TypeOK <=>
    /\ scope \in Scopes
    /\ phase \in {"declaring", "folding"} \cup Ended
    /\ read \in TextsOf(scope.headers, scope.statuses)
    /\ DOMAIN bindings \subseteq Keys
    /\ \A k \in DOMAIN bindings : BindingOK(bindings[k], scope.statuses)
    /\ IsMap(tupleIds, Principals \X PublicKeys, Keys)
    /\ IsMap(owners, PublicKeys, Keys \X Principals)
    /\ IsMap(fold, Keys, FoldTypes)
    /\ request \in Requests \cup {None}
    /\ result \in {None} \cup
         [key: Keys, principal: Principals, public: PublicKeys, from: Stamps,
          validUntil: Stamps \cup {None}, revokedAt: Stamps \cup {None}]
BY DEF TypeOK, TextsOf, ReadsOf, BindingOK, FoldTypes

LEMMA ScopeTypes ==
  ASSUME NEW s \in Scopes
  PROVE  /\ s.headers \subseteq HeaderTypes /\ s.statuses \subseteq StatusTypes
         /\ s.asked \subseteq Requests
         /\ TextsOf(s.headers, s.statuses) \subseteq TextsOf(HeaderTypes, StatusTypes)
<1>1. s.headers \subseteq HeaderTypes /\ s.statuses \subseteq StatusTypes
      /\ s.asked \subseteq Requests
  BY RegistryAssumption
<1>2. Seq(s.statuses) \subseteq Seq(StatusTypes)
  BY <1>1
<1>3. ReadsOf(s.headers, s.statuses) \subseteq ReadsOf(HeaderTypes, StatusTypes)
  BY <1>1, <1>2 DEF ReadsOf
<1>4. TextsOf(s.headers, s.statuses) \subseteq TextsOf(HeaderTypes, StatusTypes)
  BY <1>3 DEF TextsOf
<1> QED
  BY <1>1, <1>4

LEMMA StateTypes ==
  ASSUME TypeOK
  PROVE  /\ scope.headers \subseteq HeaderTypes /\ scope.statuses \subseteq StatusTypes
         /\ scope.asked \subseteq Requests
         /\ read \in TextsOf(HeaderTypes, StatusTypes)
         /\ \A k \in DOMAIN bindings :
              IsMap(bindings[k].history, 1..MaxSequence, StatusTypes)
         /\ \A k \in DOMAIN fold : fold[k] \in FoldTypes
<1>1. /\ scope.headers \subseteq HeaderTypes /\ scope.statuses \subseteq StatusTypes
      /\ scope.asked \subseteq Requests
      /\ read \in TextsOf(HeaderTypes, StatusTypes)
  BY ScopeTypes, TypeOKIs
<1>2. ASSUME NEW k \in DOMAIN bindings
      PROVE  IsMap(bindings[k].history, 1..MaxSequence, StatusTypes)
  <2>1. IsMap(bindings[k].history, 1..MaxSequence, scope.statuses)
    BY TypeOKIs DEF BindingOK
  <2> QED
    BY <1>1, <2>1 DEF IsMap
<1>3. \A k \in DOMAIN fold : fold[k] \in FoldTypes
  BY TypeOKIs DEF IsMap
<1> QED
  BY <1>1, <1>2, <1>3

-----------------------------------------------------------------------------
(* Initially, and step by step.                                            *)

LEMMA IInvInit == Init => IInv
<1> SUFFICES ASSUME Init PROVE IInv
  OBVIOUS
<1>1. TypeOK
  <2>1. read \in TextsOf(scope.headers, scope.statuses)
    BY DEF Init, TextsOf
  <2>2. bindings = EmptyMap /\ tupleIds = EmptyMap /\ owners = EmptyMap /\ fold = EmptyMap
    BY DEF Init
  <2>3. \A K, V : IsMap(EmptyMap, K, V)
    BY EmptyIsMap
  <2>4. DOMAIN bindings = {}
    BY <2>2 DEF EmptyMap
  <2> QED
    BY <2>1, <2>2, <2>3, <2>4, TypeOKIs DEF Init
<1>2. Scanned
  <2>1. HeadersOf(read) = {} /\ DOMAIN bindings = {} /\ DOMAIN tupleIds = {}
        /\ DOMAIN owners = {}
    BY DEF Init, HeadersOf, EmptyMap
  <2> QED
    BY <2>1 DEF Scanned, Declares
<1> QED
  BY <1>1, <1>2 DEF IInv, Init

LEMMA MapsWith ==
  ASSUME NEW h
  PROVE  /\ BindingsWith(h) = Emplace(bindings, h.key, Binding(h))
         /\ TupleIdsWith(h) = Emplace(tupleIds, <<h.principal, h.public>>, h.key)
         /\ OwnersWith(h) = Emplace(owners, h.public, <<h.key, h.principal>>)
BY DEF BindingsWith, TupleIdsWith, OwnersWith, Binding

LEMMA DeclareKeeps ==
  ASSUME IInv, NEW h \in scope.headers, Declare(h), UNCHANGED scope
  PROVE  IInv'
<1> DEFINE H == scope.headers
           S == scope.statuses
<1>1. /\ phase = "declaring" /\ Scanned /\ TypeOK
      /\ read \in TextsOf(H, S)
      /\ read' = Append(read, [header |-> h, statuses |-> <<>>])
      /\ request' = request /\ scope' = scope
  BY TypeOKIs DEF IInv, Declare
<1>2. /\ read' \in TextsOf(H, S) /\ read' # <<>>
      /\ HeadersOf(read') = HeadersOf(read) \cup {h}
      /\ \A k : Places(read', k) = Places(read, k)
      /\ \A k : \A p \in Places(read, k) : StatusAt(read', p) = StatusAt(read, p)
  <2>1. read' = Declared(read, h)
    BY <1>1 DEF Declared
  <2>2. LET longer == Declared(read, h) IN
        /\ longer \in TextsOf(H, S) /\ longer # <<>>
        /\ HeadersOf(longer) = HeadersOf(read) \cup {h}
        /\ \A k : Places(longer, k) = Places(read, k)
        /\ \A k : \A p \in Places(read, k) : StatusAt(longer, p) = StatusAt(read, p)
    BY <1>1, DeclarationReads
  <2> QED
    BY <2>1, <2>2
<1>3. h \in HeaderTypes
  BY <1>1, StateTypes
<1>4. CASE ~Declarable(h)
  <2>1. phase' = "rejected" /\ UNCHANGED <<bindings, tupleIds, owners, fold, result>>
    BY <1>4 DEF Declare, Reject
  <2>2. ~IdentitiesAgree(read')
    <3>1. Declares(read, bindings, tupleIds, owners)
      BY <1>1 DEF Scanned
    <3>2. /\ HeadersOf(read') = HeadersOf(read) \cup {h}
          /\ ~(/\ h.wellFormed /\ SameImmutable(BindingsWith(h)[h.key], h)
               /\ TupleIdsWith(h)[<<h.principal, h.public>>] = h.key
               /\ OwnersWith(h)[h.public] = <<h.key, h.principal>>)
      BY <1>2, <1>4 DEF Declarable
    <3> QED
      BY ONLY <3>1, <3>2, MapsWith, DeclaresFault
  <2>3. (~IsRegistry(read))'
    BY <2>2 DEF IsRegistry
  <2>4. TypeOK'
    <3>1. UNCHANGED <<scope, bindings, tupleIds, owners, fold, request, result>>
      BY <1>1, <2>1
    <3> QED
      BY <1>1, <1>2, <2>1, <3>1, TypeOKIs DEF TypeOK, Ended, TextsOf, ReadsOf
  <2> QED
    BY <2>1, <2>3, <2>4 DEF IInv
<1>5. CASE Declarable(h)
  <2>1. /\ bindings' = BindingsWith(h)
        /\ tupleIds' = TupleIdsWith(h)
        /\ owners' = OwnersWith(h)
        /\ UNCHANGED <<phase, fold, result>>
    BY <1>5 DEF Declare
  <2>2. /\ DOMAIN bindings' = DOMAIN bindings \cup {h.key}
        /\ \A k \in DOMAIN bindings : bindings'[k] = bindings[k]
        /\ h.key \notin DOMAIN bindings => bindings'[h.key] = Binding(h)
    BY <2>1 DEF BindingsWith, Emplace, Binding
  <2>3. Declares(read', bindings', tupleIds', owners')
    <3>1. Declares(read, bindings, tupleIds, owners)
      BY <1>1 DEF Scanned
    <3>2. /\ HeadersOf(read') = HeadersOf(read) \cup {h}
          /\ h.wellFormed /\ SameImmutable(BindingsWith(h)[h.key], h)
          /\ TupleIdsWith(h)[<<h.principal, h.public>>] = h.key
          /\ OwnersWith(h)[h.public] = <<h.key, h.principal>>
      BY <1>2, <1>5 DEF Declarable
    <3>3. Declares(read', BindingsWith(h), TupleIdsWith(h), OwnersWith(h))
      <4> DEFINE bw == BindingsWith(h)
                 tw == TupleIdsWith(h)
                 ow == OwnersWith(h)
                 longer == read'
      <4>1. /\ bw = Emplace(bindings, h.key, Binding(h))
            /\ tw = Emplace(tupleIds, <<h.principal, h.public>>, h.key)
            /\ ow = Emplace(owners, h.public, <<h.key, h.principal>>)
        BY MapsWith
      <4>2. /\ HeadersOf(longer) = HeadersOf(read) \cup {h}
            /\ h.wellFormed /\ SameImmutable(bw[h.key], h)
            /\ tw[<<h.principal, h.public>>] = h.key
            /\ ow[h.public] = <<h.key, h.principal>>
        BY <3>2
      <4> HIDE DEF bw, tw, ow, longer
      <4>3. Adds(h, read, longer, bindings, bw, tupleIds, tw, owners, ow)
        BY ONLY <3>1, <4>1, <4>2 DEF Adds
      <4>4. Declares(longer, bw, tw, ow)
        BY ONLY <4>3, DeclaresMore
      <4> QED
        BY <4>4 DEF bw, tw, ow, longer
    <3> QED
      BY <2>1, <3>3
  <2>4. ASSUME NEW k \in DOMAIN bindings' PROVE Enters(read', k, bindings'[k].history)
    <3>1. CASE k \in DOMAIN bindings
      <4>1. Enters(read, k, bindings'[k].history)
        BY <1>1, <2>2, <3>1 DEF Scanned
      <4> QED
        BY <1>2, <4>1, EntersAlike
    <3>2. CASE k \notin DOMAIN bindings
      <4>1. k = h.key /\ bindings'[k].history = EmptyMap
        BY <2>2, <3>2 DEF Binding
      <4>2. \A p \in Places(read, k) : k \in DOMAIN bindings
        BY <1>1, PlaceType DEF Scanned, Declares, HeadersOf
      <4>3. Places(read', k) = {}
        BY <1>2, <3>2, <4>2
      <4> QED
        BY <4>1, <4>3, EntersNothing
    <3> QED
      BY <3>1, <3>2
  <2>5. Scanned'
    BY <2>3, <2>4 DEF Scanned
  <2>6. TypeOK'
    <3>1. /\ h.key \in Keys /\ h.public \in PublicKeys /\ h.from \in Stamps
          /\ <<h.principal, h.public>> \in Principals \X PublicKeys
          /\ <<h.key, h.principal>> \in Keys \X Principals
      BY <1>3, HeaderFields
    <3>2. BindingOK(Binding(h), S)
      BY <1>3, HeaderFields, EmptyIsMap DEF BindingOK, Binding
    <3>3. DOMAIN bindings' \subseteq Keys
          /\ \A k \in DOMAIN bindings' : BindingOK(bindings'[k], S)
      BY <1>1, <2>2, <3>1, <3>2, TypeOKIs
    <3>4. IsMap(tupleIds', Principals \X PublicKeys, Keys)
          /\ IsMap(owners', PublicKeys, Keys \X Principals)
      BY <1>1, <2>1, <3>1, EmplaceIsMap, TypeOKIs DEF TupleIdsWith, OwnersWith
    <3> QED
      BY <1>1, <1>2, <2>1, <3>3, <3>4, TypeOKIs
         DEF TypeOK, TextsOf, ReadsOf, BindingOK, FoldTypes
  <2> QED
    BY <1>1, <2>1, <2>5, <2>6 DEF IInv
<1> QED
  BY <1>4, <1>5

LEMMA MergeKeeps ==
  ASSUME IInv, NEW s \in scope.statuses, Merge(s), UNCHANGED scope
  PROVE  IInv'
<1> DEFINE H == scope.headers
           S == scope.statuses
           k == read[Len(read)].header.key
           old == bindings[k].history
           new == HistoryWith(k, s)
           place == NextPlace(read)
<1>1. /\ phase = "declaring" /\ Scanned /\ TypeOK
      /\ read \in TextsOf(H, S) /\ read # <<>>
      /\ read' = Merged(read, s)
      /\ request' = request /\ scope' = scope
  BY TypeOKIs DEF IInv, Merge, Merged
<1>2. /\ read' \in TextsOf(H, S) /\ read' # <<>>
      /\ HeadersOf(read') = HeadersOf(read)
      /\ read[Len(read)].header \in HeadersOf(read)
      /\ \A l : \A p : p \in Places(read', l)
           <=> p \in Places(read, l) \/ (l = k /\ p = place)
      /\ StatusAt(read', place) = s
      /\ \A l : \A p \in Places(read, l) :
           StatusAt(read', p) = StatusAt(read, p) /\ Before(p, place)
  <2>1. LET longer == Merged(read, s) IN
        /\ longer \in TextsOf(H, S) /\ longer # <<>>
        /\ HeadersOf(longer) = HeadersOf(read)
        /\ read[Len(read)].header \in HeadersOf(read)
        /\ \A l : \A p : p \in Places(longer, l)
             <=> p \in Places(read, l) \/ (l = k /\ p = place)
        /\ StatusAt(longer, place) = s
        /\ \A l : \A p \in Places(read, l) :
             StatusAt(longer, p) = StatusAt(read, p) /\ Before(p, place)
    BY <1>1, StatusReads
  <2> QED
    BY <1>1, <2>1
<1> HIDE DEF place
<1>3. s \in StatusTypes /\ StatusAt(read', place) = s
  BY <1>1, <1>2, StateTypes
<1>4. /\ k \in DOMAIN bindings /\ Enters(read, k, old)
      /\ \E h \in HeadersOf(read') : h.key = k
  BY <1>1, <1>2 DEF Scanned, Declares
<1>5. /\ Places(read', k) = Places(read, k) \cup {place}
      /\ \A l : l # k => Places(read', l) = Places(read, l)
  <2>1. \A p : p \in Places(read', k) <=> p \in Places(read, k) \cup {place}
    BY <1>2
  <2>2. \A l : l # k => \A p : p \in Places(read', l) <=> p \in Places(read, l)
    BY <1>2
  <2> HIDE DEF k
  <2>3. Places(read', k) = Places(read, k) \cup {place}
    BY <2>1
  <2>4. ASSUME NEW l, l # k PROVE Places(read', l) = Places(read, l)
    BY <2>2, <2>4
  <2> QED
    BY <2>3, <2>4
<1>6. new = Emplace(old, s.sequence, s)
  BY DEF HistoryWith
<1> HIDE DEF k, old, new
<1>7. CASE ~Mergeable(k, s)
  <2>1. phase' = "rejected" /\ UNCHANGED <<bindings, tupleIds, owners, fold, result>>
    BY <1>7 DEF Merge, Reject, k
  <2>2. ~HistoryAgrees(StatusesOf(read', k))
    <3>1. ~(/\ s.wellFormed /\ s.sequence \in 1..MaxSequence
            /\ SameStatus(Emplace(old, s.sequence, s)[s.sequence], s))
      BY <1>6, <1>7 DEF Mergeable, new
    <3>2. \A p \in Places(read, k) : StatusAt(read', p) = StatusAt(read, p)
      BY <1>2
    <3> QED
      BY ONLY <1>3, <1>4, <1>5, <3>1, <3>2, EntersFault
  <2>3. (~IsRegistry(read))'
    BY <1>4, <2>2 DEF IsRegistry
  <2>4. TypeOK'
    BY <1>1, <1>2, <2>1, TypeOKIs DEF TypeOK, Ended, TextsOf, ReadsOf
  <2> QED
    BY <2>1, <2>3, <2>4 DEF IInv
<1>8. CASE Mergeable(k, s)
  <2>1. /\ bindings' = [bindings EXCEPT ![k].history = new]
        /\ UNCHANGED <<phase, tupleIds, owners, fold, result>>
    BY <1>8 DEF Merge, k, new
  <2>2. s.wellFormed /\ s.sequence \in 1..MaxSequence /\ SameStatus(new[s.sequence], s)
    BY <1>8 DEF Mergeable, new
  <2>3. DOMAIN bindings[k] = {"principal", "public", "from", "history"}
    BY <1>1, <1>4, TypeOKIs DEF BindingOK
  <2>4. /\ DOMAIN bindings' = DOMAIN bindings
        /\ \A l \in DOMAIN bindings : l # k => bindings'[l] = bindings[l]
        /\ DOMAIN bindings'[k] = DOMAIN bindings[k]
        /\ bindings'[k].principal = bindings[k].principal
        /\ bindings'[k].public = bindings[k].public
        /\ bindings'[k].from = bindings[k].from
        /\ bindings'[k].history = new
    BY <1>4, <2>1, <2>3
  <2>5. Declares(read', bindings', tupleIds', owners')
    <3>1. \A l \in DOMAIN bindings : /\ bindings'[l].principal = bindings[l].principal
                                     /\ bindings'[l].public = bindings[l].public
                                     /\ bindings'[l].from = bindings[l].from
      BY <2>4
    <3>2. Declares(read, bindings, tupleIds, owners)
      BY <1>1 DEF Scanned
    <3>3. tupleIds' = tupleIds /\ owners' = owners
      BY <2>1
    <3>4. \A h \in HeadersOf(read) : SameImmutable(bindings'[h.key], h)
      <4> TAKE h \in HeadersOf(read)
      <4>1. h.key \in DOMAIN bindings /\ SameImmutable(bindings[h.key], h)
        BY <3>2 DEF Declares
      <4> QED
        BY <3>1, <4>1 DEF SameImmutable
    <3>5. HeadersOf(read') = HeadersOf(read) /\ DOMAIN bindings' = DOMAIN bindings
      BY <1>2, <2>4
    <3> QED
      BY <3>2, <3>3, <3>4, <3>5 DEF Declares
  <2>6. ASSUME NEW l \in DOMAIN bindings' PROVE Enters(read', l, bindings'[l].history)
    <3>1. CASE l = k
      <4>1. \A p \in Places(read, k) :
              StatusAt(read', p) = StatusAt(read, p) /\ Before(p, place)
        BY <1>2
      <4>2. SameStatus(Emplace(old, s.sequence, s)[s.sequence], s)
        BY <1>6, <2>2
      <4>3. Enters(read', k, Emplace(old, s.sequence, s))
        BY ONLY <1>3, <1>4, <1>5, <2>2, <4>1, <4>2, EntersStatus
      <4> QED
        BY <1>6, <2>4, <3>1, <4>3
    <3>2. CASE l # k
      <4>1. Enters(read, l, bindings'[l].history)
        BY <1>1, <2>4, <3>2 DEF Scanned
      <4> QED
        BY <1>2, <1>5, <3>2, <4>1, EntersAlike
    <3> QED
      BY <3>1, <3>2
  <2>7. Scanned'
    BY <2>5, <2>6 DEF Scanned
  <2>8. TypeOK'
    <3>1. IsMap(new, 1..MaxSequence, S)
      <4>1. IsMap(old, 1..MaxSequence, S)
        BY <1>1, <1>4, TypeOKIs DEF BindingOK, old
      <4> QED
        BY <1>6, <2>2, <4>1, EmplaceIsMap
    <3>2. ASSUME NEW l \in DOMAIN bindings' PROVE BindingOK(bindings'[l], S)
      <4>1. l \in DOMAIN bindings /\ BindingOK(bindings[l], S)
        BY <1>1, <2>4, TypeOKIs
      <4> QED
        BY <2>4, <3>1, <4>1 DEF BindingOK
    <3>3. DOMAIN bindings' \subseteq Keys
      BY <1>1, <2>4, TypeOKIs
    <3> QED
      BY <1>1, <1>2, <2>1, <3>2, <3>3, TypeOKIs
         DEF TypeOK, TextsOf, ReadsOf, BindingOK, FoldTypes
  <2> QED
    BY <1>1, <2>1, <2>7, <2>8 DEF IInv
<1> QED
  BY <1>7, <1>8

LEMMA EndOfBindingsKeeps ==
  ASSUME IInv, EndOfBindings, UNCHANGED scope
  PROVE  IInv'
<1>1. /\ phase = "declaring" /\ Scanned /\ TypeOK
      /\ UNCHANGED <<scope, read, bindings, tupleIds, owners, request, result>>
  BY DEF IInv, EndOfBindings, Reject
<1>2. Scanned'
  BY <1>1 DEF Scanned
<1>3. CASE read = <<>>
  <2>1. phase' = "rejected" /\ UNCHANGED fold
    BY <1>3 DEF EndOfBindings, Reject
  <2>2. (~IsRegistry(read))'
    BY <1>1, <1>3 DEF IsRegistry
  <2>3. TypeOK'
    BY <1>1, <2>1 DEF TypeOK, Ended
  <2> QED
    BY <2>1, <2>2, <2>3 DEF IInv
<1>4. CASE read # <<>>
  <2>1. phase' = "folding" /\ fold' = [k \in DOMAIN bindings |-> Unfolded]
    BY <1>4 DEF EndOfBindings
  <2>2. Folding'
    <3>1. ASSUME NEW k \in DOMAIN bindings PROVE Folds(bindings[k].history, Unfolded)
      BY FoldsNothing
    <3> QED
      BY <1>1, <1>4, <2>1, <3>1 DEF Folding
  <2>3. TypeOK'
    <3>1. Unfolded \in FoldTypes
      BY Limits DEF Unfolded, FoldTypes
    <3>2. IsMap(fold', Keys, FoldTypes)
      BY <1>1, <2>1, <3>1 DEF IsMap, TypeOK
    <3> QED
      BY <1>1, <2>1, <3>2 DEF TypeOK, FoldTypes
  <2> QED
    BY <1>2, <2>1, <2>2, <2>3 DEF IInv
<1> QED
  BY <1>3, <1>4

LEMMA FoldStatusKeeps ==
  ASSUME IInv, NEW k \in DOMAIN bindings, FoldStatus(k), UNCHANGED scope
  PROVE  IInv'
<1> DEFINE history == bindings[k].history
           f == fold[k]
<1>1. /\ phase = "folding" /\ Scanned /\ Folding /\ TypeOK
      /\ UNCHANGED <<scope, read, request>>
  BY DEF IInv, FoldStatus
<1>2. PICK n \in ToFold(k) :
        /\ \A m \in ToFold(k) : n <= m
        /\ \/ ~Foldable(k, n) /\ Reject
           \/ /\ Foldable(k, n)
              /\ fold' = [fold EXCEPT ![k] = FoldedWith(f, n, history[n])]
              /\ UNCHANGED <<phase, bindings, tupleIds, owners, result>>
  BY DEF FoldStatus, FoldedWith
<1>3. /\ Enters(read, k, history) /\ IsMap(history, 1..MaxSequence, StatusTypes)
      /\ f \in FoldTypes /\ Folds(history, f) /\ k \in DOMAIN fold
  BY <1>1, StateTypes DEF Scanned, Folding
<1>4. /\ n \in DOMAIN history /\ n >= f.next
      /\ \A m \in DOMAIN history : m >= f.next => n <= m
  BY <1>2 DEF ToFold
<1>5. Foldable(k, n) <=> Continues(history, f, n)
  BY DEF Foldable, Continues
<1>6. CASE ~Foldable(k, n)
  <2>1. phase' = "rejected" /\ UNCHANGED <<bindings, tupleIds, owners, fold, result>>
    BY <1>2, <1>6 DEF Reject
  <2>2. ~HistoryAgrees(StatusesOf(read, k))
    <3> HIDE DEF history, f
    <3> QED
      BY <1>3, <1>4, <1>5, <1>6, FoldsFault
  <2>3. \E h \in HeadersOf(read) : h.key = k
    BY <1>1 DEF Scanned, Declares
  <2>4. (~IsRegistry(read))'
    BY <1>1, <2>2, <2>3 DEF IsRegistry
  <2>5. TypeOK'
    BY <1>1, <2>1 DEF TypeOK, Ended
  <2> QED
    BY <2>1, <2>4, <2>5 DEF IInv
<1>7. CASE Foldable(k, n)
  <2> DEFINE g == FoldedWith(f, n, history[n])
  <2>1. /\ fold' = [fold EXCEPT ![k] = g]
        /\ UNCHANGED <<phase, bindings, tupleIds, owners, result>>
    BY <1>2, <1>7
  <2>2. Folds(history, g)
    <3> HIDE DEF history, f
    <3> QED
      BY <1>3, <1>4, <1>5, <1>7, FoldsOn
  <2>3. g \in FoldTypes
    <3> HIDE DEF history, f
    <3> QED
      BY <1>3, <1>4, HistoryAt, FoldedWithType
  <2> HIDE DEF g
  <2>4. /\ DOMAIN fold' = DOMAIN fold /\ fold'[k] = g
        /\ \A l \in DOMAIN fold : l # k => fold'[l] = fold[l]
    BY <1>3, <2>1
  <2>5. Folding'
    BY <1>1, <2>1, <2>2, <2>4 DEF Folding
  <2>6. TypeOK'
    <3>1. IsMap(fold', Keys, FoldTypes)
      BY <1>1, <2>1, <2>3, TypeOKIs DEF IsMap
    <3> QED
      BY <1>1, <2>1, <3>1 DEF TypeOK, FoldTypes
  <2>7. Scanned'
    BY <1>1, <2>1 DEF Scanned
  <2> QED
    BY <1>1, <2>1, <2>5, <2>6, <2>7 DEF IInv
<1> QED
  BY <1>6, <1>7

LEMMA ResolvedType ==
  ASSUME TypeOK, NEW k \in DOMAIN bindings, DOMAIN fold = DOMAIN bindings
  PROVE  Resolved(k) \in
           [key: Keys, principal: Principals, public: PublicKeys, from: Stamps,
            validUntil: Stamps \cup {None}, revokedAt: Stamps \cup {None}]
<1>1. k \in Keys /\ BindingOK(bindings[k], scope.statuses) /\ fold[k] \in FoldTypes
  BY StateTypes, TypeOKIs
<1> QED
  BY <1>1 DEF BindingOK, FoldTypes, Resolved

LEMMA SelectKeeps ==
  ASSUME IInv, NEW q \in scope.asked, Select(q), UNCHANGED scope
  PROVE  IInv'
<1>1. /\ phase = "folding" /\ Scanned /\ Folding /\ TypeOK
      /\ \A k \in DOMAIN bindings : ToFold(k) = {}
      /\ request' = q /\ q \in Requests
      /\ UNCHANGED <<scope, read, bindings, tupleIds, owners, fold>>
  BY StateTypes DEF IInv, Select
<1>2. /\ phase' \in {"resolved", "refused"}
      /\ phase' = "resolved" <=> Selectable(q)
      /\ phase' = "resolved" => result' = Resolved(q.key)
      /\ phase' # "resolved" => result' = result
  BY DEF Select
<1>3. (\A k \in DOMAIN bindings : ToFold(k) = {})'
  BY <1>1 DEF ToFold
<1>4. Selectable(request)' <=> Selectable(q)
  BY <1>1 DEF Selectable
<1>5. Resolved(request.key)' = Resolved(q.key)
  BY <1>1 DEF Resolved
<1>6. Selected'
  BY <1>1, <1>2, <1>3, <1>4, <1>5 DEF Selected
<1>7. Scanned' /\ Folding'
  BY <1>1 DEF Scanned, Folding
<1>8. TypeOK'
  <2>1. Selectable(q) => q.key \in DOMAIN bindings
    BY DEF Selectable
  <2>2. phase' = "resolved" => result' \in
         [key: Keys, principal: Principals, public: PublicKeys, from: Stamps,
          validUntil: Stamps \cup {None}, revokedAt: Stamps \cup {None}]
    BY <1>1, <1>2, <2>1, ResolvedType DEF Folding
  <2> QED
    BY <1>1, <1>2, <2>2 DEF TypeOK, Ended
<1> QED
  BY <1>2, <1>6, <1>7, <1>8 DEF IInv

LEMMA IInvStep == IInv /\ [Next]_vars => IInv'
<1> SUFFICES ASSUME IInv, [Next]_vars PROVE IInv'
  OBVIOUS
<1>1. CASE UNCHANGED vars
  <2>1. UNCHANGED <<scope, phase, read, bindings, tupleIds, owners, fold, request, result>>
    BY <1>1 DEF vars
  <2>2. (phase' = phase) /\ (read' = read) /\ TypeOK'
    BY <2>1 DEF IInv, TypeOK
  <2>3. (Scanned' <=> Scanned) /\ (Folding' <=> Folding)
    BY <2>1 DEF Scanned, Folding
  <2>4. Selected' <=> Selected
    BY <2>1 DEF Selected, ToFold, Selectable, Resolved
  <2> QED
    BY <2>2, <2>3, <2>4 DEF IInv
<1>2. CASE Next
  <2>1. UNCHANGED scope
    BY <1>2 DEF Next
  <2>2. CASE \E h \in scope.headers : Declare(h)
    BY <2>1, <2>2, DeclareKeeps
  <2>3. CASE \E s \in scope.statuses : Merge(s)
    BY <2>1, <2>3, MergeKeeps
  <2>4. CASE EndOfBindings
    BY <2>1, <2>4, EndOfBindingsKeeps
  <2>5. CASE \E k \in DOMAIN bindings : FoldStatus(k)
    BY <2>1, <2>5, FoldStatusKeeps
  <2>6. CASE \E q \in scope.asked : Select(q)
    BY <2>1, <2>6, SelectKeeps
  <2> QED
    BY <1>2, <2>2, <2>3, <2>4, <2>5, <2>6 DEF Next
<1> QED
  BY <1>1, <1>2

\* What the resolver knows at each stage holds in every state: while it reads,
\* folds and selects, in whatever Registry.
THEOREM Inductive == Spec => []IInv
BY IInvInit, IInvStep, PTL DEF Spec

\* The state keeps its types: the three maps of resolve_agent_registry_key, the
\* histories and what fold_history has folded of them, and the ResolvedKey.
THEOREM TypeCorrect == Spec => []TypeOK
<1>1. IInv => TypeOK
  BY DEF IInv
<1> QED
  BY <1>1, Inductive, PTL

-----------------------------------------------------------------------------
(* What follows of a Registry from which a key was selected or refused.    *)

\* Every history is a history, and every folded boundary is what the text
\* makes of it.
LEMMA FoldedText ==
  ASSUME IInv, phase \in {"resolved", "refused"}, NEW k \in DOMAIN bindings
  PROVE  /\ HistoryAgrees(StatusesOf(read, k))
         /\ \A b \in Boundaries : Settled(read, k, b, fold[k][b])
<1> DEFINE history == bindings[k].history
           f == fold[k]
<1>1. /\ Enters(read, k, history) /\ IsMap(history, 1..MaxSequence, StatusTypes)
      /\ f \in FoldTypes /\ Folds(history, f)
      /\ read \in TextsOf(HeaderTypes, StatusTypes)
  BY StateTypes DEF IInv, Scanned, Folding
<1>2. \A n \in DOMAIN history : n < f.next
  <2>1. ToFold(k) = {}
    BY DEF IInv, Selected
  <2>2. \A n \in DOMAIN history : ~(n >= f.next)
    BY <2>1 DEF ToFold
  <2>3. \A n \in DOMAIN history : n \in Nat
    BY <1>1, HistoryAt
  <2>4. f.next \in Nat
    BY <1>1 DEF Folds
  <2> QED
    BY <2>2, <2>3, <2>4
<1>3. \A p \in Places(read, k) : StatusAt(read, p) \in StatusTypes
  BY <1>1, PlaceType
<1> HIDE DEF history, f
<1>4. HistoryAgrees(StatusesOf(read, k))
  BY <1>1, <1>2, <1>3, FoldsEnd
<1>5. \A b \in Boundaries : Settled(read, k, b, f[b])
  BY <1>1, <1>2, FoldsSettle
<1> QED
  BY <1>4, <1>5 DEF f

LEMMA RegistryAccepted ==
  ASSUME IInv, phase \in {"resolved", "refused"}
  PROVE  IsRegistry(read)
<1>1. Declares(read, bindings, tupleIds, owners) /\ read # <<>>
  BY DEF IInv, Scanned, Folding
<1>2. IdentitiesAgree(read)
  BY <1>1, DeclaredAgree
<1>3. ASSUME NEW h \in HeadersOf(read) PROVE HistoryAgrees(StatusesOf(read, h.key))
  <2>1. h.key \in DOMAIN bindings
    BY <1>1 DEF Declares
  <2> QED
    BY <2>1, FoldedText
<1> QED
  BY <1>1, <1>2, <1>3 DEF IsRegistry

\* No key is selected and none is refused from a Registry with a fault in any
\* declaration or any history, and none without a fault is rejected: whatever
\* resolve_agent_registry_key decides, it has seen the whole of it.
THEOREM FaultsReject == Spec => []RejectedForAFault
<1>1. IInv => RejectedForAFault
  BY RegistryAccepted DEF RejectedForAFault, IInv, Ended
<1> QED
  BY <1>1, Inductive, PTL

-----------------------------------------------------------------------------
(* The key that is resolved, and the Registry that grows.                  *)

LEMMA EffectiveFold ==
  ASSUME IInv, phase \in {"resolved", "refused"}, NEW k \in DOMAIN bindings
  PROVE  /\ EffectiveValidUntil(read, k) = fold[k].validUntil
         /\ EffectiveRevokedAt(read, k) = fold[k].revokedAt
<1>1. read \in TextsOf(HeaderTypes, StatusTypes)
  BY StateTypes DEF IInv
<1>2. \A b \in Boundaries : EffectiveBoundary(read, k, b) = fold[k][b]
  BY <1>1, FoldedText, SettledIsEffective
<1>3. /\ EffectiveBoundary(read, k, "validUntil") = fold[k]["validUntil"]
      /\ EffectiveBoundary(read, k, "revokedAt") = fold[k]["revokedAt"]
  BY <1>2 DEF Boundaries
<1> QED
  BY <1>3 DEF EffectiveValidUntil, EffectiveRevokedAt

LEMMA ReferenceResolves ==
  ASSUME IInv
  PROVE  ResolvedByReference
<1> SUFFICES ASSUME phase \in {"resolved", "refused"} PROVE ResolvedByReference
  BY DEF ResolvedByReference
<1> DEFINE k == request.key
           until == EffectiveValidUntil(read, k)
           revoked == EffectiveRevokedAt(read, k)
           h == CHOOSE h \in HeadersOf(read) : h.key = k
           right == /\ \E g \in HeadersOf(read) : g.key = k
                    /\ IF request.principal = None THEN h.principal \in Services
                       ELSE h.principal = request.principal
                    /\ h.from.at <= request.at
                    /\ until # None => request.at < until.at
                    /\ revoked # None => request.at < revoked.at
<1>1. /\ Declares(read, bindings, tupleIds, owners) /\ TypeOK
      /\ DOMAIN fold = DOMAIN bindings
      /\ phase = "resolved" <=> Selectable(request)
      /\ phase = "resolved" => result = Resolved(k)
      /\ request \in Requests
  BY DEF IInv, Scanned, Folding, Selected
<1>2. (\E g \in HeadersOf(read) : g.key = k) <=> k \in DOMAIN bindings
  BY <1>1 DEF Declares
<1>3. CASE k \notin DOMAIN bindings
  <2>1. ~right /\ phase # "resolved"
    BY <1>1, <1>2, <1>3 DEF Selectable
  <2> QED
    BY <2>1 DEF ResolvedByReference
<1>4. CASE k \in DOMAIN bindings
  <2>1. /\ h \in HeadersOf(read) /\ h.key = k
    BY <1>2, <1>4
  <2>2. /\ h.principal = bindings[k].principal /\ h.public = bindings[k].public
        /\ h.from.at = bindings[k].from.at
    <3>1. SameImmutable(bindings[h.key], h)
      BY <1>1, <2>1 DEF Declares
    <3> QED
      BY <2>1, <3>1 DEF SameImmutable
  <2>3. until = fold[k].validUntil /\ revoked = fold[k].revokedAt
    BY <1>4, EffectiveFold
  <2>4. fold[k] \in FoldTypes /\ BindingOK(bindings[k], scope.statuses)
    BY <1>1, <1>4, StateTypes, TypeOKIs
  <2>5. /\ request.at \in Nat /\ bindings[k].from.at \in Nat
        /\ until # None => until.at \in Nat
        /\ revoked # None => revoked.at \in Nat
    <3>1. request.at \in Instants
      BY <1>1 DEF Requests
    <3>2. bindings[k].from \in Stamps /\ until \in Stamps \cup {None}
          /\ revoked \in Stamps \cup {None}
      BY <2>3, <2>4 DEF FoldTypes, BindingOK
    <3> QED
      BY <3>1, <3>2, Limits, StampFields
  <2> HIDE DEF h, until, revoked
  <2>6. Selectable(request) <=> right
    <3>1. Reached(request.at, fold[k].validUntil) <=> ~(until # None => request.at < until.at)
      BY <2>3, <2>5 DEF Reached
    <3>2. Reached(request.at, fold[k].revokedAt)
            <=> ~(revoked # None => request.at < revoked.at)
      BY <2>3, <2>5 DEF Reached
    <3>3. request.at >= bindings[k].from.at <=> h.from.at <= request.at
      BY <2>2, <2>5
    <3>4. (IF request.principal = None THEN bindings[k].principal \in Services
           ELSE bindings[k].principal = request.principal)
          <=> (IF request.principal = None THEN h.principal \in Services
               ELSE h.principal = request.principal)
      BY <2>2
    <3> QED
      BY <1>2, <1>4, <3>1, <3>2, <3>3, <3>4 DEF Selectable
  <2>7. phase = "resolved" =>
          /\ result.key = k /\ result.public = h.public
          /\ result.principal = h.principal /\ result.from.at = h.from.at
          /\ result.validUntil = until /\ result.revokedAt = revoked
    BY <1>1, <2>2, <2>3 DEF Resolved
  <2>8. phase = "resolved" <=> right
    BY <1>1, <2>6
  <2> HIDE DEF right
  <2> QED
    BY <2>7, <2>8 DEF ResolvedByReference, right, h, until, revoked
<1> QED
  BY <1>3, <1>4

\* The key is resolved exactly when the text of the Registry says so, with the
\* boundaries, and the spellings of them, that it says: of the statuses with the
\* earliest instant the first to be read of the lowest sequence.
THEOREM ReferenceDecides == Spec => []ResolvedByReference
BY ReferenceResolves, Inductive, PTL

LEMMA GrowthNarrows ==
  ASSUME IInv
  PROVE  GrowthOnlyNarrows
<1> SUFFICES ASSUME phase = "resolved", NEW n \in 1..Len(read),
                    IsRegistry(SubSeq(read, 1, n)),
                    \E h \in HeadersOf(SubSeq(read, 1, n)) : h.key = result.key
             PROVE  LET earlier == SubSeq(read, 1, n)
                        k == result.key
                        Narrowed(was, is) == was # None =>
                          is # None /\ (is.at < was.at \/ is = was)
                    IN /\ Narrowed(EffectiveValidUntil(earlier, k), result.validUntil)
                       /\ Narrowed(EffectiveRevokedAt(earlier, k), result.revokedAt)
                       /\ \A h \in HeadersOf(earlier) : h.key = k =>
                            h.principal = result.principal /\ h.from.at = result.from.at
  BY DEF GrowthOnlyNarrows
<1> DEFINE earlier == SubSeq(read, 1, n)
           k == result.key
<1>1. /\ Declares(read, bindings, tupleIds, owners) /\ TypeOK
      /\ DOMAIN fold = DOMAIN bindings
      /\ Selectable(request) /\ result = Resolved(request.key)
      /\ read \in TextsOf(HeaderTypes, StatusTypes)
  BY StateTypes DEF IInv, Scanned, Folding, Selected
<1>2. /\ k = request.key /\ k \in DOMAIN bindings
      /\ result.validUntil = fold[k].validUntil /\ result.revokedAt = fold[k].revokedAt
      /\ result.principal = bindings[k].principal /\ result.from = bindings[k].from
  BY <1>1 DEF Selectable, Resolved
<1>3. HistoryAgrees(StatusesOf(earlier, k))
  BY DEF IsRegistry
<1>4. /\ HistoryAgrees(StatusesOf(read, k))
      /\ \A b \in Boundaries : Settled(read, k, b, fold[k][b])
  BY <1>2, FoldedText
<1>5. HeadersOf(earlier) \subseteq HeadersOf(read)
  <2>1. /\ DOMAIN earlier = 1..n /\ 1..n \subseteq DOMAIN read
        /\ \A i \in 1..n : earlier[i] = read[i]
    BY <1>1 DEF TextsOf
  <2> HIDE DEF earlier
  <2> QED
    BY <2>1 DEF HeadersOf
<1>6. \A h \in HeadersOf(earlier) : h.key = k =>
        h.principal = result.principal /\ h.from.at = result.from.at
  <2>1. ASSUME NEW h \in HeadersOf(earlier), h.key = k
        PROVE  h.principal = result.principal /\ h.from.at = result.from.at
    <3>1. h \in HeadersOf(read)
      BY <1>5
    <3>2. SameImmutable(bindings[h.key], h)
      BY <1>1, <3>1 DEF Declares
    <3> HIDE DEF earlier, k
    <3> QED
      BY <1>2, <2>1, <3>2 DEF SameImmutable
  <2> QED
    BY <2>1
<1>7. ASSUME NEW b \in Boundaries, EffectiveBoundary(earlier, k, b) # None
      PROVE  LET was == EffectiveBoundary(earlier, k, b)
                 is == fold[k][b]
             IN is # None /\ (is.at < was.at \/ is = was)
  <2>1. Settled(read, k, b, fold[k][b])
    BY <1>4
  <2> HIDE DEF k
  <2> QED
    BY <1>1, <1>3, <1>4, <1>7, <2>1, PrefixSettles
<1>8. /\ EffectiveValidUntil(earlier, k) = EffectiveBoundary(earlier, k, "validUntil")
      /\ EffectiveRevokedAt(earlier, k) = EffectiveBoundary(earlier, k, "revokedAt")
      /\ fold[k].validUntil = fold[k]["validUntil"]
      /\ fold[k].revokedAt = fold[k]["revokedAt"]
      /\ "validUntil" \in Boundaries /\ "revokedAt" \in Boundaries
  BY DEF EffectiveValidUntil, EffectiveRevokedAt, Boundaries
<1> HIDE DEF earlier, k
<1>9. /\ EffectiveValidUntil(earlier, k) # None =>
           /\ result.validUntil # None
           /\ \/ result.validUntil.at < EffectiveValidUntil(earlier, k).at
              \/ result.validUntil = EffectiveValidUntil(earlier, k)
      /\ EffectiveRevokedAt(earlier, k) # None =>
           /\ result.revokedAt # None
           /\ \/ result.revokedAt.at < EffectiveRevokedAt(earlier, k).at
              \/ result.revokedAt = EffectiveRevokedAt(earlier, k)
  BY <1>2, <1>7, <1>8
<1> QED
  BY <1>6, <1>9 DEF earlier, k

\* A Registry that grows by declarations only narrows what an earlier version of
\* it resolved: the start and the owner of a key stay, its ends never move later,
\* and an end that keeps its instant keeps its spelling.
THEOREM GrowthNeverWidens == Spec => []GrowthOnlyNarrows
BY GrowthNarrows, Inductive, PTL
=============================================================================
