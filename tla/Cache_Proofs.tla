------------------------------ MODULE Cache_Proofs ------------------------------
(***************************************************************************)
(* What is kept in the site's cache: the sitemap that a job writes page by *)
(* page, for any kinds, sources and limits, and the clearing of a          *)
(* namespace, for any keys, readers and namespace.                         *)
(***************************************************************************)
EXTENDS Sitemap, CacheClear, SequenceTheorems, FiniteSetTheorems, TLAPS

(***************************************************************************)
(* Sitemap: what a run has written, and for how long it lasts.             *)
(***************************************************************************)
\* The key stands for an entry that lasts until t.
Lasts(key, t) == key \in DOMAIN xml /\ (xml[key].exp = 0 \/ t <= xml[key].exp)

\* It was written in this run, or as late as that.
Fresh(key) == Lasts(key, run.start + CacheTTL)

On(key) == ToSet(xml[key].val)
PagesOf(k) == {key \in DOMAIN xml : key[1] = k /\ key[2] # 0}

\* The source of kind k has the entry, or a page of this kind, or the set about to be written.
Has(k, e) ==
    \/ k \in Sources /\ e \in ToSet(content[k])
    \/ (\E key \in PagesOf(k) : e \in On(key))
    \/ run.pc = "write" /\ Kind = k /\ e \in ToSet(run.set)

Runs == [pc : {"idle", "count", "page", "write", "setcount", "getcount", "index"},
         todo : Seq(ToSet(Kinds)), start : Nat, total : Nat, offset : Nat, files : Nat,
         set : Seq(Nat), listed : Seq(Names), lasting : {<<>>} \cup [Sources -> Seq(Nat)]]

SiteTyped ==
    /\ SitemapTypeOK /\ run \in Runs
    /\ run.pc # "idle" => run.lasting \in [Sources -> Seq(Nat)]
    /\ \A key \in DOMAIN xml :
          /\ key # IndexKey => key[1] \in ToSet(Kinds)
          /\ key = IndexKey => xml[key].val \in Seq(Names)
          /\ key # IndexKey /\ key[2] # 0 => xml[key].val \in Seq(Nat)
          /\ key # IndexKey /\ key[2] = 0 => xml[key].val \in Nat

\* A run does not take too long, and the next starts in time.
InTime ==
    /\ run.start <= clock
    /\ clock <= run.start + (IF run.pc = "idle" THEN Interval ELSE RunTime)

\* Where the run is.
Counting == run.pc \in {"count", "page", "write", "setcount"}
Phases ==
    /\ IsInjective(run.todo)
    /\ Counting \/ run.pc = "getcount" => run.todo # <<>>
    /\ Counting => run.listed = <<>>
    /\ run.pc = "index" => run.todo = <<>>
    /\ run.pc = "count" => run.files = 0
    /\ run.pc = "page" => Kind \in Sources
    /\ run.pc = "write" /\ Kind \notin Sources => run.total <= run.offset + URLsPerFile

\* No entry is of two kinds, none is twice in a source.
EntriesApart ==
    /\ \A k \in Sources : IsInjective(content[k])
    /\ \A k \in ToSet(Kinds) : \A e : Has(k, e) => k \in Sources /\ e \in 1 .. lastId
    /\ \A k, l \in ToSet(Kinds) : \A e : Has(k, e) /\ Has(l, e) => k = l

\* Kinds nothing was withdrawn from have what they had, and maybe more behind it.
LastingFirst ==
    run.pc # "idle" =>
        \A k \in Sources : /\ Len(run.lasting[k]) <= Len(content[k])
                           /\ \A i \in DOMAIN run.lasting[k] : content[k][i] = run.lasting[k][i]

\* n pages of kind k were written, none with an entry of another.
PagesSound(k, n) ==
    /\ \A p \in 1 .. n : Fresh(<<k, p>>)
    /\ \A p, q \in 1 .. n : p # q => On(<<k, p>>) \cap On(<<k, q>>) = {}

\* They have what was at the first m places.
Covered(k, n, m) ==
    k \in Sources => \A i \in DOMAIN run.lasting[k] :
                        i <= m => \E p \in 1 .. n : run.lasting[k][i] \in On(<<k, p>>)

\* The pages of the kind at hand: what is on them stands at the places they were made from, or moved up.
KindSound ==
    run.pc \in {"page", "write", "setcount"} =>
        /\ PagesSound(Kind, run.files)
        /\ Covered(Kind, run.files, run.offset)
        /\ Kind \in Sources =>
              /\ Len(run.lasting[Kind]) <= run.total
              /\ \A p \in 1 .. run.files, i \in DOMAIN content[Kind] :
                    content[Kind][i] \in On(<<Kind, p>>) => i <= run.offset
        /\ run.pc = "setcount" => run.total <= run.offset

\* The set that is about to be written is the next.
SetSound ==
    run.pc = "write" /\ Kind \in Sources =>
        /\ \A p \in 1 .. run.files : On(<<Kind, p>>) \cap ToSet(run.set) = {}
        /\ \A i \in DOMAIN run.lasting[Kind] :
              run.offset < i /\ i <= run.offset + URLsPerFile => run.lasting[Kind][i] \in ToSet(run.set)
        /\ \A i \in DOMAIN content[Kind] :
              content[Kind][i] \in ToSet(run.set) => i <= run.offset + URLsPerFile

\* The kinds that were dealt with have their pages and their count.
DoneSound ==
    run.pc # "idle" =>
        \A k \in ToSet(Kinds) : ~ Counting \/ k \notin ToSet(run.todo) =>
            /\ Fresh(CountKey(k))
            /\ PagesSound(k, xml[CountKey(k)].val)
            /\ k \in Sources => Covered(k, xml[CountKey(k)].val, Len(run.lasting[k]))

\* The index will name the pages of the kinds that were read back, and no others.
ListedSound ==
    run.pc \in {"getcount", "index"} =>
        /\ \A k \in ToSet(Kinds) : k \notin ToSet(run.todo) =>
              \A p \in 1 .. xml[CountKey(k)].val : <<k, p>> \in ToSet(run.listed)
        /\ \A name \in ToSet(run.listed) :
              \E k \in ToSet(Kinds) : /\ k \notin ToSet(run.todo)
                                     /\ \E p \in 1 .. xml[CountKey(k)].val : name = <<k, p>>

\* The index and what it names last until a run must have succeeded.
IndexSound ==
    outcome.ok =>
        /\ IndexKey \in DOMAIN xml
        /\ \A name \in {IndexKey} \cup ToSet(xml[IndexKey].val) :
              /\ name \in DOMAIN xml
              /\ \/ xml[name].exp = 0
                 \/ run.start + CacheTTL <=
                       xml[name].exp
                          + (IF run.pc = "idle" THEN outcome.failed ELSE outcome.failed + 1) * Interval

SiteInv ==
    /\ SiteTyped /\ InTime /\ Phases /\ EntriesApart /\ LastingFirst
    /\ KindSound /\ SetSound /\ DoneSound /\ ListedSound /\ IndexSound

(***************************************************************************)
(* Facts about sequences and about the cache.                              *)
(***************************************************************************)
\* What is taken out of a sequence leaves the rest in order, moved up.
LEMMA Removed ==
    ASSUME NEW s \in Seq(Nat), NEW j \in 1 .. Len(s)
    PROVE  /\ RemoveAt(s, j) \in Seq(Nat)
           /\ Len(RemoveAt(s, j)) = Len(s) - 1
           /\ \A i \in 1 .. (Len(s) - 1) : RemoveAt(s, j)[i] = IF i < j THEN s[i] ELSE s[i + 1]
<1> DEFINE l == SubSeq(s, 1, j - 1)
           r == SubSeq(s, j + 1, Len(s))
<1>1. l \in Seq(Nat) /\ Len(l) = j - 1 /\ r \in Seq(Nat) /\ Len(r) = Len(s) - j
  OBVIOUS
<1>2. \A i \in 1 .. (j - 1) : l[i] = s[i]
  OBVIOUS
<1>3. ASSUME NEW i \in 1 .. (Len(s) - j) PROVE r[i] = s[i + j]
  OBVIOUS
<1>4. RemoveAt(s, j) = l \o r
  BY DEF RemoveAt
<1> HIDE DEF l, r
<1>5. l \o r \in Seq(Nat) /\ Len(l \o r) = Len(s) - 1
  BY <1>1
<1>6. ASSUME NEW i \in 1 .. (Len(s) - 1) PROVE (l \o r)[i] = IF i < j THEN s[i] ELSE s[i + 1]
  <2>1. (l \o r)[i] = IF i <= Len(l) THEN l[i] ELSE r[i - Len(l)]
    BY <1>1
  <2>2. CASE i < j
    BY <1>1, <1>2, <2>1, <2>2
  <2>3. CASE ~ (i < j)
    <3>1. i - Len(l) \in 1 .. (Len(s) - j) /\ ~ (i <= Len(l)) /\ i - Len(l) + j = i + 1
      BY <1>1, <2>3
    <3> QED BY <1>3, <2>1, <2>3, <3>1
  <2> QED BY <2>2, <2>3
<1> QED BY <1>4, <1>5, <1>6

\* Its entries were there before, as far down or further, each once if each was once.
LEMMA MovedUp ==
    ASSUME NEW s \in Seq(Nat), NEW j \in DOMAIN s, NEW t, t = RemoveAt(s, j)
    PROVE  /\ t \in Seq(Nat) /\ ToSet(t) \subseteq ToSet(s)
           /\ \A i \in DOMAIN t : \E m \in DOMAIN s : i <= m /\ t[i] = s[m]
           /\ IsInjective(s) => IsInjective(t)
<1>1. j \in 1 .. Len(s) /\ Len(s) \in Nat
  OBVIOUS
<1>2. /\ t \in Seq(Nat) /\ Len(t) = Len(s) - 1
      /\ \A i \in 1 .. (Len(s) - 1) : t[i] = IF i < j THEN s[i] ELSE s[i + 1]
  BY <1>1, Removed
<1>3. ASSUME NEW i \in DOMAIN t
      PROVE  i \in Nat /\ i \in 1 .. (Len(s) - 1) /\ i \in DOMAIN s /\ i + 1 \in DOMAIN s
  <2>1. DOMAIN t = 1 .. (Len(s) - 1)
    BY <1>2
  <2>2. DOMAIN s = 1 .. Len(s)
    OBVIOUS
  <2>3. i \in 1 .. (Len(s) - 1)
    BY <2>1
  <2>4. i \in Nat /\ i \in 1 .. Len(s) /\ i + 1 \in 1 .. Len(s)
    BY <1>1, <2>3
  <2> QED BY <2>2, <2>3, <2>4
<1>4. ASSUME NEW i \in DOMAIN t PROVE \E m \in DOMAIN s : i <= m /\ t[i] = s[m]
  <2>1. i \in 1 .. (Len(s) - 1) /\ i \in DOMAIN s /\ i + 1 \in DOMAIN s
    BY <1>3
  <2>2. t[i] = s[i] \/ t[i] = s[i + 1]
    BY <1>2, <2>1
  <2>3. i <= i /\ i <= i + 1
    BY <1>3
  <2> QED BY <2>1, <2>2, <2>3
<1>5. ASSUME IsInjective(s), NEW a \in DOMAIN t, NEW b \in DOMAIN t, t[a] = t[b] PROVE a = b
  <2> DEFINE Old(i) == IF i < j THEN i ELSE i + 1
  <2>1. ASSUME NEW i \in DOMAIN t PROVE t[i] = s[Old(i)] /\ Old(i) \in DOMAIN s /\ i \in Nat
    <3>1. i \in Nat /\ i \in 1 .. (Len(s) - 1) /\ i \in DOMAIN s /\ i + 1 \in DOMAIN s
      BY <1>3
    <3> QED BY <1>2, <3>1
  <2>2. Old(a) = Old(b)
    <3> HIDE DEF Old
    <3> QED BY <1>5, <2>1 DEF IsInjective
  <2>3. a \in Nat /\ b \in Nat /\ j \in Nat
    BY <1>1, <2>1
  <2> QED BY <2>2, <2>3
<1>6. ToSet(t) \subseteq ToSet(s)
  BY <1>4 DEF ToSet
<1> QED BY <1>2, <1>4, <1>5, <1>6 DEF IsInjective

\* Set: the entry is there for its time, the others are as they were, and nothing lasts
\* shorter than that for it.
LEMMA SetEntry ==
    ASSUME SiteInv, NEW key, NEW val, xml' = CacheSet(xml, key, val, CacheTTL)
    PROVE  /\ DOMAIN xml' = DOMAIN xml \cup {key}
           /\ xml'[key].val = val /\ xml'[key].exp \in Nat
           /\ xml'[key].exp = 0 \/ xml'[key].exp = clock + CacheTTL
           /\ \A other \in DOMAIN xml : other # key => xml'[other] = xml[other]
BY SitemapAssumption DEF SiteInv, SiteTyped, SitemapTypeOK, CacheSet

LEMMA SetKeepsFresh ==
    ASSUME SiteInv, NEW key, NEW val, xml' = CacheSet(xml, key, val, CacheTTL), run'.start = run.start
    PROVE  /\ Fresh(key)'
           /\ \A other : Fresh(other) => Fresh(other)'
<1>1. run.start \in Nat /\ clock \in Nat /\ CacheTTL \in Nat /\ run.start + CacheTTL <= clock + CacheTTL
  BY SitemapAssumption DEF SiteInv, SiteTyped, SitemapTypeOK, Runs, InTime
<1>2. /\ DOMAIN xml' = DOMAIN xml \cup {key}
      /\ xml'[key].exp = 0 \/ xml'[key].exp = clock + CacheTTL
      /\ \A other \in DOMAIN xml : other # key => xml'[other] = xml[other]
  BY SetEntry
<1>3. Fresh(key)'
  BY <1>1, <1>2 DEF Fresh, Lasts
<1> QED BY <1>2, <1>3 DEF Fresh, Lasts

\* The keys of the pages and counts of different kinds differ, and none is the index's.
LEMMA Keys ==
    /\ \A k, p : p \in Nat /\ p # 0 => PageName(k, p) = <<k, p>>
    /\ \A k, p, l, q : <<k, p>> = <<l, q>> => k = l /\ p = q
    /\ IndexKey = <<"index", 1>>
    /\ \A k \in ToSet(Kinds) : k # "index" /\ \A p \in Nat : <<k, p>> \in Names
BY SitemapAssumption DEF PageName, IndexKey, ToSet, Names

\* A page of a kind that was written in this run is in the cache, and has nothing but
\* entries of the kind.
LEMMA WrittenHas ==
    ASSUME NEW k, NEW n \in Nat, PagesSound(k, n), NEW p \in 1 .. n, NEW e \in On(<<k, p>>)
    PROVE  Has(k, e)
<1>1. <<k, p>> \in DOMAIN xml /\ p # 0
  BY DEF PagesSound, Fresh, Lasts
<1>2. <<k, p>> \in PagesOf(k)
  BY <1>1 DEF PagesOf
<1> QED BY <1>2 DEF Has

\* A step after which no kind has an entry it did not have leaves the kinds apart.
LEMMA StayApart ==
    ASSUME SiteInv, UNCHANGED lastId,
           \A k \in ToSet(Kinds) : \A e : Has(k, e)' => Has(k, e),
           \A k \in Sources : IsInjective(content'[k])
    PROVE  EntriesApart'
BY DEF SiteInv, EntriesApart

\* The kind at hand is one of the kinds, and the rest of them has it no more.
LEMMA Heads ==
    ASSUME SiteInv, run.todo # <<>>
    PROVE  /\ Kind \in ToSet(Kinds)
           /\ Tail(run.todo) \in Seq(ToSet(Kinds))
           /\ IsInjective(Tail(run.todo))
           /\ ToSet(Tail(run.todo)) = ToSet(run.todo) \ {Kind}
<1> DEFINE t == run.todo
<1>1. t \in Seq(ToSet(Kinds)) /\ IsInjective(t) /\ t # <<>>
  BY DEF SiteInv, SiteTyped, Runs, Phases
<1> HIDE DEF t
<1>2. /\ Head(t) \in ToSet(Kinds) /\ Tail(t) \in Seq(ToSet(Kinds)) /\ Len(Tail(t)) = Len(t) - 1
      /\ Head(t) = t[1] /\ 1 \in DOMAIN t /\ Len(t) \in Nat
  BY <1>1
<1>3. \A i \in 1 .. (Len(t) - 1) : Tail(t)[i] = t[i + 1] /\ i + 1 \in DOMAIN t
  BY <1>1, HeadTailProperties
<1>4. DOMAIN Tail(t) = 1 .. (Len(t) - 1) /\ DOMAIN t = 1 .. Len(t)
  BY <1>1, <1>2
<1>5. IsInjective(Tail(t))
  <2> SUFFICES ASSUME NEW a \in 1 .. (Len(t) - 1), NEW b \in 1 .. (Len(t) - 1), Tail(t)[a] = Tail(t)[b]
               PROVE  a = b
    BY <1>4 DEF IsInjective
  <2>1. a + 1 = b + 1
    BY <1>1, <1>3 DEF IsInjective
  <2> QED BY <2>1
<1>6. ASSUME NEW i \in 1 .. (Len(t) - 1) PROVE t[i + 1] # t[1]
  <2>1. i + 1 # 1
    OBVIOUS
  <2> QED BY <1>1, <1>2, <1>3, <2>1 DEF IsInjective
<1>7. ASSUME NEW j \in 1 .. Len(t), j # 1 PROVE j - 1 \in 1 .. (Len(t) - 1) /\ t[j] = Tail(t)[j - 1]
  <2>1. j - 1 \in 1 .. (Len(t) - 1) /\ (j - 1) + 1 = j
    BY <1>2, <1>7
  <2> QED BY <1>3, <2>1
<1>8. ASSUME NEW x PROVE x \in ToSet(Tail(t)) <=> x \in ToSet(t) /\ x # Head(t)
  <2>1. x \in ToSet(Tail(t)) <=> \E i \in 1 .. (Len(t) - 1) : Tail(t)[i] = x
    BY <1>4 DEF ToSet
  <2>2. x \in ToSet(t) <=> \E j \in 1 .. Len(t) : t[j] = x
    BY <1>4 DEF ToSet
  <2>3. ASSUME NEW i \in 1 .. (Len(t) - 1), Tail(t)[i] = x PROVE x \in ToSet(t) /\ x # Head(t)
    BY <1>2, <1>3, <1>4, <1>6, <2>2, <2>3
  <2>4. ASSUME NEW j \in 1 .. Len(t), t[j] = x, x # Head(t) PROVE \E i \in 1 .. (Len(t) - 1) : Tail(t)[i] = x
    <3>1. j # 1
      BY <1>2, <2>4
    <3> QED BY <1>7, <2>4, <3>1
  <2> QED BY <2>1, <2>2, <2>3, <2>4
<1> QED BY <1>2, <1>5, <1>8 DEF t, Kind

\* A slice of a sequence has what stands at its places, and no more.
LEMMA Slice ==
    ASSUME NEW s \in Seq(Nat), NEW o \in Nat, NEW m \in 0 .. Len(s)
    PROVE  /\ SubSeq(s, o + 1, m) \in Seq(Nat)
           /\ \A e : e \in ToSet(SubSeq(s, o + 1, m)) <=> \E i \in DOMAIN s : o < i /\ i <= m /\ e = s[i]
<1> DEFINE t == SubSeq(s, o + 1, m)
<1>1. \A i \in (o + 1) .. m : s[i] \in Nat
  OBVIOUS
<1>2. t \in Seq(Nat) /\ Len(t) = IF o + 1 <= m THEN m - (o + 1) + 1 ELSE 0
  BY <1>1, SubSeqProperties
<1>3. ASSUME NEW i \in 1 .. (m - o) PROVE t[i] = s[i + o]
  <2>1. i \in 1 .. m - (o + 1) + 1 /\ (o + 1) + i - 1 = i + o
    OBVIOUS
  <2>2. t[i] = s[(o + 1) + i - 1]
    BY <1>1, <2>1, SubSeqProperties
  <2> QED BY <2>1, <2>2
<1> HIDE DEF t
<1>4. DOMAIN t = 1 .. (m - o) /\ DOMAIN s = 1 .. Len(s)
  BY <1>2
<1>5. ASSUME NEW i \in DOMAIN t PROVE i + o \in DOMAIN s /\ o < i + o /\ i + o <= m /\ t[i] = s[i + o]
  BY <1>3, <1>4
<1>6. ASSUME NEW i \in DOMAIN s, o < i, i <= m PROVE i - o \in DOMAIN t /\ t[i - o] = s[i]
  <2>1. i - o \in 1 .. (m - o) /\ i - o + o = i
    BY <1>4, <1>6
  <2> QED BY <1>3, <1>4, <2>1
<1>7. \A e : e \in ToSet(t) <=> \E i \in DOMAIN s : o < i /\ i <= m /\ e = s[i]
  BY <1>5, <1>6 DEF ToSet
<1> QED BY <1>2, <1>7 DEF t

(***************************************************************************)
(* The steps of a sitemap.                                                 *)
(***************************************************************************)
\* At the start nothing is cached and nothing runs.
LEMMA SiteInitInvariant == SitemapInit => SiteInv
<1> SUFFICES ASSUME SitemapInit PROVE SiteInv
  OBVIOUS
<1>1. /\ DOMAIN xml = {} /\ run \in Runs /\ run.pc = "idle" /\ run.todo = <<>> /\ run.start = 0
      /\ clock = 0 /\ lastId = 0 /\ outcome = [ok |-> FALSE, failed |-> 0]
      /\ content \in [Sources -> Seq(Nat)] /\ \A k \in Sources : content[k] = <<>>
  BY DEF SitemapInit, NoRun, NoSet, Runs
<1>2. SiteTyped
  BY <1>1, SitemapAssumption DEF SiteTyped, SitemapTypeOK, Runs
<1>3. Phases
  BY <1>1 DEF Phases, Counting, IsInjective
<1>4. EntriesApart
  BY <1>1 DEF EntriesApart, Has, PagesOf, IsInjective, ToSet
<1>5. InTime /\ LastingFirst /\ KindSound /\ SetSound /\ DoneSound /\ ListedSound /\ IndexSound
  BY <1>1, SitemapAssumption DEF InTime, LastingFirst, KindSound, SetSound, DoneSound, ListedSound, IndexSound
<1> QED BY <1>2, <1>3, <1>4, <1>5 DEF SiteInv

\* Time passes no further than to the end of a run, or to the next.
LEMMA TickSound == SiteInv /\ SitemapTick => SiteInv'
<1> SUFFICES ASSUME SiteInv, SitemapTick PROVE SiteInv'
  OBVIOUS
<1>1. clock' = clock + 1 /\ clock < run.start + (IF run.pc = "idle" THEN Interval ELSE RunTime)
      /\ UNCHANGED <<content, lastId, xml, run, outcome>>
  BY DEF SitemapTick, Advance
<1>2. clock \in Nat /\ run.start \in Nat /\ Interval \in Nat /\ RunTime \in Nat
  BY SitemapAssumption DEF SiteInv, SiteTyped, SitemapTypeOK, Runs
<1>3. InTime'
  BY <1>1, <1>2 DEF SiteInv, InTime
<1>4. SiteTyped'
  BY <1>1, <1>2 DEF SiteInv, SiteTyped, SitemapTypeOK
<1>5. (Phases /\ EntriesApart /\ LastingFirst)'
  <2>1. \A k \in ToSet(Kinds) : \A e : Has(k, e)' <=> Has(k, e)
    BY <1>1 DEF Has, PagesOf, On, Kind
  <2>2. EntriesApart'
    BY <1>1, <2>1, StayApart DEF SiteInv, EntriesApart
  <2>3. Phases' /\ LastingFirst'
    BY <1>1 DEF SiteInv, Phases, Counting, Kind, LastingFirst
  <2> QED BY <2>2, <2>3
<1>6. (KindSound /\ SetSound)'
  BY <1>1 DEF SiteInv, KindSound, SetSound, PagesSound, Covered, Fresh, Lasts, On, Kind
<1>7. DoneSound' /\ ListedSound'
  <2>1. DoneSound'
    BY <1>1 DEF SiteInv, DoneSound, PagesSound, Covered, Fresh, Lasts, On, Counting, CountKey
  <2>2. ListedSound'
    BY <1>1 DEF SiteInv, ListedSound, CountKey
  <2> QED BY <2>1, <2>2
<1>0. IndexSound'
  BY <1>1 DEF SiteInv, IndexSound, IndexKey, PageName
<1> QED BY <1>0, <1>3, <1>4, <1>5, <1>6, <1>7 DEF SiteInv

\* What is published is new, and stands behind everything.
LEMMA PublishSound == ASSUME SiteInv, NEW k \in Sources, Publish(k) PROVE SiteInv'
<1>1. /\ lastId' = lastId + 1 /\ UNCHANGED <<clock, xml, run, outcome>>
      /\ content' = [content EXCEPT ![k] = Append(content[k], lastId + 1)]
  BY DEF Publish
<1>2. lastId \in Nat /\ content \in [Sources -> Seq(Nat)]
  BY DEF SiteInv, SiteTyped, SitemapTypeOK
<1>3. /\ content' \in [Sources -> Seq(Nat)]
      /\ \A l \in Sources : l # k => content'[l] = content[l]
      /\ Len(content'[k]) = Len(content[k]) + 1 /\ Len(content[k]) \in Nat
      /\ \A i \in DOMAIN content[k] : content'[k][i] = content[k][i]
      /\ content'[k][Len(content[k]) + 1] = lastId + 1
  BY <1>1, <1>2
<1>4. /\ \A l \in Sources : \A e : Has(l, e) => e \in 1 .. lastId
      /\ lastId + 1 \notin 1 .. lastId
  BY <1>2 DEF SiteInv, EntriesApart, Sources
<1>5. ASSUME NEW i \in DOMAIN content'[k]
      PROVE  i \in DOMAIN content[k] \/ (i = Len(content[k]) + 1 /\ content'[k][i] = lastId + 1)
  BY <1>2, <1>3
<1>6. \A l \in ToSet(Kinds) : \A e : Has(l, e)' => Has(l, e) \/ (l = k /\ e = lastId + 1)
  <2>1. ASSUME NEW l \in Sources, NEW e \in ToSet(content'[l])
        PROVE  e \in ToSet(content[l]) \/ (l = k /\ e = lastId + 1)
    BY <1>3, <1>5 DEF ToSet
  <2>2. \A l : PagesOf(l)' = PagesOf(l)
    BY <1>1 DEF PagesOf
  <2>3. \A key : On(key)' = On(key)
    BY <1>1 DEF On
  <2>4. Kind' = Kind /\ run' = run
    BY <1>1 DEF Kind
  <2> QED BY <2>1, <2>2, <2>3, <2>4 DEF Has
<1>7. IsInjective(content'[k])
  <2> SUFFICES ASSUME NEW a \in DOMAIN content'[k], NEW b \in DOMAIN content'[k], content'[k][a] = content'[k][b]
               PROVE  a = b
    BY DEF IsInjective
  <2>1. \A i \in DOMAIN content[k] : content[k][i] \in 1 .. lastId
    BY <1>4 DEF Has, ToSet
  <2> QED BY <1>3, <1>4, <1>5, <2>1 DEF SiteInv, EntriesApart, IsInjective
<1>8. EntriesApart'
  <2>1. \A l \in ToSet(Kinds) : \A e : Has(l, e)' => l \in Sources /\ e \in 1 .. lastId'
    <3>1. 1 .. lastId \subseteq 1 .. lastId' /\ lastId + 1 \in 1 .. lastId'
      BY <1>1, <1>2
    <3> QED BY <1>6, <3>1 DEF SiteInv, EntriesApart
  <2>2. \A l, m \in ToSet(Kinds) : \A e : Has(l, e)' /\ Has(m, e)' => l = m
    <3>1. \A l \in ToSet(Kinds) : ~ Has(l, lastId + 1)
      BY <1>4 DEF SiteInv, EntriesApart
    <3> QED BY <1>6, <3>1 DEF SiteInv, EntriesApart
  <2>3. \A l \in Sources : IsInjective(content'[l])
    BY <1>3, <1>7 DEF SiteInv, EntriesApart
  <2> QED BY <2>1, <2>2, <2>3 DEF EntriesApart
<1>9. SiteTyped' /\ InTime' /\ Phases'
  BY <1>1, <1>2, <1>3 DEF SiteInv, SiteTyped, SitemapTypeOK, InTime, Phases, Counting, Kind
<1>10. LastingFirst'
  <2> SUFFICES ASSUME run.pc # "idle", NEW l \in Sources
               PROVE  /\ Len(run.lasting[l]) <= Len(content'[l])
                      /\ \A i \in DOMAIN run.lasting[l] : content'[l][i] = run.lasting[l][i]
    BY <1>1 DEF LastingFirst
  <2>1. run.lasting[l] \in Seq(Nat) /\ content[l] \in Seq(Nat) /\ Len(run.lasting[l]) <= Len(content[l])
        /\ \A i \in DOMAIN run.lasting[l] : content[l][i] = run.lasting[l][i]
    BY <1>2 DEF SiteInv, SiteTyped, LastingFirst
  <2>2. \A i \in DOMAIN run.lasting[l] : i \in DOMAIN content[l]
    BY <2>1
  <2>3. Len(content[l]) <= Len(content'[l]) /\ \A i \in DOMAIN content[l] : content'[l][i] = content[l][i]
    <3>1. CASE l = k
      BY <1>3, <3>1
    <3>2. CASE l # k
      BY <1>2, <1>3, <3>2
    <3> QED BY <3>1, <3>2
  <2>4. Len(content'[l]) \in Nat
    BY <1>3
  <2> QED BY <2>1, <2>2, <2>3, <2>4
<1>11. KindSound'
  <2> SUFFICES ASSUME run.pc \in {"page", "write", "setcount"}, Kind \in Sources, NEW p \in 1 .. run.files,
                      NEW i \in DOMAIN content'[Kind], content'[Kind][i] \in On(<<Kind, p>>)
               PROVE  i <= run.offset
    BY <1>1 DEF SiteInv, KindSound, PagesSound, Covered, Fresh, Lasts, On, Kind
  <2>1. PagesSound(Kind, run.files) /\ run.files \in Nat
    BY DEF SiteInv, KindSound, SiteTyped, Runs
  <2>2. content'[Kind][i] # lastId + 1
    BY <1>4, <2>1, WrittenHas
  <2>3. i \in DOMAIN content[Kind] /\ content'[Kind][i] = content[Kind][i]
    BY <1>3, <1>5, <2>2
  <2> QED BY <2>3 DEF SiteInv, KindSound
<1>12. SetSound'
  <2> SUFFICES ASSUME run.pc = "write", Kind \in Sources,
                      NEW i \in DOMAIN content'[Kind], content'[Kind][i] \in ToSet(run.set)
               PROVE  i <= run.offset + URLsPerFile
    BY <1>1 DEF SiteInv, SetSound, On, Kind
  <2>2. content'[Kind][i] # lastId + 1
    BY <1>4 DEF Has
  <2>3. i \in DOMAIN content[Kind] /\ content'[Kind][i] = content[Kind][i]
    BY <1>3, <1>5, <2>2
  <2> QED BY <2>3 DEF SiteInv, SetSound
<1>13. DoneSound' /\ ListedSound'
  <2>1. DoneSound'
    BY <1>1 DEF SiteInv, DoneSound, PagesSound, Covered, Fresh, Lasts, On, Counting, CountKey
  <2>2. ListedSound'
    BY <1>1 DEF SiteInv, ListedSound, CountKey
  <2> QED BY <2>1, <2>2
<1>0. IndexSound'
  BY <1>1 DEF SiteInv, IndexSound, IndexKey, PageName
<1> QED BY <1>0, <1>8, <1>9, <1>10, <1>11, <1>12, <1>13 DEF SiteInv

\* What is withdrawn leaves the rest in order; the run keeps no promise about its kind.
LEMMA WithdrawSound == ASSUME SiteInv, NEW k \in Sources, Withdraw(k) PROVE SiteInv'
<1>1. /\ UNCHANGED <<clock, lastId, xml, outcome>>
      /\ run' = IF run.pc = "idle" THEN run ELSE [run EXCEPT !.lasting[k] = <<>>]
  BY DEF Withdraw
<1>2. /\ content \in [Sources -> Seq(Nat)] /\ run \in Runs
      /\ run.pc # "idle" => run.lasting \in [Sources -> Seq(Nat)]
  BY DEF SiteInv, SiteTyped, SitemapTypeOK
<1>3. /\ content' \in [Sources -> Seq(Nat)]
      /\ \A l \in Sources : l # k => content'[l] = content[l]
      /\ ToSet(content'[k]) \subseteq ToSet(content[k])
      /\ \A i \in DOMAIN content'[k] : \E m \in DOMAIN content[k] : i <= m /\ content'[k][i] = content[k][m]
      /\ IsInjective(content'[k])
  <2>1. PICK j \in DOMAIN content[k] : content' = [content EXCEPT ![k] = RemoveAt(content[k], j)]
    BY DEF Withdraw
  <2>2. content[k] \in Seq(Nat) /\ content'[k] = RemoveAt(content[k], j)
    BY <1>2, <2>1
  <2>3. /\ content'[k] \in Seq(Nat) /\ ToSet(content'[k]) \subseteq ToSet(content[k])
        /\ \A i \in DOMAIN content'[k] : \E m \in DOMAIN content[k] : i <= m /\ content'[k][i] = content[k][m]
        /\ IsInjective(content[k]) => IsInjective(content'[k])
    BY <2>2, MovedUp
  <2>4. content' \in [Sources -> Seq(Nat)] /\ \A l \in Sources : l # k => content'[l] = content[l]
    BY <1>2, <2>1, <2>3
  <2> QED BY <2>3, <2>4 DEF SiteInv, EntriesApart
<1>4. /\ run' \in Runs /\ run'.pc = run.pc /\ run'.todo = run.todo /\ run'.start = run.start
      /\ run'.total = run.total /\ run'.offset = run.offset /\ run'.files = run.files
      /\ run'.set = run.set /\ run'.listed = run.listed
      /\ run.pc # "idle" => /\ run'.lasting \in [Sources -> Seq(Nat)] /\ run'.lasting[k] = <<>>
                            /\ \A l \in Sources : l # k => run'.lasting[l] = run.lasting[l]
  <2>1. CASE run.pc = "idle"
    BY <1>1, <1>2, <2>1
  <2>2. CASE run.pc # "idle"
    <3>1. run' = [run EXCEPT !.lasting = [run.lasting EXCEPT ![k] = <<>>]]
      BY <1>1, <1>2, <2>2 DEF Runs
    <3>2. [run.lasting EXCEPT ![k] = <<>>] \in [Sources -> Seq(Nat)]
      BY <1>2, <2>2
    <3> HIDE <1>1
    <3> QED BY <1>2, <2>2, <3>1, <3>2 DEF Runs
  <2> QED BY <2>1, <2>2
<1> HIDE <1>1
<1>5. UNCHANGED <<clock, lastId, xml, outcome>>
  BY <1>1
<1>6. Kind' = Kind /\ (\A l : PagesOf(l)' = PagesOf(l)) /\ (\A key : On(key)' = On(key) /\ (Fresh(key)' <=> Fresh(key)))
  BY <1>4, <1>5 DEF Kind, PagesOf, On, Fresh, Lasts
<1>7. \A l, n : PagesSound(l, n)' <=> PagesSound(l, n)
  BY <1>6 DEF PagesSound
<1>8. \A l \in Sources : \A i \in DOMAIN content'[l] :
          \E m \in DOMAIN content[l] : i <= m /\ content'[l][i] = content[l][m]
  <2>1. ASSUME NEW l \in Sources, l # k, NEW i \in DOMAIN content'[l]
        PROVE  i \in DOMAIN content[l] /\ i <= i /\ content'[l][i] = content[l][i]
    BY <1>2, <1>3, <2>1
  <2> QED BY <1>3, <2>1
<1>9. \A l \in Sources : run.pc # "idle" => run'.lasting[l] = <<>> \/ run'.lasting[l] = run.lasting[l]
  BY <1>4
<1>10. SiteTyped'
  BY <1>3, <1>4, <1>5 DEF SiteInv, SiteTyped, SitemapTypeOK, IndexKey, PageName
<1>11. InTime' /\ Phases'
  BY <1>4, <1>5, <1>6 DEF SiteInv, InTime, Phases, Counting
<1>12. EntriesApart'
  <2>1. \A l \in Sources : ToSet(content'[l]) \subseteq ToSet(content[l])
    BY <1>3
  <2>2. \A l \in ToSet(Kinds) : \A e : Has(l, e)' => Has(l, e)
    BY <1>4, <1>6, <2>1 DEF Has
  <2>3. \A l \in Sources : IsInjective(content'[l])
    BY <1>3 DEF SiteInv, EntriesApart
  <2> QED BY <1>5, <2>2, <2>3, StayApart
<1>13. LastingFirst'
  <2> SUFFICES ASSUME run.pc # "idle", NEW l \in Sources
               PROVE  /\ Len(run'.lasting[l]) <= Len(content'[l])
                      /\ \A i \in DOMAIN run'.lasting[l] : content'[l][i] = run'.lasting[l][i]
    BY <1>4 DEF LastingFirst
  <2>1. CASE l = k
    BY <1>3, <1>4, <2>1
  <2>2. CASE l # k
    <3>1. content'[l] = content[l] /\ run'.lasting[l] = run.lasting[l]
      BY <1>3, <1>4, <2>2
    <3> QED BY <3>1 DEF SiteInv, LastingFirst
  <2> QED BY <2>1, <2>2
<1>14. \A l, n, m : Covered(l, n, m) /\ run.pc # "idle" => Covered(l, n, m)'
  <2> SUFFICES ASSUME NEW l, NEW n, NEW m, Covered(l, n, m), run.pc # "idle", l \in Sources,
                      NEW i \in DOMAIN run'.lasting[l], i <= m
               PROVE  \E p \in 1 .. n : run'.lasting[l][i] \in On(<<l, p>>)
    BY <1>6 DEF Covered
  <2>1. run'.lasting[l] # <<>>
    OBVIOUS
  <2>2. run'.lasting[l] = run.lasting[l]
    BY <1>9, <2>1
  <2> QED BY <2>2 DEF Covered
<1>15. KindSound'
  <2> SUFFICES ASSUME run.pc \in {"page", "write", "setcount"} PROVE KindSound'
    BY <1>4 DEF KindSound
  <2>1. PagesSound(Kind, run.files)' /\ Covered(Kind, run.files, run.offset)'
    BY <1>4, <1>6, <1>7, <1>14 DEF SiteInv, KindSound
  <2>2. ASSUME Kind \in Sources PROVE Len(run'.lasting[Kind]) <= run.total
    <3>1. CASE run'.lasting[Kind] = <<>>
      BY <1>2, <3>1 DEF Runs
    <3>2. CASE run'.lasting[Kind] = run.lasting[Kind]
      BY <2>2, <3>2 DEF SiteInv, KindSound
    <3> QED BY <1>9, <2>2, <3>1, <3>2
  <2>3. ASSUME Kind \in Sources, NEW p \in 1 .. run.files, NEW i \in DOMAIN content'[Kind],
               content'[Kind][i] \in On(<<Kind, p>>)
        PROVE  i <= run.offset
    <3>1. PICK m \in DOMAIN content[Kind] : i <= m /\ content'[Kind][i] = content[Kind][m]
      BY <1>8, <2>3
    <3>2. m <= run.offset
      BY <2>3, <3>1 DEF SiteInv, KindSound
    <3>3. i \in Nat /\ m \in Nat /\ run.offset \in Nat
      <4>1. content'[Kind] \in Seq(Nat) /\ content[Kind] \in Seq(Nat) /\ run.offset \in Nat
        BY <1>2, <1>3, <2>3 DEF Runs
      <4> QED BY <4>1
    <3> QED BY <3>1, <3>2, <3>3
  <2>4. run.pc = "setcount" => run.total <= run.offset
    BY DEF SiteInv, KindSound
  <2> QED BY <1>4, <1>6, <2>1, <2>2, <2>3, <2>4 DEF KindSound
<1>16. SetSound'
  <2> SUFFICES ASSUME run.pc = "write", Kind \in Sources PROVE SetSound'
    BY <1>4, <1>6 DEF SetSound
  <2>1. \A p \in 1 .. run.files : On(<<Kind, p>>) \cap ToSet(run.set) = {}
    BY DEF SiteInv, SetSound
  <2>2. \A i \in DOMAIN run'.lasting[Kind] :
            run.offset < i /\ i <= run.offset + URLsPerFile => run'.lasting[Kind][i] \in ToSet(run.set)
    BY <1>9 DEF SiteInv, SetSound
  <2>3. ASSUME NEW i \in DOMAIN content'[Kind], content'[Kind][i] \in ToSet(run.set)
        PROVE  i <= run.offset + URLsPerFile
    <3>1. PICK m \in DOMAIN content[Kind] : i <= m /\ content'[Kind][i] = content[Kind][m]
      BY <1>8
    <3>2. m <= run.offset + URLsPerFile
      BY <2>3, <3>1 DEF SiteInv, SetSound
    <3>3. i \in Nat /\ m \in Nat /\ run.offset + URLsPerFile \in Nat
      <4>1. content'[Kind] \in Seq(Nat) /\ content[Kind] \in Seq(Nat) /\ run.offset \in Nat /\ URLsPerFile \in Nat
        BY <1>2, <1>3, SitemapAssumption DEF Runs
      <4> QED BY <4>1
    <3> QED BY <3>1, <3>2, <3>3
  <2> QED BY <1>4, <1>6, <2>1, <2>2, <2>3 DEF SetSound
<1>17. DoneSound'
  <2> SUFFICES ASSUME run'.pc # "idle", NEW l \in ToSet(Kinds), ~ Counting' \/ l \notin ToSet(run'.todo)
               PROVE  (/\ Fresh(CountKey(l))
                       /\ PagesSound(l, xml[CountKey(l)].val)
                       /\ l \in Sources => Covered(l, xml[CountKey(l)].val, Len(run.lasting[l])))'
    BY DEF DoneSound
  <2> DEFINE n == xml[CountKey(l)].val
  <2>1. /\ Fresh(CountKey(l)) /\ PagesSound(l, n)
        /\ l \in Sources => Covered(l, n, Len(run.lasting[l]))
    BY <1>4 DEF SiteInv, DoneSound, Counting
  <2>2. n' = n /\ run.pc # "idle"
    BY <1>4, <1>5 DEF CountKey
  <2> HIDE DEF n
  <2>3. ASSUME l \in Sources, NEW i \in DOMAIN run'.lasting[l], i <= Len(run'.lasting[l])
        PROVE  \E p \in 1 .. n : run'.lasting[l][i] \in On(<<l, p>>)
    <3>1. run'.lasting[l] # <<>>
      BY <2>3
    <3>2. run'.lasting[l] = run.lasting[l]
      BY <1>9, <2>2, <2>3, <3>1
    <3> QED BY <2>1, <2>3, <3>2 DEF Covered
  <2>4. Fresh(CountKey(l))'
    BY <1>6, <2>1 DEF CountKey
  <2>5. PagesSound(l, n)'
    BY <1>6, <2>1, <2>2 DEF PagesSound
  <2>6. l \in Sources => Covered(l, n, Len(run.lasting[l]))'
    BY <1>6, <2>2, <2>3 DEF Covered
  <2> QED BY <2>4, <2>5, <2>6 DEF n
<1>18. ListedSound' /\ IndexSound'
  <2>1. ListedSound'
    BY <1>4, <1>5 DEF SiteInv, ListedSound, CountKey
  <2>2. IndexSound'
    BY <1>4, <1>5 DEF SiteInv, IndexSound, IndexKey, PageName
  <2> QED BY <2>1, <2>2
<1> QED BY <1>10, <1>11, <1>12, <1>13, <1>15, <1>16, <1>17, <1>18 DEF SiteInv

\* A step of a run that leaves the cache alone keeps what the pages were found to be.
LEMMA CacheStays ==
    ASSUME UNCHANGED <<clock, xml, outcome>>, run'.start = run.start, run.pc # "idle", run'.pc # "idle"
    PROVE  /\ \A k : PagesOf(k)' = PagesOf(k)
           /\ \A key : On(key)' = On(key) /\ (Fresh(key)' <=> Fresh(key))
           /\ \A k, n : PagesSound(k, n)' <=> PagesSound(k, n)
           /\ SiteInv => IndexSound' /\ InTime'
           /\ run'.lasting = run.lasting => \A k, n, m : Covered(k, n, m)' <=> Covered(k, n, m)
<1>1. (\A k : PagesOf(k)' = PagesOf(k)) /\ \A key : On(key)' = On(key) /\ (Fresh(key)' <=> Fresh(key))
  BY DEF PagesOf, On, Fresh, Lasts
<1>2. \A k, n : PagesSound(k, n)' <=> PagesSound(k, n)
  BY <1>1 DEF PagesSound
<1>3. SiteInv => IndexSound' /\ InTime'
  BY DEF SiteInv, IndexSound, InTime, IndexKey, PageName
<1>4. run'.lasting = run.lasting => \A k, n, m : Covered(k, n, m)' <=> Covered(k, n, m)
  BY <1>1 DEF Covered
<1> QED BY <1>1, <1>2, <1>3, <1>4

\* A run begins with every kind to do; what the index names lasts until it must be over.
LEMMA BeginSound == SiteInv /\ BeginGenerate => SiteInv'
<1> SUFFICES ASSUME SiteInv, BeginGenerate PROVE SiteInv'
  OBVIOUS
<1>1. /\ run.pc = "idle" /\ UNCHANGED <<clock, content, lastId, xml, outcome>>
      /\ run'.pc = IF Kinds = <<>> THEN "index" ELSE "count"
      /\ run'.todo = Kinds /\ run'.start = clock /\ run'.total = 0 /\ run'.offset = 0 /\ run'.files = 0
      /\ run'.set = <<>> /\ run'.listed = <<>> /\ run'.lasting = content
  BY DEF BeginGenerate, Begun, NoRun, NoSet
<1>2. content \in [Sources -> Seq(Nat)] /\ clock \in Nat /\ run.start \in Nat /\ outcome.failed \in Nat
  BY SitemapAssumption DEF SiteInv, SiteTyped, SitemapTypeOK, Runs
<1>3. /\ Kinds \in Seq(ToSet(Kinds)) /\ IsInjective(Kinds) /\ Interval \in Nat /\ RunTime \in Nat /\ CacheTTL \in Nat
      /\ Kinds = <<>> => ToSet(Kinds) = {}
  BY SitemapAssumption DEF ToSet
<1>4. run' \in Runs
  <2>1. run' = [pc |-> IF Kinds = <<>> THEN "index" ELSE "count", todo |-> Kinds, start |-> clock, total |-> 0,
                offset |-> 0, files |-> 0, set |-> <<>>, listed |-> <<>>, lasting |-> content]
    BY DEF BeginGenerate, Begun, NoRun, NoSet
  <2>2. <<>> \in Seq(Nat) /\ <<>> \in Seq(Names) /\ 0 \in Nat
    OBVIOUS
  <2> HIDE <1>1
  <2> QED BY <1>2, <1>3, <2>1, <2>2 DEF Runs
<1>5. SiteTyped'
  BY <1>1, <1>2, <1>3, <1>4 DEF SiteInv, SiteTyped, SitemapTypeOK, IndexKey, PageName
<1>6. InTime' /\ Phases'
  BY <1>1, <1>2, <1>3 DEF InTime, Phases, Counting
<1>7. EntriesApart'
  <2>1. \A k \in ToSet(Kinds) : \A e : Has(k, e)' => Has(k, e)
    BY <1>1 DEF Has, PagesOf, On
  <2> QED BY <1>1, <2>1, StayApart DEF SiteInv, EntriesApart
<1>8. LastingFirst'
  BY <1>1, <1>2 DEF LastingFirst
<1>9. KindSound' /\ SetSound' /\ ListedSound'
  BY <1>1, <1>3 DEF KindSound, SetSound, ListedSound, ToSet
<1>10. DoneSound'
  BY <1>1, <1>3 DEF DoneSound, Counting
<1>11. IndexSound'
  <2> SUFFICES ASSUME outcome.ok PROVE IndexSound'
    BY <1>1 DEF IndexSound
  <2>1. clock + CacheTTL <= run.start + CacheTTL + Interval
    BY <1>1, <1>2, <1>3 DEF SiteInv, InTime
  <2>2. (outcome.failed + 1) * Interval = outcome.failed * Interval + Interval /\ outcome.failed * Interval \in Nat
    BY <1>2, <1>3
  <2>3. \A name \in DOMAIN xml : xml[name].exp \in Nat
    BY DEF SiteInv, SiteTyped, SitemapTypeOK
  <2>4. /\ IndexKey \in DOMAIN xml
        /\ \A name \in {IndexKey} \cup ToSet(xml[IndexKey].val) :
              /\ name \in DOMAIN xml
              /\ xml[name].exp = 0 \/ run.start + CacheTTL <= xml[name].exp + outcome.failed * Interval
    BY <1>1 DEF SiteInv, IndexSound
  <2>5. \A name \in {IndexKey} \cup ToSet(xml[IndexKey].val) :
            xml[name].exp = 0 \/ clock + CacheTTL <= xml[name].exp + (outcome.failed + 1) * Interval
    <3> DEFINE f == outcome.failed * Interval
               g == (outcome.failed + 1) * Interval
    <3>1. f \in Nat /\ g = f + Interval
      BY <2>2
    <3> HIDE DEF f, g
    <3> SUFFICES ASSUME NEW name \in {IndexKey} \cup ToSet(xml[IndexKey].val), xml[name].exp # 0
                 PROVE  clock + CacheTTL <= xml[name].exp + g
      BY DEF g
    <3>2. xml[name].exp \in Nat /\ run.start + CacheTTL <= xml[name].exp + f
      BY <2>3, <2>4 DEF f
    <3> QED BY <1>2, <1>3, <2>1, <3>1, <3>2
  <2>6. run'.pc # "idle"
    BY <1>1
  <2> QED BY <1>1, <2>4, <2>5, <2>6 DEF IndexSound, IndexKey, PageName
<1> QED BY <1>5, <1>6, <1>7, <1>8, <1>9, <1>10, <1>11 DEF SiteInv

\* The kind at hand is counted: it has no more than that, until something is published behind it.
LEMMA CountSound == SiteInv /\ Count => SiteInv'
<1> SUFFICES ASSUME SiteInv, Count PROVE SiteInv'
  OBVIOUS
<1>1. /\ run.pc = "count" /\ UNCHANGED <<clock, content, lastId, xml, outcome>>
      /\ run' = IF Kind \in StaticKinds
                THEN [run EXCEPT !.total = 1, !.offset = 0, !.pc = "write", !.set = <<>>]
                ELSE [run EXCEPT !.total = Len(content[Kind]), !.offset = 0,
                                 !.pc = IF content[Kind] = <<>> THEN "setcount" ELSE "page"]
  BY DEF Count, NoSet
<1>2. /\ content \in [Sources -> Seq(Nat)] /\ run \in Runs /\ run.lasting \in [Sources -> Seq(Nat)]
      /\ run.files = 0 /\ run.todo # <<>> /\ Kind \in ToSet(Kinds)
      /\ URLsPerFile \in Nat \ {0}
  BY <1>1, Heads, SitemapAssumption DEF SiteInv, SiteTyped, SitemapTypeOK, Phases, Counting
<1>3. Kind \in Sources <=> Kind \notin StaticKinds
  BY <1>2 DEF Sources
<1>4. /\ run' \in Runs /\ run'.pc \in {"write", "setcount", "page"} /\ run'.todo = run.todo /\ run'.start = run.start
      /\ run'.files = 0 /\ run'.offset = 0 /\ run'.listed = run.listed /\ run'.lasting = run.lasting
      /\ Kind \in Sources => run'.pc # "write" /\ run'.total = Len(content[Kind])
      /\ Kind \notin Sources => run'.pc = "write" /\ run'.total = 1 /\ run'.set = <<>>
      /\ run'.pc = "setcount" => run'.total = 0
  <2>1. CASE Kind \in StaticKinds
    <3>1. run' = [run EXCEPT !.total = 1, !.offset = 0, !.pc = "write", !.set = <<>>]
      BY <1>1, <2>1
    <3>2. <<>> \in Seq(Nat)
      OBVIOUS
    <3> HIDE <1>1
    <3> QED BY <1>2, <1>3, <2>1, <3>1, <3>2 DEF Runs
  <2>2. CASE Kind \notin StaticKinds
    <3>1. Len(content[Kind]) \in Nat /\ (content[Kind] = <<>> => Len(content[Kind]) = 0)
      BY <1>2, <1>3, <2>2
    <3> QED BY <1>1, <1>2, <1>3, <2>2, <3>1 DEF Runs
  <2> QED BY <2>1, <2>2
<1> HIDE <1>1
<1>5. run.pc = "count" /\ UNCHANGED <<clock, content, lastId, xml, outcome>> /\ Kind' = Kind
  BY <1>1, <1>4 DEF Kind
<1>6. /\ \A k : PagesOf(k)' = PagesOf(k)
      /\ \A key : On(key)' = On(key) /\ (Fresh(key)' <=> Fresh(key))
      /\ \A k, n : PagesSound(k, n)' <=> PagesSound(k, n)
      /\ \A k, n, m : Covered(k, n, m)' <=> Covered(k, n, m)
      /\ IndexSound' /\ InTime'
  BY <1>4, <1>5, CacheStays
<1>7. SiteTyped'
  BY <1>4, <1>5 DEF SiteInv, SiteTyped, SitemapTypeOK, Runs, IndexKey, PageName
<1>8. Phases'
  BY <1>2, <1>4, <1>5 DEF SiteInv, Phases, Counting
<1>9. EntriesApart'
  <2>1. \A k \in ToSet(Kinds) : \A e : Has(k, e)' => Has(k, e)
    <3>1. ~ \E e : e \in ToSet(run'.set) /\ run'.pc = "write"
      BY <1>4 DEF ToSet
    <3> QED BY <1>5, <1>6, <3>1 DEF Has
  <2> QED BY <1>5, <2>1, StayApart DEF SiteInv, EntriesApart
<1>10. LastingFirst'
  BY <1>4, <1>5 DEF SiteInv, LastingFirst
<1>11. KindSound'
  <2>1. PagesSound(Kind, 0) /\ Covered(Kind, 0, 0)
    BY <1>2 DEF PagesSound, Covered
  <2>2. Kind \in Sources => Len(run.lasting[Kind]) <= Len(content[Kind])
    BY <1>5 DEF SiteInv, LastingFirst
  <2> QED BY <1>2, <1>4, <1>5, <1>6, <2>1, <2>2 DEF KindSound
<1>12. SetSound'
  BY <1>4, <1>5 DEF SetSound
<1>13. DoneSound' /\ ListedSound'
  <2>1. DoneSound'
    BY <1>4, <1>5, <1>6 DEF SiteInv, DoneSound, Counting, CountKey
  <2>2. ListedSound'
    BY <1>4 DEF ListedSound
  <2> QED BY <2>1, <2>2
<1> QED BY <1>6, <1>7, <1>8, <1>9, <1>10, <1>11, <1>12, <1>13 DEF SiteInv

\* The next set is what stands at the next places; what is on the pages stands before them.
LEMMA PageSound == SiteInv /\ Page => SiteInv'
<1> SUFFICES ASSUME SiteInv, Page PROVE SiteInv'
  OBVIOUS
<1>1. /\ run.pc = "page" /\ UNCHANGED <<clock, content, lastId, xml, outcome>>
      /\ run' = [run EXCEPT !.set = SubSeq(content[Kind], run.offset + 1,
                                           Min({run.offset + URLsPerFile, Len(content[Kind])})),
                            !.pc = "write"]
  BY DEF Page
<1>2. /\ content \in [Sources -> Seq(Nat)] /\ run \in Runs /\ run.lasting \in [Sources -> Seq(Nat)]
      /\ Kind \in Sources /\ run.offset \in Nat /\ URLsPerFile \in Nat \ {0}
  BY <1>1, SitemapAssumption DEF SiteInv, SiteTyped, SitemapTypeOK, Phases, Runs
<1>3. PICK m \in 0 .. Len(content[Kind]) :
            /\ m = Min({run.offset + URLsPerFile, Len(content[Kind])})
            /\ m <= run.offset + URLsPerFile
            /\ \A i \in DOMAIN content[Kind] : i <= run.offset + URLsPerFile => i <= m
  <2> DEFINE a == run.offset + URLsPerFile
             b == Len(content[Kind])
  <2>1. a \in Nat /\ b \in Nat
    BY <1>2
  <2>2. \A i \in DOMAIN content[Kind] : i \in Nat /\ i <= b
    BY <1>2
  <2>3. Min({a, b}) = IF a <= b THEN a ELSE b
    <3> HIDE DEF a, b
    <3> QED BY <2>1 DEF Min
  <2> HIDE DEF a, b
  <2>4. Min({a, b}) \in 0 .. b /\ Min({a, b}) <= a /\ \A i \in DOMAIN content[Kind] : i <= a => i <= Min({a, b})
    BY <2>1, <2>2, <2>3
  <2> QED BY <2>4 DEF a, b
<1>4. /\ run' \in Runs /\ run'.pc = "write" /\ run'.todo = run.todo /\ run'.start = run.start
      /\ run'.files = run.files /\ run'.offset = run.offset /\ run'.total = run.total
      /\ run'.listed = run.listed /\ run'.lasting = run.lasting
      /\ \A e : e \in ToSet(run'.set) <=>
                   \E i \in DOMAIN content[Kind] : run.offset < i /\ i <= m /\ e = content[Kind][i]
  <2> DEFINE t == SubSeq(content[Kind], run.offset + 1, m)
  <2>1. t \in Seq(Nat) /\ \A e : e \in ToSet(t) <=>
                   \E i \in DOMAIN content[Kind] : run.offset < i /\ i <= m /\ e = content[Kind][i]
    BY <1>2, Slice
  <2>2. run' = [run EXCEPT !.set = t, !.pc = "write"]
    BY <1>1, <1>3
  <2> HIDE DEF t
  <2> HIDE <1>1
  <2> QED BY <1>2, <2>1, <2>2 DEF Runs
<1> HIDE <1>1
<1>5. run.pc = "page" /\ UNCHANGED <<clock, content, lastId, xml, outcome>> /\ Kind' = Kind
  BY <1>1, <1>4 DEF Kind
<1>6. /\ \A k : PagesOf(k)' = PagesOf(k)
      /\ \A key : On(key)' = On(key) /\ (Fresh(key)' <=> Fresh(key))
      /\ \A k, n : PagesSound(k, n)' <=> PagesSound(k, n)
      /\ \A k, n, j : Covered(k, n, j)' <=> Covered(k, n, j)
      /\ IndexSound' /\ InTime'
  BY <1>4, <1>5, CacheStays
<1>7. SiteTyped'
  BY <1>4, <1>5 DEF SiteInv, SiteTyped, SitemapTypeOK, Runs, IndexKey, PageName
<1>8. Phases'
  BY <1>2, <1>4, <1>5 DEF SiteInv, Phases, Counting
<1>9. EntriesApart'
  <2>1. \A k \in ToSet(Kinds) : \A e : Has(k, e)' => Has(k, e)
    <3>1. \A e \in ToSet(run'.set) : e \in ToSet(content[Kind])
      BY <1>4 DEF ToSet
    <3> QED BY <1>2, <1>4, <1>5, <1>6, <3>1 DEF Has
  <2> QED BY <1>5, <2>1, StayApart DEF SiteInv, EntriesApart
<1>10. LastingFirst'
  BY <1>4, <1>5 DEF SiteInv, LastingFirst
<1>11. KindSound'
  BY <1>4, <1>5, <1>6 DEF SiteInv, KindSound
<1>12. SetSound'
  <2>1. ASSUME NEW p \in 1 .. run.files, NEW e \in On(<<Kind, p>>) PROVE e \notin ToSet(run'.set)
    <3>1. ASSUME NEW i \in DOMAIN content[Kind], run.offset < i, e = content[Kind][i] PROVE FALSE
      <4>1. i <= run.offset
        BY <1>2, <1>5, <2>1, <3>1 DEF SiteInv, KindSound
      <4>2. content[Kind] \in Seq(Nat)
        BY <1>2
      <4>3. i \in Nat
        BY <4>2
      <4> QED BY <1>2, <3>1, <4>1, <4>3
    <3> QED BY <1>4, <3>1
  <2>2. ASSUME NEW i \in DOMAIN run.lasting[Kind], run.offset < i, i <= run.offset + URLsPerFile
        PROVE  run.lasting[Kind][i] \in ToSet(run'.set)
    <3>1. content[Kind] \in Seq(Nat) /\ run.lasting[Kind] \in Seq(Nat) /\ Len(run.lasting[Kind]) <= Len(content[Kind])
          /\ content[Kind][i] = run.lasting[Kind][i]
      BY <1>2, <1>5 DEF SiteInv, LastingFirst
    <3>2. i \in DOMAIN content[Kind]
      BY <3>1
    <3> QED BY <1>3, <1>4, <2>2, <3>1, <3>2
  <2>3. ASSUME NEW i \in DOMAIN content[Kind], content[Kind][i] \in ToSet(run'.set)
        PROVE  i <= run.offset + URLsPerFile
    <3>1. PICK j \in DOMAIN content[Kind] : j <= m /\ content[Kind][i] = content[Kind][j]
      BY <1>4, <2>3
    <3>2. i = j
      BY <1>2, <3>1 DEF SiteInv, EntriesApart, IsInjective
    <3>3. content[Kind] \in Seq(Nat)
      BY <1>2
    <3>4. i \in Nat
      BY <3>3
    <3> QED BY <1>2, <1>3, <3>1, <3>2, <3>4
  <2> QED BY <1>4, <1>5, <1>6, <2>1, <2>2, <2>3 DEF SetSound
<1>13. DoneSound' /\ ListedSound'
  <2>1. DoneSound'
    BY <1>4, <1>5, <1>6 DEF SiteInv, DoneSound, Counting, CountKey
  <2>2. ListedSound'
    BY <1>4 DEF ListedSound
  <2> QED BY <2>1, <2>2
<1> QED BY <1>6, <1>7, <1>8, <1>9, <1>10, <1>11, <1>12, <1>13 DEF SiteInv

\* What a run writes leaves the pages under other keys what they were, and what the index
\* names lasts no shorter.
LEMMA PagesStay ==
    ASSUME SiteInv, NEW key, NEW val, xml' = CacheSet(xml, key, val, CacheTTL), run'.start = run.start,
           NEW l, NEW n, PagesSound(l, n), \A p \in 1 .. n : key # <<l, p>>
    PROVE  /\ \A p \in 1 .. n : On(<<l, p>>)' = On(<<l, p>>)
           /\ \A p \in 1 .. n : Fresh(<<l, p>>)'
           /\ \A p, q \in 1 .. n : p # q => On(<<l, p>>)' \cap On(<<l, q>>)' = {}
<1>1. \A p \in 1 .. n : <<l, p>> \in DOMAIN xml /\ Fresh(<<l, p>>)
  BY DEF PagesSound, Fresh, Lasts
<1>2. \A p \in 1 .. n : On(<<l, p>>)' = On(<<l, p>>)
  BY <1>1, SetEntry DEF On
<1>3. \A p \in 1 .. n : Fresh(<<l, p>>)'
  BY <1>1, SetKeepsFresh
<1> QED BY <1>2, <1>3 DEF PagesSound

LEMMA IndexStays ==
    ASSUME SiteInv, NEW key, NEW val, xml' = CacheSet(xml, key, val, CacheTTL), key # IndexKey,
           run'.start = run.start, UNCHANGED <<clock, outcome>>, run.pc # "idle", run'.pc # "idle"
    PROVE  IndexSound' /\ InTime'
<1>1. InTime'
  BY DEF SiteInv, InTime
<1>2. /\ DOMAIN xml' = DOMAIN xml \cup {key}
      /\ xml'[key].exp = 0 \/ xml'[key].exp = clock + CacheTTL
      /\ \A other \in DOMAIN xml : other # key => xml'[other] = xml[other]
  BY SetEntry
<1>3. /\ clock \in Nat /\ run.start \in Nat /\ run.start <= clock /\ CacheTTL \in Nat
      /\ Interval \in Nat /\ outcome.failed \in Nat
  BY SitemapAssumption DEF SiteInv, SiteTyped, SitemapTypeOK, Runs, InTime
<1>4. (outcome.failed + 1) * Interval \in Nat
  BY <1>3
<1>5. IndexSound'
  <2> SUFFICES ASSUME outcome.ok PROVE IndexSound'
    BY DEF IndexSound
  <2>1. /\ IndexKey \in DOMAIN xml
        /\ \A name \in {IndexKey} \cup ToSet(xml[IndexKey].val) :
              /\ name \in DOMAIN xml
              /\ xml[name].exp = 0 \/ run.start + CacheTTL <= xml[name].exp + (outcome.failed + 1) * Interval
    BY DEF SiteInv, IndexSound
  <2>2. IndexKey \in DOMAIN xml' /\ xml'[IndexKey] = xml[IndexKey]
    BY <1>2, <2>1
  <2>3. ASSUME NEW name \in {IndexKey} \cup ToSet(xml[IndexKey].val)
        PROVE  /\ name \in DOMAIN xml'
               /\ xml'[name].exp = 0 \/ run.start + CacheTTL <= xml'[name].exp + (outcome.failed + 1) * Interval
    <3>1. CASE name = key
      <4>1. run.start + CacheTTL <= clock + CacheTTL + (outcome.failed + 1) * Interval
        BY <1>3, <1>4
      <4> QED BY <1>2, <3>1, <4>1
    <3>2. CASE name # key
      BY <1>2, <2>1, <3>2
    <3> QED BY <3>1, <3>2
  <2> QED BY <2>2, <2>3 DEF IndexSound, IndexKey, PageName
<1> QED BY <1>1, <1>5

\* The set becomes the next page: none of it was on a page before.
LEMMA WriteSound == SiteInv /\ WritePage => SiteInv'
<1> SUFFICES ASSUME SiteInv, WritePage PROVE SiteInv'
  OBVIOUS
<1>1. /\ run.pc = "write" /\ UNCHANGED <<clock, content, lastId, outcome>>
      /\ run' = [run EXCEPT !.files = run.files + 1, !.offset = run.offset + URLsPerFile, !.set = <<>>,
                            !.pc = IF run.offset + URLsPerFile < run.total THEN "page" ELSE "setcount"]
  BY DEF WritePage, NextOffset, MorePages, NoSet
<1>2. /\ content \in [Sources -> Seq(Nat)] /\ run \in Runs /\ run.lasting \in [Sources -> Seq(Nat)]
      /\ run.todo # <<>> /\ Kind \in ToSet(Kinds) /\ Kind \in ToSet(run.todo)
      /\ URLsPerFile \in Nat \ {0} /\ run.files \in Nat /\ run.offset \in Nat /\ run.total \in Nat
      /\ run.set \in Seq(Nat)
  <2>1. run.todo # <<>> /\ run.todo \in Seq(ToSet(Kinds)) /\ run \in Runs
    BY <1>1 DEF SiteInv, SiteTyped, Phases, Counting, Runs
  <2>2. 1 \in DOMAIN run.todo /\ Kind = run.todo[1]
    BY <2>1 DEF Kind
  <2>3. Kind \in ToSet(run.todo)
    BY <2>2 DEF ToSet
  <2> QED BY <1>1, <2>1, <2>3, Heads, SitemapAssumption DEF SiteInv, SiteTyped, SitemapTypeOK, Runs
<1>3. /\ run' \in Runs /\ run'.pc \in {"page", "setcount"} /\ run'.todo = run.todo /\ run'.start = run.start
      /\ run'.files = run.files + 1 /\ run'.offset = run.offset + URLsPerFile /\ run'.total = run.total
      /\ run'.listed = run.listed /\ run'.lasting = run.lasting
      /\ run'.pc = "page" <=> run.offset + URLsPerFile < run.total
  <2>1. <<>> \in Seq(Nat) /\ run.files + 1 \in Nat /\ run.offset + URLsPerFile \in Nat
    BY <1>2
  <2> QED BY <1>1, <1>2, <2>1 DEF Runs
<1>0. PICK kind, n, page : kind = Kind /\ n = run.files /\ page = <<kind, n + 1>>
  OBVIOUS
<1>4. /\ run.pc = "write" /\ UNCHANGED <<clock, content, lastId, outcome>> /\ Kind' = kind
      /\ xml' = CacheSet(xml, page, run.set, CacheTTL)
      /\ page # IndexKey /\ page \in Names /\ page[1] = kind /\ page[2] # 0
      /\ \A k : page # CountKey(k)
  <2>1. run.files + 1 \in Nat /\ run.files + 1 # 0
    BY <1>2
  <2>2. PageName(Kind, run.files + 1) = page
    BY <1>0, <2>1, Keys
  <2>3. xml' = CacheSet(xml, page, run.set, CacheTTL)
    BY <2>2 DEF WritePage
  <2>4. page # IndexKey /\ page \in Names /\ page[1] = kind /\ page[2] # 0
    BY <1>0, <1>2, <2>1, Keys
  <2>5. \A k : page # CountKey(k)
    BY <1>0, <2>1 DEF CountKey
  <2> QED BY <1>0, <1>1, <1>3, <2>3, <2>4, <2>5 DEF Kind
<1> HIDE <1>1
<1>5. /\ DOMAIN xml' = DOMAIN xml \cup {page}
      /\ xml'[page].val = run.set /\ xml'[page].exp \in Nat
      /\ \A other \in DOMAIN xml : other # page => xml'[other] = xml[other]
      /\ Fresh(page)' /\ \A other : Fresh(other) => Fresh(other)'
  BY <1>3, <1>4, SetEntry, SetKeepsFresh
<1>6. IndexSound' /\ InTime'
  BY <1>3, <1>4, IndexStays
<1>7. On(page)' = ToSet(run.set) /\ \A other \in DOMAIN xml : other # page => On(other)' = On(other)
  BY <1>5 DEF On
<1>8. SiteTyped'
  <2>1. IndexKey' = IndexKey
    BY DEF IndexKey, PageName
  <2>2. \A key \in DOMAIN xml' : key \in Names /\ xml'[key].exp \in Nat
    BY <1>4, <1>5 DEF SiteInv, SiteTyped, SitemapTypeOK
  <2>3. SitemapTypeOK'
    BY <1>3, <1>4, <2>2 DEF SiteInv, SiteTyped, SitemapTypeOK, Runs
  <2>4. ASSUME NEW key \in DOMAIN xml'
        PROVE  /\ key # IndexKey => key[1] \in ToSet(Kinds)
               /\ key = IndexKey => xml'[key].val \in Seq(Names)
               /\ key # IndexKey /\ key[2] # 0 => xml'[key].val \in Seq(Nat)
               /\ key # IndexKey /\ key[2] = 0 => xml'[key].val \in Nat
    <3>1. CASE key = page
      BY <1>0, <1>2, <1>4, <1>5, <3>1
    <3>2. CASE key # page
      BY <1>5, <3>2 DEF SiteInv, SiteTyped
    <3> QED BY <3>1, <3>2
  <2> QED BY <1>2, <1>3, <2>1, <2>3, <2>4 DEF SiteTyped
<1>9. Phases'
  <2>1. run'.pc = "page" => Kind \in Sources
    <3>1. run.pc = "write" /\ Kind \notin Sources => run.total <= run.offset + URLsPerFile
      BY DEF SiteInv, Phases
    <3>2. run.total <= run.offset + URLsPerFile => ~ (run.offset + URLsPerFile < run.total)
      BY <1>2
    <3> QED BY <1>0, <1>3, <1>4, <3>1, <3>2
  <2> QED BY <1>0, <1>2, <1>3, <1>4, <2>1 DEF SiteInv, Phases, Counting
<1>10. EntriesApart'
  <2>1. ASSUME NEW k \in ToSet(Kinds), NEW e, Has(k, e)' PROVE Has(k, e)
    <3>1. CASE k \in Sources /\ e \in ToSet(content'[k])
      BY <1>4, <3>1 DEF Has
    <3>2. ASSUME NEW key \in PagesOf(k)', e \in On(key)' PROVE Has(k, e)
      <4>1. CASE key = page
        <5>1. k = Kind
          BY <1>0, <1>4, <3>2, <4>1 DEF PagesOf
        <5> QED BY <1>4, <1>7, <3>2, <4>1, <5>1 DEF Has
      <4>2. CASE key # page
        BY <1>5, <1>7, <3>2, <4>2 DEF Has, PagesOf
      <4> QED BY <4>1, <4>2
    <3> QED BY <1>3, <2>1, <3>1, <3>2 DEF Has
  <2> QED BY <1>4, <2>1, StayApart DEF SiteInv, EntriesApart
<1>11. LastingFirst'
  BY <1>3, <1>4 DEF SiteInv, LastingFirst
<1>12. \A p \in 1 .. (n + 1) : p = n + 1 \/ (p \in 1 .. n /\ <<kind, p>> # page)
  BY <1>0, <1>2
<1>13. /\ \A p \in 1 .. n : On(<<kind, p>>)' = On(<<kind, p>>) /\ Fresh(<<kind, p>>)'
       /\ \A p, q \in 1 .. n : p # q => On(<<kind, p>>)' \cap On(<<kind, q>>)' = {}
       /\ \A p \in 1 .. n : <<kind, p>> # page
  <2>1. \A p \in 1 .. n : <<kind, p>> # page
    BY <1>0, <1>2
  <2>2. PagesSound(kind, n)
    BY <1>0, <1>4 DEF SiteInv, KindSound
  <2> QED BY <1>3, <1>4, <2>1, <2>2, PagesStay
<1>14. KindSound'
  <2>1. \A p \in 1 .. (n + 1) : Fresh(<<kind, p>>)'
    BY <1>0, <1>5, <1>12, <1>13
  <2>2. \A p \in 1 .. n : On(<<kind, p>>)' \cap On(page)' = {}
    <3>1. CASE kind \in Sources
      BY <1>0, <1>4, <1>7, <1>13, <3>1 DEF SiteInv, SetSound
    <3>2. CASE kind \notin Sources
      <4>1. \A e : e \notin ToSet(run.set)
        BY <1>0, <1>2, <1>4, <3>2 DEF SiteInv, EntriesApart, Has
      <4> QED BY <1>7, <4>1
    <3> QED BY <3>1, <3>2
  <2>3. ASSUME NEW p \in 1 .. (n + 1), NEW q \in 1 .. (n + 1), p # q
        PROVE  On(<<kind, p>>)' \cap On(<<kind, q>>)' = {}
    BY <1>0, <1>12, <1>13, <2>2, <2>3
  <2>4. ASSUME kind \in Sources, NEW i \in DOMAIN run.lasting[kind], i <= run.offset + URLsPerFile
        PROVE  \E p \in 1 .. (n + 1) : run.lasting[kind][i] \in On(<<kind, p>>)'
    <3>1. n + 1 \in 1 .. (n + 1) /\ \A p \in 1 .. n : p \in 1 .. (n + 1)
      BY <1>0, <1>2
    <3>2. CASE i <= run.offset
      <4>1. PICK p \in 1 .. n : run.lasting[kind][i] \in On(<<kind, p>>)
        BY <1>0, <1>4, <2>4, <3>2 DEF SiteInv, KindSound, Covered
      <4> QED BY <1>13, <3>1, <4>1
    <3>3. CASE ~ (i <= run.offset)
      <4>1. run.lasting[kind] \in Seq(Nat)
        BY <1>2, <2>4
      <4>2. run.offset < i
        BY <1>2, <3>3, <4>1
      <4>3. run.lasting[kind][i] \in ToSet(run.set)
        BY <1>0, <1>4, <2>4, <4>2 DEF SiteInv, SetSound
      <4> QED BY <1>0, <1>7, <3>1, <4>3
    <3> QED BY <3>2, <3>3
  <2>5. ASSUME kind \in Sources, NEW p \in 1 .. (n + 1), NEW i \in DOMAIN content[kind],
               content[kind][i] \in On(<<kind, p>>)'
        PROVE  i <= run.offset + URLsPerFile
    <3>1. content[kind] \in Seq(Nat)
      BY <1>2, <2>5
    <3>2. i \in Nat /\ run.offset \in Nat /\ URLsPerFile \in Nat
      BY <1>2, <3>1
    <3>3. CASE p = n + 1
      BY <1>0, <1>4, <1>7, <2>5, <3>3 DEF SiteInv, SetSound
    <3>4. CASE p \in 1 .. n
      <4>1. i <= run.offset
        BY <1>0, <1>4, <1>13, <2>5, <3>4 DEF SiteInv, KindSound
      <4> QED BY <3>2, <4>1
    <3> QED BY <1>12, <3>3, <3>4
  <2>6. kind \in Sources => Len(run.lasting[kind]) <= run.total
    BY <1>0, <1>4 DEF SiteInv, KindSound
  <2>7. run'.pc = "setcount" => run.total <= run.offset + URLsPerFile
    BY <1>2, <1>3
  <2>8. PagesSound(kind, run.files)' /\ Covered(kind, run.files, run.offset)'
    BY <1>0, <1>3, <1>4, <2>1, <2>3, <2>4 DEF PagesSound, Covered
  <2> QED BY <1>0, <1>3, <1>4, <2>5, <2>6, <2>7, <2>8 DEF KindSound
<1>15. SetSound' /\ ListedSound'
  BY <1>3 DEF SetSound, ListedSound
<1>16. DoneSound'
  <2> SUFFICES ASSUME run'.pc # "idle", NEW l \in ToSet(Kinds), ~ Counting' \/ l \notin ToSet(run'.todo)
               PROVE  (/\ Fresh(CountKey(l))
                       /\ PagesSound(l, xml[CountKey(l)].val)
                       /\ l \in Sources => Covered(l, xml[CountKey(l)].val, Len(run.lasting[l])))'
    BY DEF DoneSound
  <2>1. l \notin ToSet(run.todo) /\ l # Kind
    BY <1>2, <1>3 DEF Counting
  <2>2. PICK m : m = xml[CountKey(l)].val
    OBVIOUS
  <2>3. /\ Fresh(CountKey(l)) /\ PagesSound(l, m)
        /\ l \in Sources => Covered(l, m, Len(run.lasting[l]))
    BY <1>4, <2>1, <2>2 DEF SiteInv, DoneSound
  <2>4. xml'[CountKey(l)'].val = m
    BY <1>4, <1>5, <2>2, <2>3 DEF Fresh, Lasts, CountKey
  <2>5. \A p \in 1 .. m : <<l, p>> # page
    BY <1>0, <2>1
  <2>6. /\ \A p \in 1 .. m : On(<<l, p>>)' = On(<<l, p>>) /\ Fresh(<<l, p>>)'
        /\ \A p, q \in 1 .. m : p # q => On(<<l, p>>)' \cap On(<<l, q>>)' = {}
    BY <1>3, <1>4, <2>3, <2>5, PagesStay
  <2>7. l \in Sources => \A i \in DOMAIN run.lasting[l] :
            i <= Len(run.lasting[l]) => \E p \in 1 .. m : run.lasting[l][i] \in On(<<l, p>>)'
    BY <2>3, <2>6 DEF Covered
  <2>8. Fresh(CountKey(l))'
    BY <1>5, <2>3 DEF CountKey
  <2>9. PagesSound(l, xml[CountKey(l)].val)'
    BY <2>4, <2>6 DEF PagesSound
  <2>10. l \in Sources => Covered(l, xml[CountKey(l)].val, Len(run.lasting[l]))'
    BY <1>3, <2>4, <2>7 DEF Covered
  <2> QED BY <2>8, <2>9, <2>10
<1> QED BY <1>6, <1>8, <1>9, <1>10, <1>11, <1>14, <1>15, <1>16 DEF SiteInv

\* The count of the kind says how many pages it has; it is dealt with.
LEMMA SetCountSound == SiteInv /\ SetPageCount => SiteInv'
<1> SUFFICES ASSUME SiteInv, SetPageCount PROVE SiteInv'
  OBVIOUS
<1>1. PICK kind, n, key : kind = Kind /\ n = run.files /\ key = <<kind, 0>>
  OBVIOUS
<1>2. /\ content \in [Sources -> Seq(Nat)] /\ run \in Runs /\ run.lasting \in [Sources -> Seq(Nat)]
      /\ run.todo # <<>> /\ kind \in ToSet(Kinds) /\ n \in Nat /\ run.listed = <<>>
      /\ Tail(run.todo) \in Seq(ToSet(Kinds)) /\ IsInjective(Tail(run.todo))
      /\ ToSet(Tail(run.todo)) = ToSet(run.todo) \ {kind}
      /\ Kinds # <<>> /\ Kinds \in Seq(ToSet(Kinds)) /\ IsInjective(Kinds)
  <2>1. run.pc = "setcount" /\ run.todo # <<>> /\ run.listed = <<>>
    BY DEF SetPageCount, SiteInv, Phases, Counting
  <2>2. Kind \in ToSet(Kinds)
    BY <2>1, Heads
  <2>3. Kinds # <<>> /\ Kinds \in Seq(ToSet(Kinds))
    BY <2>2, SitemapAssumption DEF ToSet
  <2> QED BY <1>1, <2>1, <2>3, Heads, SitemapAssumption DEF SiteInv, SiteTyped, SitemapTypeOK, Runs
<1>3. /\ run.pc = "setcount" /\ UNCHANGED <<clock, content, lastId, outcome>>
      /\ xml' = CacheSet(xml, key, n, CacheTTL)
      /\ key # IndexKey /\ key \in Names /\ key[1] = kind /\ key[2] = 0
      /\ \A k, p : key = <<k, p>> => p = 0
  BY <1>1, <1>2, Keys DEF SetPageCount, CountKey, PageCount
<1>4. /\ run' \in Runs /\ run'.pc \in {"count", "getcount"} /\ run'.start = run.start
      /\ run'.files = 0 /\ run'.listed = run.listed /\ run'.lasting = run.lasting
      /\ run'.todo # <<>> /\ IsInjective(run'.todo)
      /\ run'.pc = "count" => ToSet(run'.todo) = ToSet(run.todo) \ {kind}
      /\ run'.pc = "getcount" => run'.todo = Kinds /\ ToSet(run.todo) \subseteq {kind}
  <2>1. CASE Tail(run.todo) # <<>>
    <3>1. run' = [run EXCEPT !.total = 0, !.offset = 0, !.files = 0, !.todo = Tail(run.todo), !.pc = "count"]
      BY <1>2, <2>1 DEF SetPageCount, NextKind, Runs
    <3> QED BY <1>2, <2>1, <3>1 DEF Runs
  <2>2. CASE Tail(run.todo) = <<>>
    <3>1. run' = [run EXCEPT !.total = 0, !.offset = 0, !.files = 0, !.todo = Kinds, !.pc = "getcount"]
      BY <1>2, <2>2 DEF SetPageCount, NextKind, Runs
    <3>2. ToSet(run.todo) \subseteq {kind}
      <4>1. ToSet(Tail(run.todo)) = {}
        BY <2>2 DEF ToSet
      <4> QED BY <1>2, <4>1
    <3> QED BY <1>2, <3>1, <3>2 DEF Runs
  <2> QED BY <2>1, <2>2
<1>5. /\ DOMAIN xml' = DOMAIN xml \cup {key}
      /\ xml'[key].val = n /\ xml'[key].exp \in Nat
      /\ \A other \in DOMAIN xml : other # key => xml'[other] = xml[other]
      /\ Fresh(key)' /\ \A other : Fresh(other) => Fresh(other)'
  BY <1>3, <1>4, SetEntry, SetKeepsFresh
<1>6. IndexSound' /\ InTime'
  BY <1>3, <1>4, IndexStays
<1>7. \A other \in DOMAIN xml : other # key => On(other)' = On(other)
  BY <1>5 DEF On
<1>8. SiteTyped'
  <2>1. IndexKey' = IndexKey
    BY DEF IndexKey, PageName
  <2>2. \A other \in DOMAIN xml' : other \in Names /\ xml'[other].exp \in Nat
    BY <1>3, <1>5 DEF SiteInv, SiteTyped, SitemapTypeOK
  <2>3. SitemapTypeOK'
    BY <1>3, <1>4, <2>2 DEF SiteInv, SiteTyped, SitemapTypeOK, Runs
  <2>4. ASSUME NEW other \in DOMAIN xml'
        PROVE  /\ other # IndexKey => other[1] \in ToSet(Kinds)
               /\ other = IndexKey => xml'[other].val \in Seq(Names)
               /\ other # IndexKey /\ other[2] # 0 => xml'[other].val \in Seq(Nat)
               /\ other # IndexKey /\ other[2] = 0 => xml'[other].val \in Nat
    <3>1. CASE other = key
      BY <1>2, <1>3, <1>5, <3>1
    <3>2. CASE other # key
      BY <1>5, <3>2 DEF SiteInv, SiteTyped
    <3> QED BY <3>1, <3>2
  <2> QED BY <1>2, <1>4, <2>1, <2>3, <2>4 DEF SiteTyped
<1>9. Phases'
  BY <1>2, <1>4 DEF Phases, Counting
<1>10. EntriesApart'
  <2>1. ASSUME NEW k \in ToSet(Kinds), NEW e, Has(k, e)' PROVE Has(k, e)
    <3>1. CASE k \in Sources /\ e \in ToSet(content'[k])
      BY <1>3, <3>1 DEF Has
    <3>2. ASSUME NEW other \in PagesOf(k)', e \in On(other)' PROVE Has(k, e)
      BY <1>3, <1>5, <1>7, <3>2 DEF Has, PagesOf
    <3> QED BY <1>4, <2>1, <3>1, <3>2 DEF Has
  <2> QED BY <1>3, <2>1, StayApart DEF SiteInv, EntriesApart
<1>11. LastingFirst'
  BY <1>3, <1>4 DEF SiteInv, LastingFirst
<1>12. KindSound' /\ SetSound'
  BY <1>4 DEF KindSound, SetSound
<1>13. ListedSound'
  <2>1. run.listed = <<>> /\ ToSet(run.listed) = {}
    BY <1>2 DEF ToSet
  <2> QED BY <1>4, <2>1 DEF ListedSound
<1>14. DoneSound'
  <2> SUFFICES ASSUME run'.pc # "idle", NEW l \in ToSet(Kinds), ~ Counting' \/ l \notin ToSet(run'.todo)
               PROVE  (/\ Fresh(CountKey(l))
                       /\ PagesSound(l, xml[CountKey(l)].val)
                       /\ l \in Sources => Covered(l, xml[CountKey(l)].val, Len(run.lasting[l])))'
    BY DEF DoneSound
  <2>1. l \notin ToSet(run.todo) \/ l = kind
    BY <1>4 DEF Counting
  <2>2. PICK m : m = IF l = kind THEN n ELSE xml[CountKey(l)].val
    OBVIOUS
  <2>3. /\ Fresh(CountKey(l))' /\ xml'[CountKey(l)'].val = m
        /\ PagesSound(l, m)
        /\ l \in Sources => Covered(l, m, Len(run.lasting[l]))
    <3>1. CASE l = kind
      <4>1. /\ PagesSound(kind, n) /\ Covered(kind, n, run.offset) /\ run.total <= run.offset
            /\ kind \in Sources => Len(run.lasting[kind]) <= run.total
        BY <1>1, <1>3 DEF SiteInv, KindSound
      <4>2. ASSUME kind \in Sources PROVE Covered(kind, n, Len(run.lasting[kind]))
        <5>1. run.lasting[kind] \in Seq(Nat) /\ run.offset \in Nat /\ run.total \in Nat
          BY <1>2, <4>2 DEF Runs
        <5>2. \A i \in DOMAIN run.lasting[kind] : i \in Nat /\ i <= Len(run.lasting[kind])
          BY <5>1
        <5>3. \A i \in DOMAIN run.lasting[kind] : i <= run.offset
          BY <4>1, <4>2, <5>1, <5>2
        <5> QED BY <4>1, <5>3 DEF Covered
      <4>3. CountKey(l)' = key
        BY <1>1, <3>1 DEF CountKey
      <4>4. Fresh(CountKey(l))'
        BY <1>1, <1>5, <3>1 DEF CountKey
      <4> QED BY <1>5, <2>2, <3>1, <4>1, <4>2, <4>3, <4>4
    <3>2. CASE l # kind
      <4>1. /\ Fresh(CountKey(l)) /\ PagesSound(l, m)
            /\ l \in Sources => Covered(l, m, Len(run.lasting[l]))
        BY <1>3, <2>1, <2>2, <3>2 DEF SiteInv, DoneSound
      <4>2. CountKey(l) # key /\ CountKey(l)' = CountKey(l)
        BY <1>1, <3>2 DEF CountKey
      <4>3. Fresh(CountKey(l))'
        BY <1>5, <4>1, <4>2
      <4>4. xml'[CountKey(l)] = xml[CountKey(l)]
        BY <1>5, <4>1, <4>2 DEF Fresh, Lasts
      <4> QED BY <2>2, <3>2, <4>1, <4>2, <4>3, <4>4
    <3> QED BY <3>1, <3>2
  <2>4. \A p \in 1 .. m : <<l, p>> # key
    BY <1>3
  <2>5. /\ \A p \in 1 .. m : On(<<l, p>>)' = On(<<l, p>>) /\ Fresh(<<l, p>>)'
        /\ \A p, q \in 1 .. m : p # q => On(<<l, p>>)' \cap On(<<l, q>>)' = {}
    BY <1>3, <1>4, <2>3, <2>4, PagesStay
  <2>6. l \in Sources => \A i \in DOMAIN run.lasting[l] :
            i <= Len(run.lasting[l]) => \E p \in 1 .. m : run.lasting[l][i] \in On(<<l, p>>)'
    BY <2>3, <2>5 DEF Covered
  <2>7. PagesSound(l, xml[CountKey(l)].val)'
    BY <2>3, <2>5 DEF PagesSound
  <2>8. l \in Sources => Covered(l, xml[CountKey(l)].val, Len(run.lasting[l]))'
    BY <1>4, <2>3, <2>6 DEF Covered
  <2> QED BY <2>3, <2>7, <2>8
<1> QED BY <1>6, <1>8, <1>9, <1>10, <1>11, <1>12, <1>13, <1>14 DEF SiteInv

\* What is there for the run is found.
LEMMA FreshHit ==
    ASSUME SiteInv, run.pc # "idle", NEW key, Fresh(key)
    PROVE  Hit(xml, key)
<1>1. /\ clock \in Nat /\ run.start \in Nat /\ RunTime \in Nat /\ Interval \in Nat /\ MaxFailures \in Nat
      /\ CacheTTL \in Nat /\ CacheTTL >= (MaxFailures + 1) * Interval + RunTime
      /\ clock <= run.start + RunTime
  BY SitemapAssumption DEF SiteInv, SiteTyped, SitemapTypeOK, Runs, InTime
<1>2. (MaxFailures + 1) * Interval \in Nat
  BY <1>1
<1>3. clock <= run.start + CacheTTL
  BY <1>1, <1>2
<1>4. key \in DOMAIN xml /\ (xml[key].exp = 0 \/ run.start + CacheTTL <= xml[key].exp)
  BY DEF Fresh, Lasts
<1>5. xml[key].exp \in Nat
  BY <1>4 DEF SiteInv, SiteTyped, SitemapTypeOK
<1> QED BY <1>1, <1>3, <1>4, <1>5 DEF Hit

\* The pages of a kind are added to the index's.
LEMMA ReadSound == SiteInv /\ ReadCount => SiteInv'
<1> SUFFICES ASSUME SiteInv, ReadCount PROVE SiteInv'
  OBVIOUS
<1>1. PICK kind, n : kind = Kind /\ n = xml[CountKey(Kind)].val
  OBVIOUS
<1>2. /\ run.pc = "getcount" /\ UNCHANGED <<clock, content, lastId, xml, outcome>>
      /\ run' = [run EXCEPT !.listed = run.listed \o [p \in 1 .. StoredCount(Kind) |-> PageName(Kind, p)],
                            !.todo = Tail(run.todo),
                            !.pc = IF Tail(run.todo) = <<>> THEN "index" ELSE "getcount"]
  BY DEF ReadCount
<1>3. /\ content \in [Sources -> Seq(Nat)] /\ run \in Runs /\ run.lasting \in [Sources -> Seq(Nat)]
      /\ run.todo # <<>> /\ kind \in ToSet(Kinds)
      /\ Tail(run.todo) \in Seq(ToSet(Kinds)) /\ IsInjective(Tail(run.todo))
      /\ ToSet(Tail(run.todo)) = ToSet(run.todo) \ {kind}
  BY <1>1, <1>2, Heads, Keys DEF SiteInv, SiteTyped, SitemapTypeOK, Phases
<1>4. Fresh(CountKey(kind)) /\ n \in Nat /\ StoredCount(kind) = n
  <2>1. Fresh(CountKey(kind))
    BY <1>2, <1>3 DEF SiteInv, DoneSound, Counting
  <2>2. Hit(xml, CountKey(kind))
    BY <1>2, <2>1, FreshHit
  <2>3. CountKey(kind) # IndexKey /\ CountKey(kind)[2] = 0
    BY Keys DEF CountKey
  <2> QED BY <1>1, <2>1, <2>2, <2>3 DEF StoredCount, Hit, SiteInv, SiteTyped
<1>5. PICK new \in Seq(Names) :
            /\ run'.listed = run.listed \o new
            /\ \A name : name \in ToSet(new) <=> \E p \in 1 .. n : name = <<kind, p>>
  <2> DEFINE new == [p \in 1 .. n |-> <<kind, p>>]
  <2>1. \A p \in 1 .. n : PageName(kind, p) = <<kind, p>> /\ <<kind, p>> \in Names
    <3>1. \A p \in 1 .. n : p \in Nat /\ p # 0
      BY <1>4
    <3>2. \A p \in Nat : p # 0 => PageName(kind, p) = <<kind, p>>
      BY Keys
    <3>3. \A p \in Nat : <<kind, p>> \in Names
      BY <1>3, Keys
    <3> QED BY <3>1, <3>2, <3>3
  <2>2. new = [p \in 1 .. StoredCount(Kind) |-> PageName(Kind, p)]
    BY <1>1, <1>4, <2>1
  <2>3. new \in Seq(Names) /\ DOMAIN new = 1 .. n
    BY <1>4, <2>1
  <2>4. \A name : name \in ToSet(new) <=> \E p \in 1 .. n : name = <<kind, p>>
    BY <2>3 DEF ToSet
  <2>5. run'.listed = run.listed \o new
    BY <1>2, <1>3, <2>2 DEF Runs
  <2> HIDE DEF new
  <2> QED BY <2>3, <2>4, <2>5
<1>6. /\ run' \in Runs /\ run'.start = run.start /\ run'.lasting = run.lasting
      /\ run'.todo = Tail(run.todo) /\ run'.pc = IF Tail(run.todo) = <<>> THEN "index" ELSE "getcount"
      /\ \A name : name \in ToSet(run'.listed) <=> name \in ToSet(run.listed) \/ name \in ToSet(new)
  <2>1. run.listed \in Seq(Names)
    BY <1>3 DEF Runs
  <2>2. PICK old \in Seq(Names) : old = run.listed
    BY <2>1
  <2>3. old \o new \in Seq(Names)
    OBVIOUS
  <2>4. \A name : name \in ToSet(old \o new) <=> name \in ToSet(old) \/ name \in ToSet(new)
    <3>1. /\ DOMAIN (old \o new) = 1 .. (Len(old) + Len(new)) /\ DOMAIN old = 1 .. Len(old) /\ DOMAIN new = 1 .. Len(new)
          /\ Len(old) \in Nat /\ Len(new) \in Nat
          /\ \A i \in 1 .. (Len(old) + Len(new)) :
                (old \o new)[i] = IF i <= Len(old) THEN old[i] ELSE new[i - Len(old)]
      OBVIOUS
    <3>2. ASSUME NEW i \in DOMAIN (old \o new)
          PROVE  (old \o new)[i] \in ToSet(old) \/ (old \o new)[i] \in ToSet(new)
      BY <3>1 DEF ToSet
    <3>3. ASSUME NEW i \in DOMAIN old PROVE i \in DOMAIN (old \o new) /\ (old \o new)[i] = old[i]
      BY <3>1
    <3>4. ASSUME NEW i \in DOMAIN new
          PROVE  Len(old) + i \in DOMAIN (old \o new) /\ (old \o new)[Len(old) + i] = new[i]
      <4>1. Len(old) + i \in 1 .. (Len(old) + Len(new)) /\ ~ (Len(old) + i <= Len(old)) /\ Len(old) + i - Len(old) = i
        BY <3>1
      <4> QED BY <3>1, <4>1
    <3> QED BY <3>2, <3>3, <3>4 DEF ToSet
  <2>5. run'.listed = old \o new
    BY <1>5, <2>2
  <2> QED BY <1>2, <1>3, <2>2, <2>3, <2>4, <2>5 DEF Runs
<1> HIDE <1>2
<1>7. run.pc = "getcount" /\ UNCHANGED <<clock, content, lastId, xml, outcome>> /\ run'.pc \in {"getcount", "index"}
  BY <1>2, <1>6
<1>8. /\ \A k : PagesOf(k)' = PagesOf(k)
      /\ \A key : On(key)' = On(key) /\ (Fresh(key)' <=> Fresh(key))
      /\ \A k, m : PagesSound(k, m)' <=> PagesSound(k, m)
      /\ \A k, m, j : Covered(k, m, j)' <=> Covered(k, m, j)
      /\ IndexSound' /\ InTime'
  BY <1>6, <1>7, CacheStays
<1>9. SiteTyped'
  BY <1>3, <1>6, <1>7 DEF SiteInv, SiteTyped, SitemapTypeOK, Runs, IndexKey, PageName
<1>10. Phases'
  BY <1>3, <1>6, <1>7 DEF Phases, Counting
<1>11. EntriesApart'
  <2>1. \A k \in ToSet(Kinds) : \A e : Has(k, e)' => Has(k, e)
    BY <1>6, <1>7, <1>8 DEF Has
  <2> QED BY <1>7, <2>1, StayApart DEF SiteInv, EntriesApart
<1>12. LastingFirst' /\ KindSound' /\ SetSound'
  BY <1>6, <1>7 DEF SiteInv, LastingFirst, KindSound, SetSound
<1>13. DoneSound'
  BY <1>6, <1>7, <1>8 DEF SiteInv, DoneSound, Counting, CountKey
<1>14. ListedSound'
  <2>1. \A k : CountKey(k)' = CountKey(k)
    BY DEF CountKey
  <2>2. ASSUME NEW k \in ToSet(Kinds), k \notin ToSet(run'.todo), NEW p \in 1 .. xml[CountKey(k)].val
        PROVE  <<k, p>> \in ToSet(run'.listed)
    <3>1. CASE k = kind
      BY <1>1, <1>5, <1>6, <2>2, <3>1
    <3>2. CASE k # kind
      <4>1. k \notin ToSet(run.todo)
        BY <1>3, <1>6, <2>2, <3>2
      <4> QED BY <1>6, <1>7, <2>2, <4>1 DEF SiteInv, ListedSound
    <3> QED BY <3>1, <3>2
  <2>3. ASSUME NEW name \in ToSet(run'.listed)
        PROVE  \E k \in ToSet(Kinds) : /\ k \notin ToSet(run'.todo)
                                      /\ \E p \in 1 .. xml[CountKey(k)].val : name = <<k, p>>
    <3>1. CASE name \in ToSet(new)
      <4>1. kind \notin ToSet(run'.todo) /\ \E p \in 1 .. xml[CountKey(kind)].val : name = <<kind, p>>
        BY <1>1, <1>3, <1>5, <1>6, <3>1
      <4> QED BY <1>3, <4>1
    <3>2. CASE name \in ToSet(run.listed)
      BY <1>3, <1>6, <1>7, <3>2 DEF SiteInv, ListedSound
    <3> QED BY <1>6, <3>1, <3>2
  <2> QED BY <1>7, <2>1, <2>2, <2>3 DEF ListedSound
<1> QED BY <1>8, <1>9, <1>10, <1>11, <1>12, <1>13, <1>14 DEF SiteInv

\* The index is written, and all it names is of this run.
LEMMA IndexWritten == SiteInv /\ WriteIndex => SiteInv'
<1> SUFFICES ASSUME SiteInv, WriteIndex PROVE SiteInv'
  OBVIOUS
<1>1. /\ run.pc = "index" /\ UNCHANGED <<clock, content, lastId>>
      /\ xml' = CacheSet(xml, IndexKey, run.listed, CacheTTL)
      /\ run' = [pc |-> "idle", todo |-> <<>>, start |-> run.start, total |-> 0, offset |-> 0, files |-> 0,
                 set |-> <<>>, listed |-> <<>>, lasting |-> <<>>]
      /\ outcome' = [ok |-> TRUE, failed |-> 0]
  BY DEF WriteIndex, Ended, NoRun, NoSet
<1>2. /\ content \in [Sources -> Seq(Nat)] /\ run \in Runs /\ run.start \in Nat /\ clock \in Nat
      /\ run.start <= clock /\ clock <= run.start + RunTime
      /\ RunTime <= Interval /\ RunTime \in Nat /\ Interval \in Nat /\ CacheTTL \in Nat
  BY <1>1, SitemapAssumption DEF SiteInv, SiteTyped, SitemapTypeOK, Runs, InTime
<1>3. run' \in Runs /\ run'.pc = "idle" /\ run'.start = run.start /\ run'.todo = <<>>
  <2>1. <<>> \in Seq(Nat) /\ <<>> \in Seq(ToSet(Kinds)) /\ <<>> \in Seq(Names) /\ 0 \in Nat
    OBVIOUS
  <2> QED BY <1>1, <1>2, <2>1 DEF Runs
<1>4. /\ DOMAIN xml' = DOMAIN xml \cup {IndexKey}
      /\ xml'[IndexKey].val = run.listed /\ xml'[IndexKey].exp \in Nat
      /\ \A other \in DOMAIN xml : other # IndexKey => xml'[other] = xml[other]
      /\ Fresh(IndexKey)' /\ \A other : Fresh(other) => Fresh(other)'
  BY <1>1, <1>3, SetEntry, SetKeepsFresh DEF IndexKey, PageName
<1>5. SiteTyped'
  <2>1. IndexKey' = IndexKey /\ IndexKey \in Names
    <3>1. IndexKey' = IndexKey
      BY DEF IndexKey, PageName
    <3>2. <<"index", 1>> \in Names
      BY DEF Names
    <3>3. IndexKey = <<"index", 1>>
      BY Keys
    <3> QED BY <3>1, <3>2, <3>3
  <2>2. \A other \in DOMAIN xml' : other \in Names /\ xml'[other].exp \in Nat
    BY <1>4, <2>1 DEF SiteInv, SiteTyped, SitemapTypeOK
  <2>3. outcome' \in [ok : BOOLEAN, failed : 0 .. MaxFailures]
    BY <1>1, SitemapAssumption
  <2>4. SitemapTypeOK'
    BY <1>1, <1>3, <2>2, <2>3 DEF SiteInv, SiteTyped, SitemapTypeOK, Runs
  <2>5. ASSUME NEW other \in DOMAIN xml'
        PROVE  /\ other # IndexKey => other[1] \in ToSet(Kinds)
               /\ other = IndexKey => xml'[other].val \in Seq(Names)
               /\ other # IndexKey /\ other[2] # 0 => xml'[other].val \in Seq(Nat)
               /\ other # IndexKey /\ other[2] = 0 => xml'[other].val \in Nat
    <3>1. CASE other = IndexKey
      BY <1>2, <1>4, <3>1 DEF Runs
    <3>2. CASE other # IndexKey
      BY <1>4, <3>2 DEF SiteInv, SiteTyped
    <3> QED BY <3>1, <3>2
  <2> QED BY <1>3, <2>1, <2>4, <2>5 DEF SiteTyped
<1>6. InTime' /\ Phases'
  BY <1>1, <1>2, <1>3 DEF InTime, Phases, Counting, IsInjective
<1>7. EntriesApart'
  <2>1. ASSUME NEW k \in ToSet(Kinds), NEW e, Has(k, e)' PROVE Has(k, e)
    <3>1. CASE k \in Sources /\ e \in ToSet(content'[k])
      BY <1>1, <3>1 DEF Has
    <3>2. ASSUME NEW key \in PagesOf(k)', e \in On(key)' PROVE Has(k, e)
      <4>1. key # IndexKey
        BY <3>2, Keys DEF PagesOf
      <4> QED BY <1>4, <3>2, <4>1 DEF Has, PagesOf, On
    <3> QED BY <1>3, <2>1, <3>1, <3>2 DEF Has
  <2> QED BY <1>1, <2>1, StayApart DEF SiteInv, EntriesApart
<1>8. (LastingFirst /\ KindSound /\ SetSound /\ DoneSound /\ ListedSound)'
  BY <1>3 DEF LastingFirst, KindSound, SetSound, DoneSound, ListedSound
<1>9. IndexSound'
  <2>1. \A name \in ToSet(run.listed) : Fresh(name)
    <3> SUFFICES ASSUME NEW name \in ToSet(run.listed) PROVE Fresh(name)
      OBVIOUS
    <3>1. PICK k \in ToSet(Kinds) : \E p \in 1 .. xml[CountKey(k)].val : name = <<k, p>>
      BY <1>1 DEF SiteInv, ListedSound
    <3>2. PagesSound(k, xml[CountKey(k)].val)
      BY <1>1 DEF SiteInv, DoneSound, Counting
    <3> QED BY <3>1, <3>2 DEF PagesSound
  <2>2. ASSUME NEW name \in {IndexKey} \cup ToSet(run.listed)
        PROVE  name \in DOMAIN xml' /\ (xml'[name].exp = 0 \/ run.start + CacheTTL <= xml'[name].exp)
    <3>1. Fresh(name)'
      BY <1>4, <2>1
    <3> QED BY <1>3, <3>1 DEF Fresh, Lasts
  <2>3. ASSUME NEW name \in DOMAIN xml' PROVE xml'[name].exp \in Nat
    BY <1>5 DEF SiteTyped, SitemapTypeOK
  <2>4. outcome'.failed * Interval = 0
    BY <1>1, <1>2
  <2>5. ASSUME NEW name \in {IndexKey} \cup ToSet(run.listed), xml'[name].exp # 0
        PROVE  run.start + CacheTTL <= xml'[name].exp + outcome'.failed * Interval
    BY <1>2, <2>2, <2>3, <2>4, <2>5
  <2>6. IndexKey' = IndexKey
    BY DEF IndexKey, PageName
  <2> QED BY <1>3, <1>4, <2>2, <2>5, <2>6 DEF IndexSound
<1> QED BY <1>5, <1>6, <1>7, <1>8, <1>9 DEF SiteInv

\* A run that fails leaves its pages, and one run less to fail.
LEMMA FailSound == SiteInv /\ FailRun => SiteInv'
<1> SUFFICES ASSUME SiteInv, FailRun PROVE SiteInv'
  OBVIOUS
<1>1. /\ run.pc # "idle" /\ outcome.failed < MaxFailures /\ UNCHANGED <<clock, content, lastId, xml>>
      /\ run' = [pc |-> "idle", todo |-> <<>>, start |-> run.start, total |-> 0, offset |-> 0, files |-> 0,
                 set |-> <<>>, listed |-> <<>>, lasting |-> <<>>]
      /\ outcome' = [outcome EXCEPT !.failed = outcome.failed + 1]
  BY DEF FailRun, Ended, NoRun, NoSet
<1>2. /\ content \in [Sources -> Seq(Nat)] /\ run \in Runs /\ run.start \in Nat /\ clock \in Nat
      /\ run.start <= clock /\ clock <= run.start + RunTime
      /\ RunTime <= Interval /\ RunTime \in Nat /\ Interval \in Nat /\ MaxFailures \in Nat
      /\ outcome \in [ok : BOOLEAN, failed : 0 .. MaxFailures]
  BY <1>1, SitemapAssumption DEF SiteInv, SiteTyped, SitemapTypeOK, Runs, InTime
<1>3. run' \in Runs /\ run'.pc = "idle" /\ run'.start = run.start /\ run'.todo = <<>>
  <2>1. <<>> \in Seq(Nat) /\ <<>> \in Seq(ToSet(Kinds)) /\ <<>> \in Seq(Names) /\ 0 \in Nat
    OBVIOUS
  <2> QED BY <1>1, <1>2, <2>1 DEF Runs
<1>4. /\ outcome' \in [ok : BOOLEAN, failed : 0 .. MaxFailures]
      /\ outcome'.ok = outcome.ok /\ outcome'.failed = outcome.failed + 1
  BY <1>1, <1>2
<1>5. SiteTyped'
  BY <1>1, <1>3, <1>4 DEF SiteInv, SiteTyped, SitemapTypeOK, Runs, IndexKey, PageName
<1>6. InTime' /\ Phases'
  BY <1>1, <1>2, <1>3 DEF InTime, Phases, Counting, IsInjective
<1>7. EntriesApart'
  <2>1. \A k \in ToSet(Kinds) : \A e : Has(k, e)' => Has(k, e)
    BY <1>1, <1>3 DEF Has, PagesOf, On
  <2> QED BY <1>1, <2>1, StayApart DEF SiteInv, EntriesApart
<1>8. (LastingFirst /\ KindSound /\ SetSound /\ DoneSound /\ ListedSound)'
  BY <1>3 DEF LastingFirst, KindSound, SetSound, DoneSound, ListedSound
<1>9. IndexSound'
  BY <1>1, <1>3, <1>4 DEF SiteInv, IndexSound, IndexKey, PageName
<1> QED BY <1>5, <1>6, <1>7, <1>8, <1>9 DEF SiteInv

LEMMA SiteNextInvariant == SiteInv /\ [SitemapNext]_siteVars => SiteInv'
<1> SUFFICES ASSUME SiteInv, [SitemapNext]_siteVars PROVE SiteInv'
  OBVIOUS
<1>1. CASE UNCHANGED siteVars
  <2>1. UNCHANGED <<clock, content, lastId, xml, run, outcome>>
    BY <1>1 DEF siteVars
  <2>2. SiteTyped' /\ InTime' /\ Phases' /\ LastingFirst' /\ IndexSound'
    BY <2>1 DEF SiteInv, SiteTyped, SitemapTypeOK, InTime, Phases, Counting, Kind, LastingFirst, IndexSound,
                IndexKey, PageName
  <2>3. EntriesApart'
    <3>1. \A k \in ToSet(Kinds) : \A e : Has(k, e)' => Has(k, e)
      BY <2>1 DEF Has, PagesOf, On, Kind
    <3> QED BY <2>1, <3>1, StayApart DEF SiteInv, EntriesApart
  <2>4. KindSound' /\ SetSound'
    BY <2>1 DEF SiteInv, KindSound, SetSound, PagesSound, Covered, Fresh, Lasts, On, Kind
  <2>5. DoneSound'
    BY <2>1 DEF SiteInv, DoneSound, PagesSound, Covered, Fresh, Lasts, On, Counting, CountKey
  <2>6. ListedSound'
    BY <2>1 DEF SiteInv, ListedSound, CountKey
  <2> QED BY <2>2, <2>3, <2>4, <2>5, <2>6 DEF SiteInv
<1>2. CASE SitemapTick
  BY <1>2, TickSound
<1>3. ASSUME NEW k \in Sources, Publish(k) \/ Withdraw(k) PROVE SiteInv'
  BY <1>3, PublishSound, WithdrawSound
<1>4. CASE BeginGenerate \/ Count \/ Page \/ WritePage
  BY <1>4, BeginSound, CountSound, PageSound, WriteSound
<1>5. CASE SetPageCount \/ ReadCount \/ WriteIndex \/ FailRun
  BY <1>5, SetCountSound, ReadSound, IndexWritten, FailSound
<1> QED BY <1>1, <1>2, <1>3, <1>4, <1>5 DEF SitemapNext

\* Whatever fails and however late it runs, the host never loses track of a page it named:
\* type correctness and the whole of the invariant.
THEOREM SiteSafe == SitemapSpec => []SiteInv
BY SiteInitInvariant, SiteNextInvariant, PTL DEF SitemapSpec

THEOREM SitemapTyped == SitemapSpec => []SitemapTypeOK
<1>1. SiteInv => SitemapTypeOK
  BY DEF SiteInv, SiteTyped
<1> QED BY <1>1, SiteSafe, PTL

\* NoGap: once an index was written it is there, and so is each page it names.
THEOREM IndexNeverDangles == SitemapSpec => []NoGap
<1>1. SiteInv => NoGap
  <2> SUFFICES ASSUME SiteInv, outcome.ok, NEW name \in {IndexKey} \cup ToSet(xml[IndexKey].val)
               PROVE  Hit(xml, name)
    BY DEF NoGap
  <2> DEFINE runs == IF run.pc = "idle" THEN outcome.failed ELSE outcome.failed + 1
             late == runs * Interval
             most == (MaxFailures + 1) * Interval
  <2>1. /\ clock \in Nat /\ run.start \in Nat /\ RunTime \in Nat /\ Interval \in Nat /\ MaxFailures \in Nat
        /\ CacheTTL \in Nat /\ CacheTTL >= most + RunTime
        /\ clock <= run.start + (IF run.pc = "idle" THEN Interval ELSE RunTime)
        /\ outcome.failed \in Nat /\ outcome.failed <= MaxFailures
    BY SitemapAssumption DEF SiteInv, SiteTyped, SitemapTypeOK, Runs, InTime
  <2>2. name \in DOMAIN xml /\ (xml[name].exp = 0 \/ run.start + CacheTTL <= xml[name].exp + late)
    BY DEF SiteInv, IndexSound
  <2>3. xml[name].exp \in Nat
    BY <2>2 DEF SiteInv, SiteTyped, SitemapTypeOK
  <2>4. /\ most \in Nat /\ late \in Nat
        /\ run.pc = "idle" => late + Interval <= most
        /\ run.pc # "idle" => late <= most
    <3>1. PICK rest \in Nat : outcome.failed + rest = MaxFailures
      <4>1. MaxFailures - outcome.failed \in Nat /\ outcome.failed + (MaxFailures - outcome.failed) = MaxFailures
        BY <2>1
      <4> QED BY <4>1
    <3>2. most = outcome.failed * Interval + rest * Interval + Interval
      <4>1. most = (outcome.failed + rest + 1) * Interval
        BY <3>1
      <4> QED BY <2>1, <3>1, <4>1
    <3>3. rest * Interval \in Nat /\ outcome.failed * Interval \in Nat
      BY <2>1, <3>1
    <3>4. (outcome.failed + 1) * Interval = outcome.failed * Interval + Interval
      BY <2>1
    <3> QED BY <2>1, <3>2, <3>3, <3>4
  <2> HIDE DEF late, most
  <2> QED BY <2>1, <2>2, <2>3, <2>4 DEF Hit
<1> QED BY <1>1, SiteSafe, PTL

\* EachEntryOnce: the pages the index is about to name have what lasted through the run, and
\* no entry twice.
THEOREM NothingLostOrTwice == SitemapSpec => []EachEntryOnce
<1>1. SiteInv => EachEntryOnce
  <2> SUFFICES ASSUME SiteInv, run.pc = "index" PROVE EachEntryOnce
    BY DEF EachEntryOnce
  <2>1. /\ run.todo = <<>> /\ ToSet(run.todo) = {}
        /\ run.lasting \in [Sources -> Seq(Nat)]
    BY DEF SiteInv, SiteTyped, Phases, ToSet
  <2>2. \A k \in ToSet(Kinds) : /\ PagesSound(k, xml[CountKey(k)].val)
                                /\ k \in Sources => Covered(k, xml[CountKey(k)].val, Len(run.lasting[k]))
    BY DEF SiteInv, DoneSound, Counting
  <2>3. /\ \A k \in ToSet(Kinds) : \A p \in 1 .. xml[CountKey(k)].val : <<k, p>> \in ToSet(run.listed)
        /\ \A name \in ToSet(run.listed) :
              \E k \in ToSet(Kinds) : \E p \in 1 .. xml[CountKey(k)].val : name = <<k, p>>
    BY <2>1 DEF SiteInv, ListedSound
  <2>4. ASSUME NEW k \in ToSet(Kinds), NEW p \in 1 .. xml[CountKey(k)].val PROVE <<k, p>> \in ListedPages
    BY <2>2, <2>3, FreshHit DEF PagesSound, ListedPages
  <2>5. ASSUME NEW k \in Sources, NEW i \in DOMAIN run.lasting[k]
        PROVE  \E name \in ListedPages : run.lasting[k][i] \in ToSet(xml[name].val)
    <3>1. k \in ToSet(Kinds) /\ i <= Len(run.lasting[k])
      BY <2>1 DEF Sources
    <3>2. PICK p \in 1 .. xml[CountKey(k)].val : run.lasting[k][i] \in On(<<k, p>>)
      BY <2>2, <3>1 DEF Covered
    <3> QED BY <2>4, <3>1, <3>2 DEF On
  <2>6. ASSUME NEW x \in ListedPages, NEW y \in ListedPages, x # y,
               NEW e \in On(x), e \in On(y)
        PROVE  FALSE
    <3>1. PICK k \in ToSet(Kinds) : \E p \in 1 .. xml[CountKey(k)].val : x = <<k, p>>
      BY <2>3 DEF ListedPages
    <3>2. PICK l \in ToSet(Kinds) : \E q \in 1 .. xml[CountKey(l)].val : y = <<l, q>>
      BY <2>3 DEF ListedPages
    <3>3. PICK p \in 1 .. xml[CountKey(k)].val, q \in 1 .. xml[CountKey(l)].val : x = <<k, p>> /\ y = <<l, q>>
      BY <3>1, <3>2
    <3>4. xml[CountKey(k)].val \in Nat /\ xml[CountKey(l)].val \in Nat
      <4>1. CountKey(k) \in DOMAIN xml /\ CountKey(l) \in DOMAIN xml
        BY <2>1 DEF SiteInv, DoneSound, Counting, Fresh, Lasts
      <4>2. CountKey(k) # IndexKey /\ CountKey(l) # IndexKey /\ CountKey(k)[2] = 0 /\ CountKey(l)[2] = 0
        BY Keys DEF CountKey
      <4> QED BY <4>1, <4>2 DEF SiteInv, SiteTyped
    <3>5. Has(k, e) /\ Has(l, e)
      BY <2>2, <2>6, <3>3, <3>4, WrittenHas
    <3>6. k = l
      BY <3>5 DEF SiteInv, EntriesApart
    <3> QED BY <2>2, <2>6, <3>3, <3>6 DEF PagesSound
  <2>7. \A k \in Sources :
            ToSet(run.lasting[k]) \subseteq UNION {ToSet(xml[name].val) : name \in ListedPages}
    BY <2>5 DEF ToSet
  <2>8. \A x, y \in ListedPages : x # y => ToSet(xml[x].val) \cap ToSet(xml[y].val) = {}
    BY <2>6 DEF On
  <2> QED BY <2>7, <2>8 DEF EachEntryOnce
<1> QED BY <1>1, SiteSafe, PTL

(***************************************************************************)
(* CacheClear: the clearing of a namespace.                                *)
(***************************************************************************)
\* Old(k): an entry that a caller of Get may still see and that was set before the call.
Old(k) == Hit(blobs, k) /\ blobs[k].val.seq <= clear.since

\* During a scan the old entries of the namespace are those that SCAN has promised and not
\* returned, or that wait in the batch; after it there are none.
CacheInv ==
    /\ CacheTypeOK
    /\ IsFiniteSet(clear.batch) /\ clear.batch \subseteq Namespace
    /\ \A k \in DOMAIN blobs : blobs[k].val.seq <= writes
    /\ clear.since <= writes
    /\ clear.pc = "call" => clear.seen = {} /\ clear.batch = {}
    /\ clear.pc = "scan" =>
          \A k \in Namespace : Old(k) => k \in clear.due /\ (k \in clear.seen => k \in clear.batch)
    /\ clear.pc = "done" => \A k \in Namespace : ~ Old(k)

\* Entries that are deleted are gone, the others are as they were.
LEMMA Deleted ==
    ASSUME CacheInv, NEW S, blobs' = Without(blobs, S), UNCHANGED <<clock, writes>>
    PROVE  /\ DOMAIN blobs' \subseteq BlobKeys
           /\ \A k \in DOMAIN blobs' :
                 /\ blobs'[k].exp \in Nat /\ blobs'[k].val \in [version : Nat, seq : Nat]
                 /\ blobs'[k].val.seq <= writes'
           /\ \A k : Hit(blobs, k)' => Hit(blobs, k) /\ k \notin S /\ blobs'[k] = blobs[k]
BY DEF CacheInv, CacheTypeOK, Without, Hit

\* So if the call goes on as it was, or what it still has to find is not there, all is well.
LEMMA ClearKept ==
    ASSUME CacheInv, NEW S, blobs' = Without(blobs, S), UNCHANGED <<clock, medium, source, clear, writes>>,
           fetch' \in [Readers -> {NoFetch} \cup [pc : {"got"}, key : BlobKeys, version : Nat]]
    PROVE  CacheInv'
<1>1. \A k : Old(k)' => Old(k)
  BY Deleted DEF Old
<1>2. CacheTypeOK'
  BY Deleted DEF CacheInv, CacheTypeOK
<1> QED BY <1>1, <1>2, Deleted DEF CacheInv

\* At the start nothing is cached.
LEMMA CacheInitInvariant == CacheInit => CacheInv
<1> SUFFICES ASSUME CacheInit PROVE CacheInv
  OBVIOUS
<1>1. IsFiniteSet({}) /\ Cardinality({}) = 0
  BY FS_EmptySet
<1>2. DOMAIN blobs = {}
  BY DEF CacheInit
<1>3. /\ clear.pc = "idle" /\ clear.batch = {} /\ clear.since = 0
      /\ clear \in [pc : {"idle", "call", "scan", "done"}, version : Nat, since : Nat,
                  due : SUBSET BlobKeys, seen : SUBSET BlobKeys, batch : SUBSET BlobKeys]
  BY DEF CacheInit, NoClear
<1> QED BY <1>1, <1>2, <1>3, CacheAssumption DEF CacheInit, CacheInv, CacheTypeOK

\* A reader that misses reads its source.
LEMMA MissStep ==
    ASSUME CacheInv, NEW r \in Readers, NEW k \in BlobKeys, Miss(r, k)
    PROVE  CacheInv'
BY ClearKept DEF Miss, CacheInv, CacheTypeOK

\* A late Set adds an entry that is younger than the clearing.
LEMMA RefillStep ==
    ASSUME CacheInv, NEW r \in Readers, Refill(r)
    PROVE  CacheInv'
<1> DEFINE key == fetch[r].key
           val == [version |-> fetch[r].version, seq |-> writes + 1]
<1>1. key \in BlobKeys /\ fetch[r].version \in Nat
  BY DEF Refill, CacheInv, CacheTypeOK
<1>2. /\ DOMAIN blobs' = DOMAIN blobs \cup {key}
      /\ blobs'[key].val = val /\ blobs'[key].exp \in Nat
      /\ \A k \in DOMAIN blobs : k # key => blobs'[k] = blobs[k]
  BY CacheAssumption DEF Refill, CacheSet, CacheInv, CacheTypeOK
<1>3. UNCHANGED <<clock, medium, source, clear>> /\ writes' = writes + 1
  BY DEF Refill
<1>4. ASSUME NEW k \in DOMAIN blobs'
      PROVE  /\ k \in BlobKeys /\ blobs'[k].exp \in Nat /\ blobs'[k].val \in [version : Nat, seq : Nat]
             /\ blobs'[k].val.seq <= writes'
  <2>1. CASE k = key
    BY <1>1, <1>2, <1>3, <2>1 DEF CacheInv, CacheTypeOK
  <2>2. CASE k # key
    BY <1>2, <1>3, <2>2 DEF CacheInv, CacheTypeOK
  <2> QED BY <2>1, <2>2
<1>5. ASSUME NEW k, Old(k)' PROVE Old(k)
  <2>1. k # key
    BY <1>1, <1>2, <1>3, <1>5 DEF Old, CacheInv, CacheTypeOK
  <2> QED BY <1>2, <1>3, <1>5, <2>1 DEF Old, Hit
<1>6. CacheTypeOK'
  BY <1>3, <1>4 DEF CacheInv, CacheTypeOK, Refill
<1> QED BY <1>3, <1>4, <1>5, <1>6 DEF CacheInv, CacheTypeOK

\* SCAN returns a key: it leaves what is promised and joins the batch.
LEMMA ScanNextStep ==
    ASSUME CacheInv, NEW k, ScanNext(k)
    PROVE  CacheInv'
<1>1. /\ clear' = [clear EXCEPT !.seen = clear.seen \cup {k}, !.batch = clear.batch \cup {k}]
      /\ clear.pc = "scan" /\ k \in Namespace /\ Cardinality(clear.batch) < BatchSize
      /\ UNCHANGED <<clock, medium, blobs, source, fetch, writes>>
  BY DEF ScanNext, Matching
<1>2. /\ clear'.pc = "scan" /\ clear'.seen = clear.seen \cup {k} /\ clear'.batch = clear.batch \cup {k}
      /\ clear'.due = clear.due /\ clear'.since = clear.since
  BY <1>1 DEF CacheInv, CacheTypeOK
<1>3. IsFiniteSet(clear'.batch) /\ Cardinality(clear'.batch) <= BatchSize
  <2>1. Cardinality(clear.batch) \in Nat
    BY FS_CardinalityType DEF CacheInv
  <2>2. /\ IsFiniteSet(clear.batch \cup {k})
        /\ Cardinality(clear.batch \cup {k}) = Cardinality(clear.batch)
              \/ Cardinality(clear.batch \cup {k}) = Cardinality(clear.batch) + 1
    BY FS_AddElement DEF CacheInv
  <2> QED BY <1>1, <1>2, <2>1, <2>2, CacheAssumption
<1>4. CacheTypeOK'
  BY <1>1, <1>2, <1>3 DEF CacheInv, CacheTypeOK, BlobKeys
<1>5. \A l : Old(l)' <=> Old(l)
  BY <1>1, <1>2 DEF Old, Hit
<1> QED BY <1>1, <1>2, <1>3, <1>4, <1>5 DEF CacheInv

\* The batch is deleted: what the scan promised and the batch does not hold is still due.
LEMMA FlushStep ==
    ASSUME CacheInv, FlushFull \/ ScanEnd
    PROVE  CacheInv'
<1>1. /\ clear.pc = "scan" /\ blobs' = Without(blobs, clear.batch)
      /\ UNCHANGED <<clock, medium, source, fetch, writes>>
  BY DEF FlushFull, ScanEnd, Flushed, RestFlushed
<1>2. /\ clear'.batch = {} /\ clear'.since = clear.since
      /\ clear' \in [pc : {"scan", "done"}, version : Nat, since : Nat,
                  due : SUBSET BlobKeys, seen : SUBSET BlobKeys, batch : SUBSET BlobKeys]
  <2>1. CASE FlushFull
    BY <1>1, <2>1 DEF FlushFull, CacheInv, CacheTypeOK
  <2>2. CASE ScanEnd
    BY <1>1, <2>2 DEF ScanEnd, CacheInv, CacheTypeOK
  <2> QED BY <2>1, <2>2
<1>3. IsFiniteSet({}) /\ Cardinality({}) = 0
  BY FS_EmptySet
<1>4. CacheTypeOK'
  BY <1>1, <1>2, <1>3, Deleted, CacheAssumption DEF CacheInv, CacheTypeOK
<1>5. \A k : Old(k)' => Old(k) /\ k \notin clear.batch
  BY <1>1, <1>2, Deleted DEF Old
<1>6. CASE FlushFull
  <2>1. clear'.pc = "scan" /\ clear'.due = clear.due \ clear.batch /\ clear'.seen = clear.seen
    BY <1>1, <1>6 DEF FlushFull, CacheInv, CacheTypeOK
  <2> QED BY <1>1, <1>2, <1>3, <1>4, <1>5, <2>1, Deleted DEF CacheInv
<1>7. CASE ScanEnd
  <2>1. clear'.pc = "done" /\ StillDue = {}
    BY <1>1, <1>7 DEF ScanEnd, CacheInv, CacheTypeOK
  <2>2. ASSUME NEW k \in Namespace, Old(k)' PROVE FALSE
    <3>1. Old(k) /\ k \notin clear.batch
      BY <1>5, <2>2
    <3>2. k \in clear.due /\ k \notin clear.seen
      BY <1>1, <3>1 DEF CacheInv
    <3> QED BY <2>1, <3>1, <3>2 DEF StillDue, Old
  <2> QED BY <1>1, <1>2, <1>3, <1>4, <2>1, <2>2, Deleted DEF CacheInv
<1> QED BY <1>6, <1>7

\* Every step keeps what the scan still owes.
LEMMA CacheNextInvariant == CacheInv /\ [CacheNext]_cacheVars => CacheInv'
<1> SUFFICES ASSUME CacheInv, [CacheNext]_cacheVars PROVE CacheInv'
  OBVIOUS
<1>0. IsFiniteSet({}) /\ Cardinality({}) = 0
  BY FS_EmptySet
<1>1. CASE UNCHANGED cacheVars
  BY <1>1 DEF cacheVars, CacheInv, CacheTypeOK, Old, Hit
<1>2. CASE CacheTick
  <2>1. clock' = clock + 1 /\ UNCHANGED <<medium, blobs, source, fetch, clear, writes>>
    BY <1>2 DEF CacheTick, Advance
  <2>2. CacheTypeOK'
    BY <2>1 DEF CacheInv, CacheTypeOK
  <2>3. \A k : Old(k)' => Old(k)
    BY <2>1 DEF Old, Hit, CacheInv, CacheTypeOK
  <2> QED BY <2>1, <2>2, <2>3 DEF CacheInv
<1>3. CASE \E r \in Readers : \E k \in BlobKeys : Miss(r, k)
  BY <1>3, MissStep
<1>4. CASE \E r \in Readers : Refill(r)
  BY <1>4, RefillStep
<1>5. CASE \E r \in Readers : Drop(r)
  BY <1>5 DEF Drop, CacheInv, CacheTypeOK, Old, Hit
<1>6. CASE \E k \in BlobKeys : DeleteKey(k)
  BY <1>6, ClearKept DEF DeleteKey, CacheInv, CacheTypeOK
<1>7. CASE \E k \in BlobKeys : ScanNext(k)
  BY <1>7, ScanNextStep
<1>8. CASE Ingest
  <2>1. /\ clear' = [pc |-> "call", version |-> source + 1, since |-> writes,
                     due |-> {}, seen |-> {}, batch |-> {}]
        /\ UNCHANGED <<clock, medium, blobs, fetch, writes>> /\ source' = source + 1
    BY <1>8 DEF Ingest, NoClear
  <2> QED BY <1>0, <2>1, CacheAssumption DEF CacheInv, CacheTypeOK
<1>9. CASE ClearInMemory
  <2>1. /\ clear.pc = "call" /\ blobs' = Without(blobs, Matching(DOMAIN blobs))
        /\ clear' = [clear EXCEPT !.pc = "done"]
        /\ UNCHANGED <<clock, medium, source, fetch, writes>>
    BY <1>9 DEF ClearInMemory
  <2>2. /\ clear'.pc = "done" /\ clear'.since = clear.since /\ clear'.batch = clear.batch
        /\ clear' \in [pc : {"done"}, version : Nat, since : Nat,
                  due : SUBSET BlobKeys, seen : SUBSET BlobKeys, batch : SUBSET BlobKeys]
    BY <2>1 DEF CacheInv, CacheTypeOK
  <2>3. \A k \in Namespace : ~ Old(k)'
    BY <2>1, Deleted DEF Old, Matching, Hit
  <2>4. CacheTypeOK'
    BY <2>1, <2>2, Deleted DEF CacheInv, CacheTypeOK
  <2> QED BY <2>1, <2>2, <2>3, <2>4, Deleted DEF CacheInv
<1>10. CASE ScanStart
  <2>1. /\ clear.pc = "call" /\ UNCHANGED <<clock, medium, blobs, source, fetch, writes>>
        /\ clear' = [clear EXCEPT !.pc = "scan", !.due = Matching({k \in DOMAIN blobs : Hit(blobs, k)})]
    BY <1>10 DEF ScanStart
  <2>2. /\ clear'.pc = "scan" /\ clear'.since = clear.since
        /\ clear'.batch = {} /\ clear'.seen = {}
        /\ clear'.due = {k \in DOMAIN blobs : Hit(blobs, k)} \cap Namespace
        /\ clear' \in [pc : {"scan"}, version : Nat, since : Nat,
                  due : SUBSET BlobKeys, seen : SUBSET BlobKeys, batch : SUBSET BlobKeys]
    BY <2>1 DEF CacheInv, CacheTypeOK, Matching
  <2>3. CacheTypeOK'
    BY <1>0, <2>1, <2>2, CacheAssumption DEF CacheInv, CacheTypeOK
  <2>4. \A k \in Namespace : Old(k)' => k \in clear'.due
    BY <2>1, <2>2 DEF Old, Hit
  <2> QED BY <1>0, <2>1, <2>2, <2>3, <2>4 DEF CacheInv
<1>11. CASE FlushFull \/ ScanEnd
  BY <1>11, FlushStep
<1>12. CASE ClearError
  <2>1. /\ clear'.pc = "idle" /\ clear'.since = 0 /\ clear'.batch = {}
        /\ clear' \in [pc : {"idle"}, version : Nat, since : Nat,
                  due : SUBSET BlobKeys, seen : SUBSET BlobKeys, batch : SUBSET BlobKeys]
        /\ UNCHANGED <<clock, medium, blobs, source, fetch, writes>>
    BY <1>12 DEF ClearError, NoClear
  <2> QED BY <1>0, <2>1, CacheAssumption DEF CacheInv, CacheTypeOK
<1> QED
  BY <1>1, <1>2, <1>3, <1>4, <1>5, <1>6, <1>7, <1>8, <1>9, <1>10, <1>11, <1>12 DEF CacheNext

\* So it holds in every state.
LEMMA CacheInvariance == CacheSpec => []CacheInv
BY CacheInitInvariant, CacheNextInvariant, PTL DEF CacheSpec

\* DeletePrefix, memory's and the SCAN in batches of Redis, leaves no entry of the namespace
\* behind that was there when it was called.
THEOREM ClearingIsComplete == CacheSpec => []ClearedIsGone
<1>1. CacheInv => ClearedIsGone
  <2> SUFFICES ASSUME CacheInv, clear.pc = "done", NEW k \in Namespace, Hit(blobs, k)
               PROVE  blobs[k].val.seq > clear.since
    BY DEF ClearedIsGone
  <2>1. blobs[k].val.seq \in Nat /\ clear.since \in Nat
    BY DEF CacheInv, CacheTypeOK, Hit
  <2> QED BY <2>1 DEF CacheInv, Old
<1> QED BY <1>1, CacheInvariance, PTL

\* No key outside the namespace is deleted by it.
THEOREM ClearingIsConfined == CacheSpec => OthersKept
<1>1. ASSUME CacheInv, CacheNext, NEW k \in OtherKeys, Hit(blobs, k)
      PROVE  \/ k \in DOMAIN blobs' /\ blobs'[k].val.seq >= blobs[k].val.seq
             \/ UNCHANGED clear /\ Without(blobs, {k}) = blobs'
  <2>1. k \in DOMAIN blobs /\ k \notin Namespace /\ blobs[k].val.seq \in Nat
    BY <1>1, CacheAssumption DEF Hit, CacheInv, CacheTypeOK
  <2>2. ASSUME NEW S, k \notin S, blobs' = Without(blobs, S)
        PROVE  k \in DOMAIN blobs' /\ blobs'[k].val.seq >= blobs[k].val.seq
    BY <2>1, <2>2 DEF Without
  <2>3. CASE blobs' = blobs
    BY <2>1, <2>3
  <2>4. CASE \E r \in Readers, l \in BlobKeys : Miss(r, l)
    BY <1>1, <2>2, <2>4 DEF Miss
  <2>5. CASE \E r \in Readers : Refill(r)
    <3>1. PICK r \in Readers : Refill(r)
      BY <2>5
    <3>2. /\ k \in DOMAIN blobs'
          /\ k = fetch[r].key => blobs'[k].val.seq = writes + 1
          /\ k # fetch[r].key => blobs'[k] = blobs[k]
      BY <2>1, <3>1 DEF Refill, CacheSet
    <3> QED BY <1>1, <2>1, <3>2 DEF CacheInv, CacheTypeOK
  <2>6. CASE \E l \in BlobKeys : DeleteKey(l)
    BY <2>2, <2>6 DEF DeleteKey
  <2>7. CASE ClearInMemory
    BY <2>1, <2>2, <2>7 DEF ClearInMemory, Matching
  <2>8. CASE FlushFull \/ ScanEnd
    BY <1>1, <2>1, <2>2, <2>8 DEF FlushFull, ScanEnd, Flushed, RestFlushed, CacheInv
  <2> QED
    BY <1>1, <2>3, <2>4, <2>5, <2>6, <2>7, <2>8
       DEF CacheNext, CacheTick, Drop, ScanNext, Ingest, ScanStart, ClearError
<1>2. CacheInv /\ [CacheNext]_cacheVars =>
        [\A k \in OtherKeys : Hit(blobs, k) =>
            \/ k \in DOMAIN blobs' /\ blobs'[k].val.seq >= blobs[k].val.seq
            \/ UNCHANGED clear /\ Without(blobs, {k}) = blobs']_cacheVars
  BY <1>1
<1> QED BY <1>2, CacheInvariance, PTL DEF CacheSpec, OthersKept
================================================================================
