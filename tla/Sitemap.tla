-------------------------------- MODULE Sitemap --------------------------------
(***************************************************************************)
(* sitemap/: Generate writes the pages of every kind, then its page count, *)
(* then the index over the counts it reads back.  Each call of the source  *)
(* or the cache is a step; the source changes, time passes and calls fail  *)
(* in between.  The host starts a run every Interval, one at a time, and   *)
(* keeps entries for CacheTTL.                                             *)
(***************************************************************************)
EXTENDS Cache, Sequences, FiniteSets, SequencesExt

CONSTANTS
    Kinds,          \* the kinds, in order; the first is "static" if there are static paths
    StaticKinds,    \* {"static"} or {}
    URLsPerFile,
    CacheTTL, Interval,
    RunTime,        \* longest time a run takes
    MaxFailures,    \* most runs that fail in a row
    MaxId,          \* bounds the entries a source ever has
    SiteHorizon     \* bounds the time that passes

\* The host's side of "set it LONGER than the regeneration interval"
\* (sitemap.go:71-73), with room for runs that take time and fail.
ASSUME SitemapAssumption ==
    /\ Kinds \in Seq(STRING) /\ IsInjective(Kinds)
    /\ "index" \notin ToSet(Kinds)
    /\ URLsPerFile \in Nat \ {0} /\ RunTime \in Nat /\ MaxFailures \in Nat /\ MaxId \in Nat /\ SiteHorizon \in Nat
    /\ Interval \in Nat /\ RunTime <= Interval
    /\ CacheTTL \in Nat /\ CacheTTL >= (MaxFailures + 1) * Interval + RunTime

VARIABLES
    content,    \* kind -> its entries, ordered by id
    lastId,     \* the newest id of any source
    xml,        \* the cache
    run,        \* the run; lasting (bookkeeping): what was there when it began, of kinds nothing was withdrawn from
    outcome     \* [ok: an index was written, failed: runs failed in a row]

siteVars == <<clock, content, lastId, xml, run, outcome>>

Sources == ToSet(Kinds) \ StaticKinds
NoSet == <<>>
NoRun == [pc |-> "idle", todo |-> <<>>, start |-> 0, total |-> 0, offset |-> 0, files |-> 0,
          set |-> NoSet, listed |-> <<>>, lasting |-> <<>>]

\* After a run: only when it started matters to the host.
Ended == [NoRun EXCEPT !.start = run.start]

\* PageName: page 1 is bare, the others are suffixed with their number, and the
\* count of a kind's pages (here its page 0) with ":pagecount".  The index is named
\* like the page of a kind "index".  (As texts, the names of a kind "anime-2" and of the second
\* page of "anime" are one; no kind is named so here.)
PageName(kind, page) == <<kind, IF page <= 1 THEN 1 ELSE page>>
CountKey(kind) == <<kind, 0>>
IndexKey == PageName("index", 1)
Names == (ToSet(Kinds) \cup {"index"}) \X Nat

SitemapTypeOK ==
    /\ clock \in Nat /\ lastId \in Nat
    /\ content \in [Sources -> Seq(Nat)]
    /\ \A key \in DOMAIN xml : key \in Names /\ xml[key].exp \in Nat
    /\ run.pc \in {"idle", "count", "page", "write", "setcount", "getcount", "index"}
    /\ run.todo \in Seq(ToSet(Kinds)) /\ run.files \in Nat
    /\ run.offset \in Nat /\ run.total \in Nat /\ run.set \in Seq(Nat)
    /\ outcome \in [ok : BOOLEAN, failed : 0 .. MaxFailures]

SitemapInit ==
    /\ clock = 0 /\ lastId = 0
    /\ content = [k \in Sources |-> <<>>]
    /\ xml = <<>>
    /\ run = NoRun
    /\ outcome = [ok |-> FALSE, failed |-> 0]

(***************************************************************************)
(* The site's content.  Page orders by id, as Source demands.              *)
(***************************************************************************)
Publish(k) ==
    /\ lastId < MaxId
    /\ lastId' = lastId + 1
    /\ content' = [content EXCEPT ![k] = Append(@, lastId + 1)]
    /\ UNCHANGED <<clock, xml, run, outcome>>

Withdraw(k) ==
    /\ \E i \in DOMAIN content[k] : content' = [content EXCEPT ![k] = RemoveAt(@, i)]
    /\ run' = IF run.pc = "idle" THEN run ELSE [run EXCEPT !.lasting[k] = <<>>]
    /\ UNCHANGED <<clock, lastId, xml, outcome>>

(***************************************************************************)
(* Generate.                                                               *)
(***************************************************************************)
Kind == Head(run.todo)

\* The loops over the kinds: what comes after the first of todo is done.
NextKind(r) ==
    LET fresh == [r EXCEPT !.total = 0, !.offset = 0, !.files = 0]
    IN  IF Tail(r.todo) # <<>> THEN [fresh EXCEPT !.todo = Tail(@), !.pc = "count"]
        ELSE [fresh EXCEPT !.todo = Kinds, !.pc = "getcount"]

Begun ==
    [NoRun EXCEPT !.todo = Kinds, !.start = clock, !.lasting = content,
                  !.pc = IF Kinds = <<>> THEN "index" ELSE "count"]

BeginGenerate ==
    /\ run.pc = "idle"
    /\ run' = Begun
    /\ UNCHANGED <<clock, content, lastId, xml, outcome>>

\* regenStatic: the static pages fit in one set; regenSource: Count.
Count ==
    /\ run.pc = "count"
    /\ run' = IF Kind \in StaticKinds
              THEN [run EXCEPT !.total = 1, !.offset = 0, !.pc = "write", !.set = NoSet]
              ELSE [run EXCEPT !.total = Len(content[Kind]), !.offset = 0,
                               !.pc = IF content[Kind] = <<>> THEN "setcount" ELSE "page"]
    /\ UNCHANGED <<clock, content, lastId, xml, outcome>>

\* src.Page(ctx, URLsPerFile, offset).
Page ==
    /\ run.pc = "page"
    /\ LET from == run.offset + 1
           upto == Min({run.offset + URLsPerFile, Len(content[Kind])})
       IN  run' = [run EXCEPT !.set = SubSeq(content[Kind], from, upto), !.pc = "write"]
    /\ UNCHANGED <<clock, content, lastId, xml, outcome>>

\* Faults: a page starts at the last entry of the one before; a rest that
\* does not fill a page is left out.
NextOffsetOverlapping(offset) == offset + URLsPerFile - (IF URLsPerFile > 1 THEN 1 ELSE 0)
MorePagesIfFull(offset, total) == offset + URLsPerFile <= total

NextOffset(offset) == offset + URLsPerFile
MorePages(offset, total) == offset < total

\* writeSitemap; then the next page of the kind, if there is more.
WritePage ==
    /\ run.pc = "write"
    /\ xml' = CacheSet(xml, PageName(Kind, run.files + 1), run.set, CacheTTL)
    /\ run' = [run EXCEPT
                  !.files = @ + 1, !.offset = NextOffset(@), !.set = NoSet,
                  !.pc = IF MorePages(NextOffset(run.offset), run.total) THEN "page" ELSE "setcount"]
    /\ UNCHANGED <<clock, content, lastId, outcome>>

\* (A fault: a page more than were written.)
OnePageMore == run.files + 1

PageCount == run.files

SetPageCount ==
    /\ run.pc = "setcount"
    /\ xml' = CacheSet(xml, CountKey(Kind), PageCount, CacheTTL)
    /\ run' = NextKind(run)
    /\ UNCHANGED <<clock, content, lastId, outcome>>

\* getPageCount: a miss is no page.
StoredCount(k) == IF Hit(xml, CountKey(k)) THEN xml[CountKey(k)].val ELSE 0

\* regenIndex reads the counts back, kind by kind,
ReadCount ==
    /\ run.pc = "getcount"
    /\ run' = [run EXCEPT
                  !.listed = @ \o [p \in 1 .. StoredCount(Kind) |-> PageName(Kind, p)],
                  !.todo = Tail(@), !.pc = IF Tail(run.todo) = <<>> THEN "index" ELSE "getcount"]
    /\ UNCHANGED <<clock, content, lastId, xml, outcome>>

\* and writes the index.
WriteIndex ==
    /\ run.pc = "index"
    /\ xml' = CacheSet(xml, IndexKey, run.listed, CacheTTL)
    /\ run' = Ended
    /\ outcome' = [ok |-> TRUE, failed |-> 0]
    /\ UNCHANGED <<clock, content, lastId>>

\* Any call fails: the run is over, what it wrote stays.
FailRun ==
    /\ run.pc # "idle"
    /\ outcome.failed < MaxFailures
    /\ run' = Ended
    /\ outcome' = [outcome EXCEPT !.failed = @ + 1]
    /\ UNCHANGED <<clock, content, lastId, xml>>

\* Time passes; the host starts runs in time and a run does not take longer
\* than RunTime.
SitemapTick ==
    /\ clock < run.start + (IF run.pc = "idle" THEN Interval ELSE RunTime)
    /\ Advance(SiteHorizon)
    /\ UNCHANGED <<content, lastId, xml, run, outcome>>

SitemapNext ==
    \/ SitemapTick
    \/ \E k \in Sources : Publish(k) \/ Withdraw(k)
    \/ BeginGenerate \/ Count \/ Page \/ WritePage \/ SetPageCount \/ ReadCount \/ WriteIndex \/ FailRun

SitemapSpec == SitemapInit /\ [][SitemapNext]_siteVars

(***************************************************************************)
(* Properties.                                                             *)
(***************************************************************************)
\* Once a run has succeeded there is an index, and every page it names is there:
\* across runs that shrink a kind, fail half way or take their time
\* (sitemap.go:71-73, 109-113).
NoGap ==
    outcome.ok => /\ Hit(xml, IndexKey)
                  /\ \A name \in ToSet(xml[IndexKey].val) : Hit(xml, name)

\* The pages the index will name, as they are in the cache.
ListedPages == {name \in ToSet(run.listed) : Hit(xml, name)}

\* A run that gets to the index has every entry that was there when it began on a
\* page the index will name, unless something of its kind was withdrawn
\* meanwhile ("crawlers treat absence as delisting"), and no entry on two of them,
\* whatever was published or withdrawn between the pages ("or paging will skip
\* and duplicate", sitemap.go:58-59).
EachEntryOnce ==
    run.pc = "index" =>
        /\ \A k \in Sources :
              ToSet(run.lasting[k]) \subseteq UNION {ToSet(xml[name].val) : name \in ListedPages}
        /\ \A x, y \in ListedPages :
              x # y => ToSet(xml[x].val) \cap ToSet(xml[y].val) = {}
=============================================================================
