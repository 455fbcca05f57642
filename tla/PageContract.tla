----------------------------- MODULE PageContract -----------------------------
(***************************************************************************)
(* load-test/pagination-integrity.js: a crawl of the catalogue at several  *)
(* page sizes, the comparison of the crawls, page 1 against page 2, a page *)
(* past the end, and queries at the boundaries (also those of              *)
(* cache-failure-modes.js).  The service is Catalogue, or one with a       *)
(* defect the script was written to find.  Any answer may be lost on the   *)
(* way: nginx answers 502 or the connection fails.                         *)
(*                                                                         *)
(*   svc = [total, defect]      rig = [lost]                               *)
(*   mem = [script, n, page, seen, crawls, query, status]                  *)
(***************************************************************************)
EXTENDS LoadTestClient, Catalogue, Sequences

CONSTANTS
    SweepLimits,        \* SWEEP_LIMITS, each as the DTO snaps it
    MaxCrawlPages,      \* MAX_CRAWL_PAGES
    Totals,             \* bound: the sizes of the catalogue
    RawPages, RawLimits \* bound: the query values tried

ASSUME PagesAssumption ==
    /\ SweepLimits \in Seq(Nat \ {0}) /\ Len(SweepLimits) > 0
    /\ MaxCrawlPages \in Nat \ {0} /\ Totals \subseteq Nat
    /\ RawPages \cup RawLimits \subseteq Int \cup {Absent, NotANumber}

PageDefects == {"none", "ignoresPage", "keyedWithoutPage", "keyedWithoutLimit",
                "skipsOne", "pagesRoundedDown"}

Broken == [walked |-> FALSE]

InitPages ==
    /\ pc = "crawl"
    /\ svc \in [total : Totals, defect : PageDefects]
    /\ mem = [script |-> "pages", n |-> 1, page |-> 1, seen |-> {}, crawls |-> <<>>,
              query |-> <<Absent, Absent>>, status |-> 0]
    /\ fails = {} /\ rig = [lost |-> FALSE]

(* What the service answers to page and limit, both in range.               *)
PageAnswer(page, limit) ==
    LET right == findPageFromDb(svc.total, page, limit) IN
    CASE svc.defect = "none" -> right
      [] svc.defect = "ignoresPage" ->
            [right EXCEPT !.rows = findPageFromDb(svc.total, 1, limit).rows]
      [] svc.defect = "keyedWithoutPage" -> findPageFromDb(svc.total, 1, limit)
      [] svc.defect = "keyedWithoutLimit" -> findPageFromDb(svc.total, page, SweepLimits[1])
      [] svc.defect = "skipsOne" ->
            [right EXCEPT !.rows = {n \in 1..svc.total : n - 1 > (page - 1) * limit
                                                          /\ n - 1 <= page * limit}]
      [] svc.defect = "pagesRoundedDown" ->
            [right EXCEPT !.totalPages = Max({1, svc.total \div limit})]

(* What a client gets: ListProductsQueryDto clamps the page before the      *)
(* service sees it.                                                         *)
Served(page, limit) == PageAnswer(Min({page, MAX_PAGE}), limit)

LoseAnswer == rig' = [rig EXCEPT !.lost = TRUE]

(* checkResponseInvariants: meta against itself, its rows and the request.  *)
checkResponseInvariants(body, askedPage) ==
    LET rows == Cardinality(body.rows) IN
    {flag \in {"meta_math", "page_size", "meta_echo"} :
        \/ /\ flag = "meta_math" /\ body.total > 0
           /\ body.totalPages # (body.total + body.limit - 1) \div body.limit
        \/ flag = "page_size" /\ rows > body.limit
        \/ /\ flag = "meta_echo"
           /\ \/ body.page < body.totalPages /\ rows # body.limit
              \/ askedPage <= body.totalPages /\ body.page # askedPage}

(* Mutant: the walk stops before the page meta calls the last.              *)
BugStopEarly(body) == mem.page + 1 >= body.totalPages

LastPage(body) == mem.page >= body.totalPages

(* The walk at the n-th limit is over: on to the next, or to the comparison.*)
NextCrawl(crawled) ==
    /\ mem' = [mem EXCEPT !.n = @ + 1, !.page = 1, !.seen = {}, !.crawls = Append(@, crawled)]
    /\ GoTo(IF mem.n = Len(SweepLimits) THEN "compare" ELSE "crawl")

(* Mutant: only rows that are too many are counted.                         *)
BugRowsMissing(seen, total) == Cardinality(seen) > total

(* Walking every page must yield the catalogue that meta claims.            *)
RowsMissing(seen, total) == Cardinality(seen) # total

(* One page of crawl().                                                     *)
CrawlPage ==
    LET body == Served(mem.page, SweepLimits[mem.n])
        seen == mem.seen \cup body.rows
        over == LastPage(body) \/ mem.page = MaxCrawlPages
    IN
    /\ pc = "crawl"
    /\ Report(checkResponseInvariants(body, mem.page)
                \cup {flag \in {"duplicate_across_pages"} : mem.seen \cap body.rows # {}}
                \cup {flag \in {"rows_lost"} : over /\ RowsMissing(seen, body.total)})
    /\ \/ /\ over
          /\ NextCrawl([walked |-> TRUE, unique |-> seen, total |-> body.total,
                        pages |-> body.totalPages])
       \/ /\ ~over
          /\ mem' = [mem EXCEPT !.page = @ + 1, !.seen = seen]
          /\ UNCHANGED pc
    /\ UNCHANGED <<svc, rig>>

(* recordTransport: an answer that was lost ends the walk, and accuses no   *)
(* one.                                                                     *)
CrawlBroken ==
    /\ pc = "crawl"
    /\ LoseAnswer
    /\ NextCrawl(Broken)
    /\ UNCHANGED <<svc, fails>>

(* Step 2 of contractPass: every walk that ended saw the same catalogue.    *)
CompareCrawls ==
    LET walked == {n \in DOMAIN mem.crawls : mem.crawls[n].walked} IN
    /\ pc = "compare"
    /\ Report({flag \in {"cross_limit_disagreement"} :
                 \E n, k \in walked : \/ mem.crawls[n].total # mem.crawls[k].total
                                      \/ mem.crawls[n].unique # mem.crawls[k].unique})
    /\ GoTo(IF mem.crawls[1].walked /\ mem.crawls[1].pages >= 2 THEN "distinct" ELSE "beyond")
    /\ UNCHANGED <<svc, mem, rig>>

(* Step 3: page 1 and page 2 share no product.  An answer that did not      *)
(* arrive does not parse, and that is not told apart.                       *)
PagesDistinct ==
    LET one == Served(1, SweepLimits[1]).rows  two == Served(2, SweepLimits[1]).rows IN
    /\ pc = "distinct"
    /\ \/ /\ Report({flag \in {"duplicate_across_pages"} :
                       one = {} \/ two = {} \/ one \cap two # {}})
          /\ UNCHANGED rig
       \/ LoseAnswer /\ Report({"duplicate_across_pages"})
    /\ GoTo("beyond")
    /\ UNCHANGED <<svc, mem>>

(* Step 4: five pages past the end, as far as the first walk told.          *)
BeyondTheEnd ==
    LET base == mem.crawls[1]
        body == Served((IF base.walked THEN base.pages ELSE 1) + 5, SweepLimits[1])
    IN
    /\ pc = "beyond"
    /\ \/ /\ Report({flag \in {"meta_echo"} : body.rows # {} /\ body.page # body.totalPages})
          /\ UNCHANGED rig
       \/ LoseAnswer /\ UNCHANGED fails
    /\ GoTo("query")
    /\ UNCHANGED <<svc, mem>>

(* Step 5 and probePhase: a query at a boundary, answered 200 or 400.       *)
QueryProbe ==
    /\ pc = "query"
    /\ \E rawPage \in RawPages, rawLimit \in RawLimits :
          mem' = [mem EXCEPT !.query = <<rawPage, rawLimit>>,
                             !.status = IF Accepted(rawPage, rawLimit) THEN 200 ELSE 400]
    /\ GoTo("done")
    /\ UNCHANGED <<svc, fails, rig>>

NextPages ==
    \/ CrawlPage \/ CrawlBroken \/ CompareCrawls
    \/ PagesDistinct \/ BeyondTheEnd \/ QueryProbe

\* ---------------------------------------------------------------- properties

CeilingReached == \E n \in DOMAIN SweepLimits :
                      totalPages(svc.total, SweepLimits[n]) > MaxCrawlPages

(* The catalogue has pages that the DTO's clamp puts out of reach, and the  *)
(* script was given a ceiling that lets it ask for them.                    *)
BeyondClamp == \E n \in DOMAIN SweepLimits : totalPages(svc.total, SweepLimits[n]) > MAX_PAGE
ClampReached == BeyondClamp /\ MaxCrawlPages > MAX_PAGE

Excused ==
    {flag \in {"duplicate_across_pages"} : rig.lost}
        \cup {flag \in {"meta_echo"} : rig.lost \/ BeyondClamp}
        \cup {flag \in {"rows_lost", "cross_limit_disagreement"} : CeilingReached}

(* A service without a defect fails no check of the contract but these: the *)
(* rows, when it has more pages than the crawl is allowed to walk; and the  *)
(* page past the end, when it has more than MAX_PAGE pages, for step 4 then *)
(* gets a full page that is not the last.  (A ceiling raised above MAX_PAGE *)
(* would make the crawl itself walk page MAX_PAGE twice.)  "Classify a      *)
(* non-200 so a rig problem can never be read as a spec break": not quite,  *)
(* an answer lost in step 3 is called a shared product, and one lost in the *)
(* first walk can make step 4 accuse a page that is in range.               *)
ContractSound ==
    mem.script = "pages" /\ svc.defect = "none" /\ ~ClampReached => fails \subseteq Excused

(* A page of the catalogue the n-th walk asks for is not the right one.     *)
Shows(n) ==
    \E page \in 1..totalPages(svc.total, SweepLimits[n]) :
        Served(page, SweepLimits[n]) # findPageFromDb(svc.total, page, SweepLimits[n])

(* A defect that shows on any page of the catalogue is found when no answer *)
(* is lost -- but not a cache keyed without the limit, of which step 2 says *)
(* that it "breaks exactly here": the pages of the first walk, served again *)
(* in the second, make a catalogue that is complete and agrees.             *)
DefectFound ==
    /\ mem.script = "pages" /\ pc = "done" /\ ~rig.lost /\ ~CeilingReached /\ ~ClampReached
    /\ \E n \in DOMAIN SweepLimits : Shows(n)
    => (fails # {} <=> svc.defect # "keyedWithoutLimit")

(* The query DTO against what its comments promise: what is not a number or *)
(* below 1 is refused, a whole number is answered however large; what is    *)
(* answered has one of MAX_PAGE * 4 cache keys, and no fewer rows than were *)
(* asked for, up to the largest page size.                                  *)
QueryAnswered ==
    mem.script = "pages" =>
    LET rawPage == mem.query[1]  rawLimit == mem.query[2]
        Bad(raw) == raw = NotANumber \/ (raw # Absent /\ raw < Whole(1))
        Good(raw) == raw = Absent \/ (~Bad(raw) /\ IsWhole(raw))
        page == PageParam(rawPage) \div 2  limit == LimitParam(rawLimit) \div 2
    IN
    /\ mem.status = 200 => ~Bad(rawPage) /\ ~Bad(rawLimit)
    /\ mem.status = 400 => ~Good(rawPage) \/ ~Good(rawLimit)
    /\ mem.status = 200 =>
          /\ page \in 1..MAX_PAGE /\ limit \in ALLOWED_LIMITS
          /\ rawLimit # Absent => Whole(limit) >= Min({rawLimit, Whole(LARGEST_LIMIT)})
          /\ rawPage # Absent /\ rawPage <= Whole(MAX_PAGE) => Whole(page) = rawPage

Walk == [walked : {TRUE}, unique : SUBSET Int, total : Int, pages : Int]
PageMemory ==
    [script : {"pages"}, n : Nat, page : Nat, seen : SUBSET Int, crawls : Seq(Walk \cup {Broken}),
     query : (RawPages \cup {Absent}) \X (RawLimits \cup {Absent}), status : {0, 200, 400}]
PageTypeOK ==
    /\ pc \in {"crawl", "compare", "distinct", "beyond", "query", "done"}
    /\ svc \in [total : Totals, defect : PageDefects] /\ rig \in [lost : BOOLEAN]
    /\ mem \in PageMemory
    /\ pc = "crawl" => mem.n \in DOMAIN SweepLimits /\ mem.page \in 1..MaxCrawlPages

=============================================================================
