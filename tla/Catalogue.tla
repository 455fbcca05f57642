------------------------------- MODULE Catalogue ------------------------------
(***************************************************************************)
(* GET /products as a function: what ListProductsQueryDto makes of the     *)
(* query string, and the page findPageFromDb answers.  The catalogue is    *)
(* the rows 1..total in the order of the query, createdAt DESC: the seeder *)
(* writes one row at a time, so no two are equal.                          *)
(*                                                                         *)
(* A query value is Absent, NotANumber, or a number in halves, so that     *)
(* fractions are among the values: 3 stands for 1.5.                       *)
(***************************************************************************)
EXTENDS Integers, FiniteSetsExt

CONSTANTS Absent, NotANumber

ASSUME QueryAssumption == Absent \notin Int /\ NotANumber \notin Int /\ Absent # NotANumber

MAX_PAGE == 1000
ALLOWED_LIMITS == {10, 20, 50, 100}
LARGEST_LIMIT == 100

Whole(n) == 2 * n
IsWhole(raw) == raw % 2 = 0

(* Mutant: to the next smaller allowed limit.                               *)
BugSnapDown(raw) ==
    Max({allowed \in ALLOWED_LIMITS : Whole(allowed) <= raw} \cup {10})

snapLimit(raw) ==
    Min({allowed \in ALLOWED_LIMITS : Whole(allowed) >= raw} \cup {LARGEST_LIMIT})

(* The value each @Transform hands to the validators, again in halves.      *)
PageParam(raw) ==
    IF raw = Absent THEN Whole(1)
    ELSE IF raw = NotANumber THEN NotANumber ELSE Min({raw, Whole(MAX_PAGE)})

LimitParam(raw) ==
    IF raw = Absent THEN Whole(10)
    ELSE IF raw = NotANumber \/ raw < Whole(1) THEN raw ELSE Whole(snapLimit(raw))

(* @IsInt and @Min(1), and @Max for the limit.                              *)
Accepted(rawPage, rawLimit) ==
    LET page == PageParam(rawPage)  limit == LimitParam(rawLimit) IN
    /\ page # NotANumber /\ IsWhole(page) /\ page >= Whole(1)
    /\ limit # NotANumber /\ IsWhole(limit) /\ limit \in Whole(1)..Whole(LARGEST_LIMIT)

totalPages(total, limit) == Max({1, (total + limit - 1) \div limit})

(* findPageFromDb and its meta.                                             *)
findPageFromDb(total, page, limit) ==
    [rows |-> {n \in 1..total : n > (page - 1) * limit /\ n <= page * limit},
     total |-> total, page |-> page, limit |-> limit, totalPages |-> totalPages(total, limit)]
=============================================================================
