---------------------------- MODULE MigrationProofs ----------------------------
(***************************************************************************)
(* What the migrations make of the schema, in any order of runs and        *)
(* reverts: it is as it was built but for what a revert of 007 leaves, it  *)
(* fits the entities once all have run, and failures have a reason.        *)
(*                                                                         *)
(* The migrations are compared table by table, through what a schema has   *)
(* and requires of a table, so that no schema is ever written out.         *)
(***************************************************************************)
EXTENDS Operations, WellFoundedInduction, TLAPS

-----------------------------------------------------------------------------
(* Facts *)

\* The table t has the column c; it is required; the list of statements drops t.
Has(X, t, c) == <<t, c>> \in X
Requires(X, t, c) == <<t, c, "required">> \in X
Whole(X, t) == <<t>> \in X

\* What a fact looks like.
IsFact(f) == f = <<f[1], f[2]>> \/ f = <<f[1], f[2], "required">>

LEMMA TupleFacts ==
    ASSUME NEW a, NEW b, NEW c, NEW d, NEW e
    PROVE  /\ <<a>> # <<b, c>> /\ <<a>> # <<b, c, d>> /\ <<a, b>> # <<c, d, e>>
           /\ Len(<<a, b>>) = 2 /\ Len(<<a, b, c>>) = 3
OBVIOUS

LEMMA TableHas ==
    \A t, c, u, R, O : <<t, c>> \in Table(u, R, O) <=> t = u /\ c \in R \cup O
<1> SUFFICES ASSUME NEW t, NEW c, NEW u, NEW R, NEW O
             PROVE  <<t, c>> \in Table(u, R, O) <=> t = u /\ c \in R \cup O
  OBVIOUS
<1>1. <<t, c>> \notin {<<u, x, "required">> : x \in R}
  BY TupleFacts
<1>2. QED
  BY <1>1 DEF Table

LEMMA TableRequires ==
    \A t, c, u, R, O : <<t, c, "required">> \in Table(u, R, O) <=> t = u /\ c \in R
<1> SUFFICES ASSUME NEW t, NEW c, NEW u, NEW R, NEW O
             PROVE  <<t, c, "required">> \in Table(u, R, O) <=> t = u /\ c \in R
  OBVIOUS
<1>1. <<t, c, "required">> \notin {u} \X (R \cup O)
  BY TupleFacts
<1>2. QED
  BY <1>1 DEF Table

LEMMA TableWhole == \A t, u, R, O : <<t>> \notin Table(u, R, O)
BY TupleFacts DEF Table

LEMMA TableIsFacts == \A u, R, O : \A f \in Table(u, R, O) : IsFact(f)
BY DEF Table, IsFact

\* Lists of columns, and of what is required.
LEMMA ColumnsHas == \A t, c, u, C : <<t, c>> \in Columns(u, C) <=> t = u /\ c \in C
BY DEF Columns

LEMMA ColumnsRequire == \A t, c, u, C : <<t, c, "required">> \notin Columns(u, C)
BY TupleFacts DEF Columns

LEMMA ColumnsWhole == \A t, u, C : <<t>> \notin Columns(u, C)
BY TupleFacts DEF Columns

LEMMA ColumnsIsFacts == \A u, C : \A f \in Columns(u, C) : IsFact(f)
BY DEF Columns, IsFact

LEMMA RequiredHas == \A t, c, u, C : <<t, c>> \notin Required(u, C)
BY TupleFacts DEF Required

LEMMA RequiredRequires ==
    \A t, c, u, C : <<t, c, "required">> \in Required(u, C) <=> t = u /\ c \in C
BY DEF Required

LEMMA RequiredWhole == \A t, u, C : <<t>> \notin Required(u, C)
BY TupleFacts DEF Required

LEMMA RequiredIsFacts == \A u, C : \A f \in Required(u, C) : IsFact(f)
BY DEF Required, IsFact

LEMMA PairIsFact == \A t, c : IsFact(<<t, c>>)
BY DEF IsFact

\* What a list of statements makes of the facts.
LEMMA AfterFacts ==
    ASSUME NEW s, NEW X, NEW t, NEW c
    PROVE  /\ Has(After(s, X), t, c) <=>
                \/ Has(s.adds, t, c)
                \/ Has(X, t, c) /\ ~Whole(s.removes, t) /\ ~Has(s.removes, t, c)
           /\ Requires(After(s, X), t, c) <=>
                \/ Requires(s.adds, t, c)
                \/ /\ Requires(X, t, c) /\ ~Whole(s.removes, t)
                   /\ ~Has(s.removes, t, c) /\ ~Requires(s.removes, t, c)
BY DEF After, Has, Requires, Whole

-----------------------------------------------------------------------------
(* Induction over an interval, and what it says of the recursive functions *)

LEMMA IntervalInduction ==
    ASSUME NEW S, NEW lo \in Nat, NEW hi \in Nat, lo \in S,
           \A i \in (lo + 1)..hi : i - 1 \in S => i \in S
    PROVE  lo..hi \subseteq S
<1> DEFINE T == (lo..hi) \ S
           R == {ss \in Nat \X Nat : ss[1] < ss[2]}
<1> SUFFICES ASSUME T # {} PROVE FALSE
  OBVIOUS
<1>1. IsWellFoundedOn(R, Nat)
  BY NatLessThanWellFounded DEF OpToRel
<1>2. PICK x \in T : \A y \in T : <<y, x>> \notin R
  <2>1. T \subseteq Nat
    OBVIOUS
  <2> HIDE DEF T, R
  <2>2. QED
    BY <1>1, <2>1, WFMin
<1>3. x # lo /\ x \in Nat /\ lo <= x /\ x <= hi
  OBVIOUS
<1>4. x - 1 \in lo..hi /\ x \in (lo + 1)..hi /\ <<x - 1, x>> \in R
  BY <1>3
<1>5. x - 1 \in S
  BY <1>2, <1>4
<1>6. QED
  BY <1>4, <1>5

\* Built is what its definition says.
LEMMA BuiltSteps ==
    Built[0] = {} /\ \A n \in 1..Last : Built[n] = After(Up[n], Built[n - 1])
<1> DEFINE Upto(g, m) == g = [n \in 0..m |-> IF n = 0 THEN {} ELSE After(Up[n], g[n - 1])]
           S == {m \in 0..Last : \E g : Upto(g, m)}
<1>1. 0 \in S
  <2>1. Upto([n \in 0..0 |-> {}], 0)
    OBVIOUS
  <2>2. 0 \in 0..Last
    BY DEF Last
  <2> HIDE DEF Upto
  <2>3. QED
    BY <2>1, <2>2
<1>2. ASSUME NEW m \in 1..Last, m - 1 \in S PROVE m \in S
  <2>1. PICK g : Upto(g, m - 1)
    BY <1>2
  <2> DEFINE h == [n \in 0..m |-> IF n = m THEN After(Up[m], g[m - 1]) ELSE g[n]]
  <2>2. m \in Nat \ {0}
    BY DEF Last
  <2>3. \A n \in 0..(m - 1) : g[n] = IF n = 0 THEN {} ELSE After(Up[n], g[n - 1])
    BY <2>1, Zenon
  <2>4. \A n \in 0..m : h[n] = IF n = 0 THEN {} ELSE After(Up[n], h[n - 1])
    BY <2>2, <2>3
  <2>5. Upto(h, m)
    BY <2>4
  <2>6. m \in 0..Last
    BY DEF Last
  <2> HIDE DEF Upto, h
  <2>7. QED
    BY <2>5, <2>6
<1>3. Last \in S
  <2> HIDE DEF S
  <2>1. \A m \in (0 + 1)..Last : m - 1 \in S => m \in S
    BY <1>2 DEF Last
  <2>2. 0..Last \subseteq S
    BY <1>1, <2>1, IntervalInduction DEF Last
  <2>3. QED
    BY <2>2 DEF Last
<1>4. \E g : Upto(g, Last)
  BY <1>3
<1>5. Upto(Built, Last)
  BY <1>4, Zenon DEF Built
<1>6. \A n \in 0..Last : Built[n] = IF n = 0 THEN {} ELSE After(Up[n], Built[n - 1])
  BY <1>5, Zenon
<1>7. QED
  BY <1>6 DEF Last

-----------------------------------------------------------------------------
(* What the migrations do *)

\* The migrations that change a table.
ChangedBy(t) ==
    CASE t = "cooperative" -> {1}
      [] t \in {"member", "farm"} -> {1, 7, 8}
      [] t = "product_type" -> {2, 7, 8, 9}
      [] t \in {"product", "lab_test_result"} -> {2, 7}
      [] t \in {"harvest", "production_batch"} -> {2}
      [] t = "lab_test" -> {2, 12}
      [] t \in {"certification_seq", "qr_code"} -> {3}
      [] t = "certification" -> {3, 5}
      [] t \in {"inspection", "inspection_report", "export_document"} -> {3, 7}
      [] t = "notification_template" -> {4, 7}
      [] t = "notification" -> {4}
      [] t = "certification_events" -> {5}
      [] t = "processing_step" -> {10}
      [] t = "product_document" -> {11}
      [] t = "lab" -> {13}
      [] t = "audit_log" -> {14}
      [] t = "system_setting" -> {15}
      [] t = "notification_preference" -> {16}
      [] t = "qr_scan_event" -> {17}
      [] OTHER -> {}

\* Statements that leave a table alone.
Spares(s, t) ==
    /\ ~Whole(s.removes, t)
    /\ \A c : /\ ~Has(s.adds, t, c) /\ ~Requires(s.adds, t, c)
              /\ ~Has(s.removes, t, c) /\ ~Requires(s.removes, t, c)

\* Statements that only create the tables T, or only drop them.
Creates(s, T) ==
    /\ s.removes = {} /\ s.needs = {}
    /\ \A t, c : Has(s.adds, t, c) \/ Requires(s.adds, t, c) => t \in T
    /\ \A t, c : Has(s.absent, t, c) \/ Requires(s.absent, t, c) => t \in T
    /\ \A f \in s.absent : IsFact(f)

Drops(s, T) ==
    /\ s.adds = {} /\ s.needs = {} /\ s.absent = {}
    /\ \A t, c : ~Has(s.removes, t, c) /\ ~Requires(s.removes, t, c)
    /\ \A t : Whole(s.removes, t) <=> t \in T

\* The tables the other migrations create.
NewTables(n) ==
    CASE n = 1 -> {"cooperative", "member", "farm"}
      [] n = 2 -> {"product_type", "product", "harvest", "production_batch", "lab_test",
                   "lab_test_result"}
      [] n = 3 -> {"certification_seq", "certification", "inspection", "inspection_report",
                   "qr_code", "export_document"}
      [] n = 4 -> {"notification_template", "notification"}
      [] n = 10 -> {"processing_step"}
      [] n = 11 -> {"product_document"}
      [] n = 13 -> {"lab"}
      [] n = 14 -> {"audit_log"}
      [] n = 15 -> {"system_setting"}
      [] n = 16 -> {"notification_preference"}
      [] n = 17 -> {"qr_scan_event"}
      [] OTHER -> {}

LEMMA NothingIn == \A t, c : ~Has({}, t, c) /\ ~Requires({}, t, c) /\ ~Whole({}, t)
BY DEF Has, Requires, Whole

LEMMA DroppingDrops == ASSUME NEW T PROVE Drops(Dropping(T), T)
<1>1. \A t, c : <<t, c>> \notin {<<u>> : u \in T}
  BY TupleFacts
<1>2. \A t, c : <<t, c, "required">> \notin {<<u>> : u \in T}
  BY TupleFacts
<1>3. \A t : <<t>> \in {<<u>> : u \in T} <=> t \in T
  OBVIOUS
<1>4. QED
  BY <1>1, <1>2, <1>3 DEF Drops, Dropping, Statements, Has, Requires, Whole

\* The migrations that only create tables.
Creators == {1, 2, 3, 4, 10, 11, 13, 14, 15, 16, 17}

LEMMA CreatorsCreate ==
    \A n \in Creators : Creates(Up[n], NewTables(n)) /\ Drops(Down[n], NewTables(n))
<1> USE DEF Creators, Up, Up001, Up002, Up003, Up004, Up010, Up011, Up013, Up014, Up015,
            Up016, Up017, Creating, Statements
<1>1. \A n \in Creators : \A t, c : <<t, c>> \in Up[n].adds => t \in NewTables(n)
  BY TableHas DEF TemplateKey, NewTables
<1>2. \A n \in Creators : \A t, c : <<t, c, "required">> \in Up[n].adds => t \in NewTables(n)
  BY TableRequires DEF TemplateKey, NewTables
<1>3. \A n \in Creators : \A f \in Up[n].absent : IsFact(f)
  BY TableIsFacts, PairIsFact DEF TemplateKey
<1>4. \A n \in Creators : /\ Up[n].removes = {} /\ Up[n].needs = {}
                          /\ Up[n].absent = Up[n].adds \/ Up[n].absent = {}
  <2>1. \A F : LET s == Creating(F)
               IN  s.removes = {} /\ s.needs = {} /\ s.absent = s.adds
    OBVIOUS
  <2>2. /\ Up010.removes = {} /\ Up010.needs = {} /\ Up010.absent = {}
    OBVIOUS
  <2>3. \A n \in Creators : n = 10 \/ \E F : Up[n] = Creating(F)
    <3> HIDE DEF Creating, Statements
    <3> QED OBVIOUS
  <2>4. Up[10] = Up010
    BY DEF Up
  <2> HIDE DEF Up, Creating, Statements, Up010
  <2>5. QED
    BY <2>1, <2>2, <2>3, <2>4
<1>5. \A n \in Creators : Creates(Up[n], NewTables(n))
  <2> USE DEF Creates, Has, Requires
  <2> HIDE DEF Creators, Up
  <2>1. QED
    BY <1>1, <1>2, <1>3, <1>4, NothingIn
<1>6. \A n \in Creators : Down[n] = Dropping(NewTables(n))
  BY DEF Down, Down001, Down002, Down003, Down004, Down010, Down011, Down013, Down014,
     Down015,
            Down016, Down017, NewTables
<1> HIDE DEF Creators, Up
<1>7. QED
  BY <1>5, <1>6, DroppingDrops
\* The five parts of 007.
LEMMA Facts007Catalogue ==
    \A t, c :
        /\ Has(Up007Catalogue.adds, t, c) <=>
                t = "product_type" /\ c \in {"certification_type", "hs_code",
                                             "onssa_category"}
        /\ Requires(Up007Catalogue.adds, t, c) <=>
                \/ t = "product_type" /\ c \in {"certification_type", "name_ar",
                                                "lab_test_parameters"}
                \/ t = "lab_test_result" /\ c \in {"test_values"}
        /\ Has(Up007Catalogue.removes, t, c) <=>
                \/ t = "product_type" /\ c \in {"certification_types", "is_active"}
                \/ t = "product" /\ c \in {"is_active"}
        /\ ~Requires(Up007Catalogue.removes, t, c)
        /\ ~Whole(Up007Catalogue.removes, t)
<1> USE DEF Up007Catalogue, Statements
<1>1. \A t, c :
        /\ Has(Up007Catalogue.adds, t, c) <=>
                t = "product_type" /\ c \in {"certification_type", "hs_code",
                                             "onssa_category"}
        /\ Has(Up007Catalogue.removes, t, c) <=>
                \/ t = "product_type" /\ c \in {"certification_types", "is_active"}
                \/ t = "product" /\ c \in {"is_active"}
  BY ColumnsHas, RequiredHas, TableHas DEF Has
<1>2. \A t, c :
        /\ Requires(Up007Catalogue.adds, t, c) <=>
                \/ t = "product_type" /\ c \in {"certification_type", "name_ar",
                                                "lab_test_parameters"}
                \/ t = "lab_test_result" /\ c \in {"test_values"}
        /\ ~Requires(Up007Catalogue.removes, t, c)
  BY ColumnsRequire, RequiredRequires, TableRequires DEF Requires
<1>3. \A t :
        /\ ~Whole(Up007Catalogue.removes, t)
  BY ColumnsWhole, RequiredWhole, TableWhole DEF Whole
<1>4. QED
  BY <1>1, <1>2, <1>3

LEMMA Facts007People ==
    \A t, c :
        /\ Has(Up007People.adds, t, c) <=>
                \/ t = "member" /\ c \in {"keycloak_user_id", "role",
                                          "FK_member_cooperative_id"}
                \/ t = "farm" /\ c \in {"FK_farm_cooperative_id"}
        /\ Requires(Up007People.adds, t, c) <=> t = "member" /\ c \in {"phone"}
        /\ Has(Up007People.removes, t, c) <=> t = "member" /\ c \in {"joined_at"}
        /\ ~Requires(Up007People.removes, t, c)
        /\ ~Whole(Up007People.removes, t)
<1> USE DEF Up007People, FarmKey, MemberKey, Statements
<1>1. \A t, c :
        /\ Has(Up007People.adds, t, c) <=>
                \/ t = "member" /\ c \in {"keycloak_user_id", "role",
                                          "FK_member_cooperative_id"}
                \/ t = "farm" /\ c \in {"FK_farm_cooperative_id"}
        /\ Has(Up007People.removes, t, c) <=> t = "member" /\ c \in {"joined_at"}
  BY ColumnsHas, RequiredHas, TableHas DEF Has
<1>2. \A t, c :
        /\ Requires(Up007People.adds, t, c) <=> t = "member" /\ c \in {"phone"}
        /\ ~Requires(Up007People.removes, t, c)
  BY ColumnsRequire, RequiredRequires, TableRequires DEF Requires
<1>3. \A t :
        /\ ~Whole(Up007People.removes, t)
  BY ColumnsWhole, RequiredWhole, TableWhole DEF Whole
<1>4. QED
  BY <1>1, <1>2, <1>3

LEMMA Facts007Inspections ==
    \A t, c :
        /\ Has(Up007Inspections.adds, t, c) <=>
                \/ t = "inspection" /\ c \in {"passed", "status"}
                \/ t = "inspection_report" /\ c \in {"certification_id", "cooperative_id",
                                                     "inspector_id", "completed_at",
                                                     "farm_findings", "non_conformities",
                                                     "UQ_inspection_report_inspection_id"}
        /\ Requires(Up007Inspections.adds, t, c) <=>
                t = "inspection_report" /\ c \in {"certification_id", "cooperative_id",
                                                  "inspector_id", "completed_at"}
        /\ Has(Up007Inspections.removes, t, c) <=>
                \/ t = "inspection" /\ c \in {"notes", "deleted_at"}
                \/ t = "inspection_report" /\ c \in {"findings", "photos", "filed_by",
                                                     "filed_at"}
        /\ Requires(Up007Inspections.removes, t, c) <=>
                t = "inspection" /\ c \in {"inspector_name"}
        /\ ~Whole(Up007Inspections.removes, t)
<1> USE DEF Up007Inspections, ReportKey, Statements
<1>1. \A t, c :
        /\ Has(Up007Inspections.adds, t, c) <=>
                \/ t = "inspection" /\ c \in {"passed", "status"}
                \/ t = "inspection_report" /\ c \in {"certification_id", "cooperative_id",
                                                     "inspector_id", "completed_at",
                                                     "farm_findings", "non_conformities",
                                                     "UQ_inspection_report_inspection_id"}
        /\ Has(Up007Inspections.removes, t, c) <=>
                \/ t = "inspection" /\ c \in {"notes", "deleted_at"}
                \/ t = "inspection_report" /\ c \in {"findings", "photos", "filed_by",
                                                     "filed_at"}
  BY ColumnsHas, RequiredHas, TableHas DEF Has
<1>2. \A t, c :
        /\ Requires(Up007Inspections.adds, t, c) <=>
                t = "inspection_report" /\ c \in {"certification_id", "cooperative_id",
                                                  "inspector_id", "completed_at"}
        /\ Requires(Up007Inspections.removes, t, c) <=>
                t = "inspection" /\ c \in {"inspector_name"}
  BY ColumnsRequire, RequiredRequires, TableRequires DEF Requires
<1>3. \A t :
        /\ ~Whole(Up007Inspections.removes, t)
  BY ColumnsWhole, RequiredWhole, TableWhole DEF Whole
<1>4. QED
  BY <1>1, <1>2, <1>3

LEMMA Facts007Exports ==
    \A t, c :
        /\ Has(Up007Exports.adds, t, c) <=>
                t = "export_document" /\ c \in {"cooperative_id", "consignee_name",
                                                "consignee_country", "requested_by",
                                                "destination_country", "onssa_reference",
                                                "valid_until", "document_url", "status"}
        /\ Requires(Up007Exports.adds, t, c) <=>
                t = "export_document" /\ c \in {"cooperative_id", "consignee_name",
                                                "consignee_country", "requested_by",
                                                "destination_country", "hs_code",
                                                "quantity_kg"}
        /\ Has(Up007Exports.removes, t, c) <=>
                t = "export_document" /\ c \in {"document_type", "document_number",
                                                "issued_at", "expires_at", "created_by",
                                                "deleted_at", "destination_country",
                                                "status"}
        /\ ~Requires(Up007Exports.removes, t, c)
        /\ ~Whole(Up007Exports.removes, t)
<1> USE DEF Up007Exports, Statements
<1>1. \A t, c :
        /\ Has(Up007Exports.adds, t, c) <=>
                t = "export_document" /\ c \in {"cooperative_id", "consignee_name",
                                                "consignee_country", "requested_by",
                                                "destination_country", "onssa_reference",
                                                "valid_until", "document_url", "status"}
        /\ Has(Up007Exports.removes, t, c) <=>
                t = "export_document" /\ c \in {"document_type", "document_number",
                                                "issued_at", "expires_at", "created_by",
                                                "deleted_at", "destination_country",
                                                "status"}
  BY ColumnsHas, RequiredHas, TableHas DEF Has
<1>2. \A t, c :
        /\ Requires(Up007Exports.adds, t, c) <=>
                t = "export_document" /\ c \in {"cooperative_id", "consignee_name",
                                                "consignee_country", "requested_by",
                                                "destination_country", "hs_code",
                                                "quantity_kg"}
        /\ ~Requires(Up007Exports.removes, t, c)
  BY ColumnsRequire, RequiredRequires, TableRequires DEF Requires
<1>3. \A t :
        /\ ~Whole(Up007Exports.removes, t)
  BY ColumnsWhole, RequiredWhole, TableWhole DEF Whole
<1>4. QED
  BY <1>1, <1>2, <1>3

LEMMA Facts007Templates ==
    \A t, c :
        /\ Has(Up007Templates.adds, t, c) <=>
                t = "notification_template" /\ c \in {"subject_template"}
        /\ Requires(Up007Templates.adds, t, c) <=>
                t = "notification_template" /\ c \in {"language"}
        /\ Has(Up007Templates.removes, t, c) <=>
                t = "notification_template" /\ c \in {"notification_template_code_channel_language_key"}
        /\ ~Requires(Up007Templates.removes, t, c)
        /\ ~Whole(Up007Templates.removes, t)
<1> USE DEF Up007Templates, TemplateKey, Statements
<1>1. \A t, c :
        /\ Has(Up007Templates.adds, t, c) <=>
                t = "notification_template" /\ c \in {"subject_template"}
        /\ Has(Up007Templates.removes, t, c) <=>
                t = "notification_template" /\ c \in {"notification_template_code_channel_language_key"}
  BY ColumnsHas, RequiredHas, TableHas DEF Has
<1>2. \A t, c :
        /\ Requires(Up007Templates.adds, t, c) <=>
                t = "notification_template" /\ c \in {"language"}
        /\ ~Requires(Up007Templates.removes, t, c)
  BY ColumnsRequire, RequiredRequires, TableRequires DEF Requires
<1>3. \A t :
        /\ ~Whole(Up007Templates.removes, t)
  BY ColumnsWhole, RequiredWhole, TableWhole DEF Whole
<1>4. QED
  BY <1>1, <1>2, <1>3

LEMMA Facts008 ==
    \A t, c :
        /\ Has(Up008.adds, t, c) <=>
                \/ t = "farm" /\ c \in {"FK_3ca263fd9aca7b93fa413dad7e2"}
                \/ t = "member" /\ c \in {"FK_6d12cf09622b87b72b0e2afdda6"}
                \/ t = "product_type" /\ c \in {"is_active"}
        /\ ~Requires(Up008.adds, t, c)
        /\ Has(Up008.removes, t, c) <=>
                \/ t = "farm" /\ c \in {"FK_farm_cooperative_id"}
                \/ t = "member" /\ c \in {"FK_member_cooperative_id"}
        /\ ~Requires(Up008.removes, t, c)
        /\ ~Whole(Up008.removes, t)
<1> USE DEF Up008, FarmKey, MemberKey, FarmKey8, MemberKey8, Statements
<1>1. \A t, c :
        /\ Has(Up008.adds, t, c) <=>
                \/ t = "farm" /\ c \in {"FK_3ca263fd9aca7b93fa413dad7e2"}
                \/ t = "member" /\ c \in {"FK_6d12cf09622b87b72b0e2afdda6"}
                \/ t = "product_type" /\ c \in {"is_active"}
        /\ Has(Up008.removes, t, c) <=>
                \/ t = "farm" /\ c \in {"FK_farm_cooperative_id"}
                \/ t = "member" /\ c \in {"FK_member_cooperative_id"}
  BY ColumnsHas, RequiredHas, TableHas DEF Has
<1>2. \A t, c :
        /\ ~Requires(Up008.adds, t, c)
        /\ ~Requires(Up008.removes, t, c)
  BY ColumnsRequire, RequiredRequires, TableRequires DEF Requires
<1>3. \A t :
        /\ ~Whole(Up008.removes, t)
  BY ColumnsWhole, RequiredWhole, TableWhole DEF Whole
<1>4. QED
  BY <1>1, <1>2, <1>3

LEMMA Facts009 ==
    \A t, c :
        /\ Has(Up009.adds, t, c) <=> t = "product_type" /\ c \in {"validity_days"}
        /\ ~Requires(Up009.adds, t, c)
        /\ ~Has(Up009.removes, t, c)
        /\ ~Requires(Up009.removes, t, c)
        /\ ~Whole(Up009.removes, t)
<1> USE DEF Up009, Statements
<1>1. \A t, c :
        /\ Has(Up009.adds, t, c) <=> t = "product_type" /\ c \in {"validity_days"}
        /\ ~Has(Up009.removes, t, c)
  BY ColumnsHas, RequiredHas, TableHas DEF Has
<1>2. \A t, c :
        /\ ~Requires(Up009.adds, t, c)
        /\ ~Requires(Up009.removes, t, c)
  BY ColumnsRequire, RequiredRequires, TableRequires DEF Requires
<1>3. \A t :
        /\ ~Whole(Up009.removes, t)
  BY ColumnsWhole, RequiredWhole, TableWhole DEF Whole
<1>4. QED
  BY <1>1, <1>2, <1>3

LEMMA Facts012 ==
    \A t, c :
        /\ Has(Up012.adds, t, c) <=> t = "lab_test" /\ c \in {"report_s3_key",
                                                              "report_file_name"}
        /\ ~Requires(Up012.adds, t, c)
        /\ ~Has(Up012.removes, t, c)
        /\ ~Requires(Up012.removes, t, c)
        /\ ~Whole(Up012.removes, t)
<1> USE DEF Up012, ReportColumns, Statements
<1>1. \A t, c :
        /\ Has(Up012.adds, t, c) <=> t = "lab_test" /\ c \in {"report_s3_key",
                                                              "report_file_name"}
        /\ ~Has(Up012.removes, t, c)
  BY ColumnsHas, RequiredHas, TableHas DEF Has
<1>2. \A t, c :
        /\ ~Requires(Up012.adds, t, c)
        /\ ~Requires(Up012.removes, t, c)
  BY ColumnsRequire, RequiredRequires, TableRequires DEF Requires
<1>3. \A t :
        /\ ~Whole(Up012.removes, t)
  BY ColumnsWhole, RequiredWhole, TableWhole DEF Whole
<1>4. QED
  BY <1>1, <1>2, <1>3

LEMMA FactsDown005 ==
    \A t, c :
        /\ Has(Down005.adds, t, c) <=> t = "certification" /\ c \in {"status"}
        /\ ~Requires(Down005.adds, t, c)
        /\ Has(Down005.removes, t, c) <=> t = "certification" /\ c \in {"current_status"}
        /\ ~Requires(Down005.removes, t, c)
        /\ Whole(Down005.removes, t) <=> t = "certification_events"
<1> USE DEF Down005, Statements
<1>1. \A t, c :
        /\ Has(Down005.adds, t, c) <=> t = "certification" /\ c \in {"status"}
        /\ Has(Down005.removes, t, c) <=> t = "certification" /\ c \in {"current_status"}
  BY ColumnsHas, RequiredHas, TableHas DEF Has
<1>2. \A t, c :
        /\ ~Requires(Down005.adds, t, c)
        /\ ~Requires(Down005.removes, t, c)
  BY ColumnsRequire, RequiredRequires, TableRequires DEF Requires
<1>3. \A t :
        /\ Whole(Down005.removes, t) <=> t = "certification_events"
  BY ColumnsWhole, RequiredWhole, TableWhole DEF Whole
<1>4. QED
  BY <1>1, <1>2, <1>3

LEMMA FactsDown008 ==
    \A t, c :
        /\ Has(Down008.adds, t, c) <=>
                \/ t = "farm" /\ c \in {"FK_farm_cooperative_id"}
                \/ t = "member" /\ c \in {"FK_member_cooperative_id"}
        /\ ~Requires(Down008.adds, t, c)
        /\ Has(Down008.removes, t, c) <=>
                \/ t = "farm" /\ c \in {"FK_3ca263fd9aca7b93fa413dad7e2"}
                \/ t = "member" /\ c \in {"FK_6d12cf09622b87b72b0e2afdda6"}
                \/ t = "product_type" /\ c \in {"is_active"}
        /\ ~Requires(Down008.removes, t, c)
        /\ ~Whole(Down008.removes, t)
<1> USE DEF Down008, FarmKey, MemberKey, FarmKey8, MemberKey8, Statements
<1>1. \A t, c :
        /\ Has(Down008.adds, t, c) <=>
                \/ t = "farm" /\ c \in {"FK_farm_cooperative_id"}
                \/ t = "member" /\ c \in {"FK_member_cooperative_id"}
        /\ Has(Down008.removes, t, c) <=>
                \/ t = "farm" /\ c \in {"FK_3ca263fd9aca7b93fa413dad7e2"}
                \/ t = "member" /\ c \in {"FK_6d12cf09622b87b72b0e2afdda6"}
                \/ t = "product_type" /\ c \in {"is_active"}
  BY ColumnsHas, RequiredHas, TableHas DEF Has
<1>2. \A t, c :
        /\ ~Requires(Down008.adds, t, c)
        /\ ~Requires(Down008.removes, t, c)
  BY ColumnsRequire, RequiredRequires, TableRequires DEF Requires
<1>3. \A t :
        /\ ~Whole(Down008.removes, t)
  BY ColumnsWhole, RequiredWhole, TableWhole DEF Whole
<1>4. QED
  BY <1>1, <1>2, <1>3

LEMMA FactsDown009 ==
    \A t, c :
        /\ ~Has(Down009.adds, t, c)
        /\ ~Requires(Down009.adds, t, c)
        /\ Has(Down009.removes, t, c) <=> t = "product_type" /\ c \in {"validity_days"}
        /\ ~Requires(Down009.removes, t, c)
        /\ ~Whole(Down009.removes, t)
<1> USE DEF Down009, Statements
<1>1. \A t, c :
        /\ ~Has(Down009.adds, t, c)
        /\ Has(Down009.removes, t, c) <=> t = "product_type" /\ c \in {"validity_days"}
  BY ColumnsHas, RequiredHas, TableHas DEF Has
<1>2. \A t, c :
        /\ ~Requires(Down009.adds, t, c)
        /\ ~Requires(Down009.removes, t, c)
  BY ColumnsRequire, RequiredRequires, TableRequires DEF Requires
<1>3. \A t :
        /\ ~Whole(Down009.removes, t)
  BY ColumnsWhole, RequiredWhole, TableWhole DEF Whole
<1>4. QED
  BY <1>1, <1>2, <1>3

LEMMA FactsDown012 ==
    \A t, c :
        /\ ~Has(Down012.adds, t, c)
        /\ ~Requires(Down012.adds, t, c)
        /\ Has(Down012.removes, t, c) <=> t = "lab_test" /\ c \in {"report_s3_key",
                                                                   "report_file_name"}
        /\ ~Requires(Down012.removes, t, c)
        /\ ~Whole(Down012.removes, t)
<1> USE DEF Down012, ReportColumns, Statements
<1>1. \A t, c :
        /\ ~Has(Down012.adds, t, c)
        /\ Has(Down012.removes, t, c) <=> t = "lab_test" /\ c \in {"report_s3_key",
                                                                   "report_file_name"}
  BY ColumnsHas, RequiredHas, TableHas DEF Has
<1>2. \A t, c :
        /\ ~Requires(Down012.adds, t, c)
        /\ ~Requires(Down012.removes, t, c)
  BY ColumnsRequire, RequiredRequires, TableRequires DEF Requires
<1>3. \A t :
        /\ ~Whole(Down012.removes, t)
  BY ColumnsWhole, RequiredWhole, TableWhole DEF Whole
<1>4. QED
  BY <1>1, <1>2, <1>3

LEMMA FactsDown007 ==
    \A t, c :
        /\ Has(Down007.adds, t, c) <=>
                \/ t = "export_document" /\ c \in {"destination_country", "status"}
                \/ t = "product_type" /\ c \in {"certification_types", "is_active"}
                \/ t = "product" /\ c \in {"is_active"}
                \/ t = "notification_template" /\ c \in {"notification_template_code_channel_language_key"}
        /\ ~Requires(Down007.adds, t, c)
        /\ Has(Down007.removes, t, c) <=>
                \/ t = "export_document" /\ c \in {"requested_by", "document_url",
                                                   "valid_until", "consignee_country",
                                                   "consignee_name", "onssa_reference",
                                                   "cooperative_id", "destination_country",
                                                   "status"}
                \/ t = "inspection_report" /\ c \in {"completed_at", "non_conformities",
                                                     "farm_findings", "inspector_id",
                                                     "cooperative_id", "certification_id"}
                \/ t = "inspection" /\ c \in {"passed"}
                \/ t = "member" /\ c \in {"keycloak_user_id", "FK_member_cooperative_id"}
                \/ t = "farm" /\ c \in {"FK_farm_cooperative_id"}
                \/ t = "product_type" /\ c \in {"onssa_category", "hs_code",
                                                "certification_type"}
        /\ Requires(Down007.removes, t, c) <=>
                \/ t = "lab_test_result" /\ c \in {"test_values"}
                \/ t = "notification_template" /\ c \in {"language"}
        /\ ~Whole(Down007.removes, t)
<1> USE DEF Down007, MemberKey, FarmKey, TemplateKey, Statements
<1>1. \A t, c :
        /\ Has(Down007.adds, t, c) <=>
                \/ t = "export_document" /\ c \in {"destination_country", "status"}
                \/ t = "product_type" /\ c \in {"certification_types", "is_active"}
                \/ t = "product" /\ c \in {"is_active"}
                \/ t = "notification_template" /\ c \in {"notification_template_code_channel_language_key"}
        /\ Has(Down007.removes, t, c) <=>
                \/ t = "export_document" /\ c \in {"requested_by", "document_url",
                                                   "valid_until", "consignee_country",
                                                   "consignee_name", "onssa_reference",
                                                   "cooperative_id", "destination_country",
                                                   "status"}
                \/ t = "inspection_report" /\ c \in {"completed_at", "non_conformities",
                                                     "farm_findings", "inspector_id",
                                                     "cooperative_id", "certification_id"}
                \/ t = "inspection" /\ c \in {"passed"}
                \/ t = "member" /\ c \in {"keycloak_user_id", "FK_member_cooperative_id"}
                \/ t = "farm" /\ c \in {"FK_farm_cooperative_id"}
                \/ t = "product_type" /\ c \in {"onssa_category", "hs_code",
                                                "certification_type"}
  BY ColumnsHas, RequiredHas, TableHas DEF Has
<1>2. \A t, c :
        /\ ~Requires(Down007.adds, t, c)
        /\ Requires(Down007.removes, t, c) <=>
                \/ t = "lab_test_result" /\ c \in {"test_values"}
                \/ t = "notification_template" /\ c \in {"language"}
  BY ColumnsRequire, RequiredRequires, TableRequires DEF Requires
<1>3. \A t :
        /\ ~Whole(Down007.removes, t)
  BY ColumnsWhole, RequiredWhole, TableWhole DEF Whole
<1>4. QED
  BY <1>1, <1>2, <1>3

LEMMA Facts005 ==
    \A t, c :
        /\ Has(Up005.adds, t, c) => \/ t = "certification_events"
                                    \/ t = "certification" /\ c = "current_status"
        /\ Has(Up005.adds, "certification", "current_status")
        /\ Requires(Up005.adds, t, c) => t = "certification_events"
        /\ Has(Up005.removes, t, c) <=> t = "certification" /\ c = "status"
        /\ ~Requires(Up005.removes, t, c)
        /\ ~Whole(Up005.removes, t)
        /\ Up005.absent = Up005.adds /\ Up005.needs = Up005.removes
        /\ \A f \in Up005.adds : IsFact(f)
<1> USE DEF Up005, Statements
<1>1. \A t, c :
        /\ Has(Up005.adds, t, c) => \/ t = "certification_events"
                                    \/ t = "certification" /\ c = "current_status"
        /\ Has(Up005.adds, "certification", "current_status")
        /\ Has(Up005.removes, t, c) <=> t = "certification" /\ c = "status"
  BY TableHas DEF Has
<1>2. \A t, c : /\ Requires(Up005.adds, t, c) => t = "certification_events"
                /\ ~Requires(Up005.removes, t, c)
  BY TableRequires DEF Requires
<1>3. \A t : ~Whole(Up005.removes, t)
  BY DEF Whole
<1>4. \A f \in Up005.adds : IsFact(f)
  BY TableIsFacts, PairIsFact
<1>5. Up005.absent = Up005.adds /\ Up005.needs = Up005.removes
  OBVIOUS
<1>6. QED
  BY <1>1, <1>2, <1>3, <1>4, <1>5

Parts007 == {Up007Catalogue, Up007People, Up007Inspections, Up007Exports, Up007Templates}

\* The whole of 007.
LEMMA Facts007 ==
    \A t, c :
        /\ Has(Up007.adds, t, c) <=> \E s \in Parts007 : Has(s.adds, t, c)
        /\ Requires(Up007.adds, t, c) <=> \E s \in Parts007 : Requires(s.adds, t, c)
        /\ Has(Up007.removes, t, c) <=> \E s \in Parts007 : Has(s.removes, t, c)
        /\ Requires(Up007.removes, t, c) <=> \E s \in Parts007 : Requires(s.removes, t, c)
        /\ ~Whole(Up007.removes, t)
<1> USE DEF Up007, Together, Statements, Parts007
<1>1. \A t, c :
        /\ Has(Up007.adds, t, c) <=> \E s \in Parts007 : Has(s.adds, t, c)
        /\ Has(Up007.removes, t, c) <=> \E s \in Parts007 : Has(s.removes, t, c)
  BY DEF Has
<1>2. \A t, c :
        /\ Requires(Up007.adds, t, c) <=> \E s \in Parts007 : Requires(s.adds, t, c)
        /\ Requires(Up007.removes, t, c) <=> \E s \in Parts007 : Requires(s.removes, t, c)
  BY DEF Requires
<1>3. \A t : Whole(Up007.removes, t) <=> \E s \in Parts007 : Whole(s.removes, t)
  BY DEF Whole
<1>4. \A t : \A s \in Parts007 : ~Whole(s.removes, t)
  BY Facts007Catalogue, Facts007People, Facts007Inspections, Facts007Exports,
     Facts007Templates
<1> HIDE DEF Up007, Together, Statements, Parts007
<1>5. QED
  BY <1>1, <1>2, <1>3, <1>4

LEMMA Facts006 == /\ Up006.adds = {} /\ Up006.removes = {} /\ Up006.needs = {}
                  /\ Up006.absent = {} /\ Down006 = Up006
BY DEF Up006, Down006, Statements

\* Every fact a migration adds looks like one.
LEMMA AddsAreFacts ==
    \A n \in 1..17 : /\ \A f \in Up[n].adds : IsFact(f)
                     /\ \A f \in Down[n].adds : IsFact(f)
<1>1. \A f \in Up007.adds : IsFact(f)
  <2>1. \A s \in Parts007 : \A f \in s.adds : IsFact(f)
    BY TableIsFacts, ColumnsIsFacts, RequiredIsFacts, PairIsFact
       DEF Parts007, Up007Catalogue, Up007People, Up007Inspections, Up007Exports,
           Up007Templates, Statements, ReportKey, FarmKey, MemberKey
  <2>2. Up007.adds = UNION {s.adds : s \in Parts007}
    BY DEF Up007, Together, Statements, Parts007
  <2>3. QED
    BY <2>1, <2>2
<1>2. \A n \in Creators : \A f \in Up[n].adds : IsFact(f)
  BY TableIsFacts, PairIsFact
     DEF Creators, Up, Up001, Up002, Up003, Up004, Up010, Up011, Up013, Up014, Up015, Up016,
         Up017, Creating, Statements, TemplateKey
<1>3. \A f \in Up008.adds \cup Up009.adds \cup Up012.adds : IsFact(f)
  BY ColumnsIsFacts, PairIsFact
     DEF Up008, Up009, Up012, ReportColumns, FarmKey8, MemberKey8, Statements
<1>4. \A f \in Down005.adds \cup Down007.adds \cup Down008.adds : IsFact(f)
  BY ColumnsIsFacts, PairIsFact
     DEF Down005, Down007, Down008, FarmKey, MemberKey, TemplateKey, Statements
<1>5. Down009.adds = {} /\ Down012.adds = {} /\ Down006.adds = {}
  BY DEF Down006, Down009, Down012, Statements
<1>6. \A n \in Creators : Down[n].adds = {}
  BY CreatorsCreate DEF Drops
<1>7. \A n \in 1..17 : n \in Creators \/ n \in {5, 6, 7, 8, 9, 12}
  BY DEF Creators
<1>8. QED
  BY <1>1, <1>2, <1>3, <1>4, <1>5, <1>6, <1>7, Facts005, Facts006 DEF Up, Down

\* A migration leaves the tables alone that it does not change, whichever way it runs.
LEMMA OthersSpared ==
    ASSUME NEW n \in 1..17, NEW t, n \notin ChangedBy(t)
    PROVE  Spares(Up[n], t) /\ Spares(Down[n], t)
<1>1. CASE n \in Creators
  <2>1. t \notin NewTables(n)
    BY <1>1 DEF Creators, NewTables, ChangedBy
  <2>2. QED
    BY <1>1, <2>1, CreatorsCreate, NothingIn DEF Spares, Creates, Drops
<1>2. CASE n = 5
  <2>1. t \notin {"certification", "certification_events"}
    BY <1>2 DEF ChangedBy
  <2>2. Spares(Up005, t) /\ Spares(Down005, t)
    BY <2>1, Facts005, FactsDown005 DEF Spares
  <2>3. QED
    BY <1>2, <2>2 DEF Up, Down
<1>3. CASE n = 6
  <2>1. Spares(Up006, t) /\ Spares(Down006, t)
    BY Facts006, NothingIn DEF Spares
  <2>2. QED
    BY <1>3, <2>1 DEF Up, Down
<1>4. CASE n = 7
  <2>1. t \notin {"product_type", "product", "lab_test_result", "member", "farm",
                  "inspection",
                  "inspection_report", "export_document", "notification_template"}
    BY <1>4 DEF ChangedBy
  <2>2. \A s \in Parts007 : Spares(s, t)
    BY <2>1, Facts007Catalogue, Facts007People, Facts007Inspections, Facts007Exports,
       Facts007Templates DEF Spares, Parts007
  <2>3. Spares(Up007, t)
    BY <2>2, Facts007 DEF Spares
  <2>4. Spares(Down007, t)
    BY <2>1, FactsDown007 DEF Spares
  <2>5. QED
    BY <1>4, <2>3, <2>4 DEF Up, Down
<1>5. CASE n \in {8, 9, 12}
  <2>1. /\ n = 8 => t \notin {"farm", "member", "product_type"}
        /\ n = 9 => t # "product_type"
        /\ n = 12 => t # "lab_test"
    BY <1>5 DEF ChangedBy
  <2>2. /\ n = 8 => Spares(Up008, t) /\ Spares(Down008, t)
        /\ n = 9 => Spares(Up009, t) /\ Spares(Down009, t)
        /\ n = 12 => Spares(Up012, t) /\ Spares(Down012, t)
    BY <2>1, Facts008, Facts009, Facts012, FactsDown008, FactsDown009,
       FactsDown012 DEF Spares
  <2>3. QED
    BY <1>5, <2>2 DEF Up, Down
<1>6. QED
  BY <1>1, <1>2, <1>3, <1>4, <1>5 DEF Creators

-----------------------------------------------------------------------------
(* Table by table *)

\* Two schemas have the same table t; a schema has no such table.
Same(X, Y, t) == \A c : /\ Has(X, t, c) <=> Has(Y, t, c)
                        /\ Requires(X, t, c) <=> Requires(Y, t, c)
Absent(X, t) == \A c : ~Has(X, t, c) /\ ~Requires(X, t, c)

\* Statements treat the same table in the same way, and one they spare not at all.
LEMMA AfterSame ==
    ASSUME NEW s, NEW X, NEW Y, NEW t, Same(X, Y, t)
    PROVE  Same(After(s, X), After(s, Y), t)
BY AfterFacts DEF Same

LEMMA AfterSpared ==
    ASSUME NEW s, NEW X, NEW t, Spares(s, t)
    PROVE  Same(After(s, X), X, t)
BY AfterFacts DEF Same, Spares

LEMMA SameSteps ==
    ASSUME NEW X, NEW Y, NEW Z, NEW t, Same(X, Y, t), Same(Y, Z, t)
    PROVE  Same(X, Z, t) /\ Same(Y, X, t)
BY DEF Same

\* What is built stays while no migration changes it.
LEMMA BuiltStays ==
    ASSUME NEW n \in 0..17, NEW m \in n..17, NEW t, \A i \in (n + 1)..m : i \notin ChangedBy(t)
    PROVE  Same(Built[m], Built[n], t)
<1> DEFINE S == {i \in n..m : Same(Built[i], Built[n], t)}
<1>1. n \in S
  BY DEF Same
<1>2. ASSUME NEW i \in (n + 1)..m, i - 1 \in S PROVE i \in S
  <2>1. Built[i] = After(Up[i], Built[i - 1]) /\ i \in 1..17
    BY BuiltSteps DEF Last
  <2>2. Same(Built[i], Built[i - 1], t)
    BY <2>1, OthersSpared, AfterSpared
  <2>3. Same(Built[i], Built[n], t)
    BY <1>2, <2>2, SameSteps
  <2>4. QED
    BY <2>3
<1> HIDE DEF S
<1>3. n \in Nat /\ m \in Nat /\ m \in n..m
  OBVIOUS
<1>4. m \in S
  BY <1>1, <1>2, <1>3, IntervalInduction
<1>5. QED
  BY <1>4 DEF S

LEMMA NotYetBuilt ==
    ASSUME NEW n \in 0..17, NEW t, \A i \in 1..n : i \notin ChangedBy(t)
    PROVE  Absent(Built[n], t)
<1>1. Same(Built[n], Built[0], t)
  BY BuiltStays
<1>2. QED
  BY <1>1, BuiltSteps, NothingIn DEF Same, Absent

\* No migration changes a table before it is created.
LEMMA FirstChange ==
    ASSUME NEW n \in Creators, NEW t \in NewTables(n)
    PROVE  n \in ChangedBy(t) /\ \A i \in 1..(n - 1) : i \notin ChangedBy(t)
BY DEF Creators, NewTables, ChangedBy

\* A table as the migration that creates it leaves it.
LEMMA BuiltFirst ==
    ASSUME NEW n \in Creators, NEW t \in NewTables(n), NEW m \in n..17,
           \A i \in (n + 1)..m : i \notin ChangedBy(t), NEW c
    PROVE  /\ Has(Built[m], t, c) <=> Has(Up[n].adds, t, c)
           /\ Requires(Built[m], t, c) <=> Requires(Up[n].adds, t, c)
<1>1. n \in 1..17
  BY DEF Creators
<1>2. Absent(Built[n - 1], t)
  BY <1>1, FirstChange, NotYetBuilt
<1>3. Built[n] = After(Up[n], Built[n - 1])
  BY <1>1, BuiltSteps DEF Last
<1>4. Same(Built[m], Built[n], t)
  BY <1>1, BuiltStays
<1>5. QED
  BY <1>2, <1>3, <1>4, AfterFacts DEF Absent, Same

\* What is created stays a set of facts.
LEMMA AfterIsFacts ==
    ASSUME NEW s, NEW X, \A f \in X : IsFact(f), \A f \in s.adds : IsFact(f)
    PROVE  \A f \in After(s, X) : IsFact(f)
BY DEF After

LEMMA BuiltIsFacts == ASSUME NEW n \in 0..17 PROVE \A f \in Built[n] : IsFact(f)
<1> DEFINE S == {i \in 0..17 : \A f \in Built[i] : IsFact(f)}
<1>1. 0 \in S
  BY BuiltSteps
<1>2. ASSUME NEW i \in (0 + 1)..17, i - 1 \in S PROVE i \in S
  BY <1>2, BuiltSteps, AfterIsFacts, AddsAreFacts DEF Last
<1> HIDE DEF S
<1>3. 0..17 \subseteq S
  BY <1>1, <1>2, IntervalInduction
<1>4. QED
  BY <1>3 DEF S

-----------------------------------------------------------------------------
(* The columns later migrations work on *)

LEMMA FirstColumns ==
    /\ /\ Has(Up001.adds, "member", "phone") /\ ~Has(Up001.adds, "member", MemberKey[2])
       /\ ~Has(Up001.adds, "farm", FarmKey[2])
       /\ ~Has(Up001.adds, "farm", FarmKey8[2]) /\ ~Has(Up001.adds, "member", MemberKey8[2])
       /\ Has(Up001.adds, "member", "id") /\ Has(Up001.adds, "farm", "id")
    /\ /\ \A c \in {"id", "name_ar", "lab_test_parameters", "is_active"} :
              Has(Up002.adds, "product_type", c)
       /\ ~Has(Up002.adds, "product_type", "validity_days")
       /\ Has(Up002.adds, "product", "is_active")
       /\ Has(Up002.adds, "lab_test_result", "test_values")
       /\ Has(Up002.adds, "lab_test", "id")
       /\ \A c \in {"report_s3_key", "report_file_name"} : ~Has(Up002.adds, "lab_test", c)
    /\ /\ Has(Up003.adds, "certification", "status")
       /\ ~Has(Up003.adds, "certification", "current_status")
       /\ Has(Up003.adds, "inspection", "inspector_name")
       /\ Has(Up003.adds, "export_document", "hs_code")
       /\ Has(Up003.adds, "export_document", "quantity_kg")
       /\ ~Has(Up003.adds, "inspection_report", ReportKey[2])
       /\ \A t \in {"inspection", "inspection_report", "export_document"} :
              Has(Up003.adds, t, "id")
    /\ \A c \in {"language", "subject_template", TemplateKey[2]} :
           Has(Up004.adds, "notification_template", c)
<1> USE DEF Has, Creating, Statements, Times
<1>1. /\ Has(Up001.adds, "member", "phone") /\ ~Has(Up001.adds, "member", MemberKey[2])
      /\ ~Has(Up001.adds, "farm", FarmKey[2])
      /\ ~Has(Up001.adds, "farm", FarmKey8[2]) /\ ~Has(Up001.adds, "member", MemberKey8[2])
      /\ Has(Up001.adds, "member", "id") /\ Has(Up001.adds, "farm", "id")
  BY TableHas DEF Up001, MemberKey, FarmKey, FarmKey8, MemberKey8
<1>2. /\ \A c \in {"id", "name_ar", "lab_test_parameters", "is_active"} :
             Has(Up002.adds, "product_type", c)
      /\ ~Has(Up002.adds, "product_type", "validity_days")
      /\ Has(Up002.adds, "product", "is_active")
      /\ Has(Up002.adds, "lab_test_result", "test_values")
      /\ Has(Up002.adds, "lab_test", "id")
      /\ \A c \in {"report_s3_key", "report_file_name"} : ~Has(Up002.adds, "lab_test", c)
  BY TableHas DEF Up002
<1>3. /\ Has(Up003.adds, "certification", "status")
      /\ ~Has(Up003.adds, "certification", "current_status")
      /\ Has(Up003.adds, "inspection", "inspector_name")
      /\ Has(Up003.adds, "export_document", "hs_code")
      /\ Has(Up003.adds, "export_document", "quantity_kg")
      /\ ~Has(Up003.adds, "inspection_report", ReportKey[2])
      /\ \A t \in {"inspection", "inspection_report", "export_document"} :
             Has(Up003.adds, t, "id")
  BY TableHas DEF Up003, ReportKey
<1>4. \A c \in {"language", "subject_template", TemplateKey[2]} :
          Has(Up004.adds, "notification_template", c)
  BY TableHas DEF Up004, TemplateKey
<1> HIDE DEF Has, Creating, Statements, Times
<1>5. QED
  BY <1>1, <1>2, <1>3, <1>4

LEMMA FirstRequirements ==
    /\ \A c \in {"keycloak_user_id", MemberKey[2], MemberKey8[2]} :
           ~Requires(Up001.adds, "member", c)
    /\ \A c \in {FarmKey[2], FarmKey8[2]} : ~Requires(Up001.adds, "farm", c)
    /\ \A c \in {"hs_code", "onssa_category", "is_active", "validity_days"} :
           ~Requires(Up002.adds, "product_type", c)
    /\ ~Requires(Up002.adds, "product", "is_active")
    /\ ~Requires(Up002.adds, "lab_test_result", "test_values")
    /\ \A c \in {"report_s3_key", "report_file_name"} : ~Requires(Up002.adds, "lab_test", c)
    /\ \A c \in {"status", "current_status"} : ~Requires(Up003.adds, "certification", c)
    /\ \A c \in {"language", TemplateKey[2]} :
           ~Requires(Up004.adds, "notification_template", c)
BY TableRequires DEF Requires, Up001, Up002, Up003, Up004, Creating, Statements, Times,
   MemberKey, FarmKey, FarmKey8, MemberKey8, TemplateKey

-----------------------------------------------------------------------------
(* What down undoes *)

\* Of the tables 007 finds: what its statements, and those after it, depend on.
LEMMA Before007 ==
    /\ /\ Has(Built[6], "member", "phone") /\ ~Has(Built[6], "member", MemberKey[2])
       /\ ~Has(Built[6], "member", MemberKey8[2])
       /\ \A c \in {"keycloak_user_id", MemberKey[2], MemberKey8[2]} :
              ~Requires(Built[6], "member", c)
    /\ \A c \in {FarmKey[2], FarmKey8[2]} :
           ~Has(Built[6], "farm", c) /\ ~Requires(Built[6], "farm", c)
    /\ /\ \A c \in {"id", "name_ar", "lab_test_parameters", "is_active"} :
              Has(Built[6], "product_type", c)
       /\ ~Has(Built[6], "product_type", "validity_days")
       /\ \A c \in {"hs_code", "onssa_category", "is_active", "validity_days"} :
              ~Requires(Built[6], "product_type", c)
    /\ /\ Has(Built[6], "product", "is_active") /\ ~Requires(Built[6], "product", "is_active")
       /\ Has(Built[6], "lab_test_result", "test_values")
       /\ ~Requires(Built[6], "lab_test_result", "test_values")
    /\ /\ Has(Built[6], "inspection", "inspector_name")
       /\ Has(Built[6], "export_document", "hs_code")
       /\ Has(Built[6], "export_document", "quantity_kg")
       /\ ~Has(Built[6], "inspection_report", ReportKey[2])
    /\ /\ \A c \in {"language", "subject_template", TemplateKey[2]} :
              Has(Built[6], "notification_template", c)
       /\ \A c \in {"language", TemplateKey[2]} :
              ~Requires(Built[6], "notification_template", c)
    /\ \A t \in Drifted : Has(Built[6], t, "id")
<1>0. Up[1] = Up001 /\ Up[2] = Up002 /\ Up[3] = Up003 /\ Up[4] = Up004
  BY DEF Up
<1>1. \A t \in {"member", "farm"} : \A c :
        /\ Has(Built[6], t, c) <=> Has(Up001.adds, t, c)
        /\ Requires(Built[6], t, c) <=> Requires(Up001.adds, t, c)
  <2>0. \A t \in {"member", "farm"} : t \in NewTables(1)
    BY DEF NewTables
  <2>1. \A t \in {"member", "farm"} :
          \A i \in (1 + 1)..6 : i \notin ChangedBy(t)
    <3>1. \A t \in {"member", "farm"} : \A i \in ChangedBy(t) : i <= 1 \/ i >= 7
      BY DEF ChangedBy
    <3>2. QED
      BY <3>1
  <2>2. 1 \in Creators
    BY DEF Creators
  <2>3. ASSUME NEW t \in {"member", "farm"}, NEW c
        PROVE  /\ Has(Built[6], t, c) <=> Has(Up[1].adds, t, c)
               /\ Requires(Built[6], t, c) <=> Requires(Up[1].adds, t, c)
    <3>1. t \in NewTables(1) /\ \A i \in (1 + 1)..6 : i \notin ChangedBy(t)
      BY <2>0, <2>1
    <3>2. 6 \in 1..17
      OBVIOUS
    <3>3. QED
      BY <2>2, <3>1, <3>2, BuiltFirst
  <2>4. QED
    BY <1>0, <2>3
<1>2. \A t \in {"product_type", "product", "lab_test_result"} : \A c :
        /\ Has(Built[6], t, c) <=> Has(Up002.adds, t, c)
        /\ Requires(Built[6], t, c) <=> Requires(Up002.adds, t, c)
  <2>0. \A t \in {"product_type", "product", "lab_test_result"} : t \in NewTables(2)
    BY DEF NewTables
  <2>1. \A t \in {"product_type", "product", "lab_test_result"} :
          \A i \in (2 + 1)..6 : i \notin ChangedBy(t)
    <3>1. \A t \in {"product_type", "product",
                    "lab_test_result"} : \A i \in ChangedBy(t) : i <= 2 \/ i >= 7
      BY DEF ChangedBy
    <3>2. QED
      BY <3>1
  <2>2. 2 \in Creators
    BY DEF Creators
  <2>3. ASSUME NEW t \in {"product_type", "product", "lab_test_result"}, NEW c
        PROVE  /\ Has(Built[6], t, c) <=> Has(Up[2].adds, t, c)
               /\ Requires(Built[6], t, c) <=> Requires(Up[2].adds, t, c)
    <3>1. t \in NewTables(2) /\ \A i \in (2 + 1)..6 : i \notin ChangedBy(t)
      BY <2>0, <2>1
    <3>2. 6 \in 2..17
      OBVIOUS
    <3>3. QED
      BY <2>2, <3>1, <3>2, BuiltFirst
  <2>4. QED
    BY <1>0, <2>3
<1>3. \A t \in {"inspection", "inspection_report", "export_document"} : \A c :
        Has(Built[6], t, c) <=> Has(Up003.adds, t, c)
  <2>0. \A t \in {"inspection", "inspection_report", "export_document"} : t \in NewTables(3)
    BY DEF NewTables
  <2>1. \A t \in {"inspection", "inspection_report", "export_document"} :
          \A i \in (3 + 1)..6 : i \notin ChangedBy(t)
    <3>1. \A t \in {"inspection", "inspection_report",
                    "export_document"} : \A i \in ChangedBy(t) : i <= 3 \/ i >= 7
      BY DEF ChangedBy
    <3>2. QED
      BY <3>1
  <2>2. 3 \in Creators
    BY DEF Creators
  <2>3. ASSUME NEW t \in {"inspection", "inspection_report", "export_document"}, NEW c
        PROVE  /\ Has(Built[6], t, c) <=> Has(Up[3].adds, t, c)
               /\ Requires(Built[6], t, c) <=> Requires(Up[3].adds, t, c)
    <3>1. t \in NewTables(3) /\ \A i \in (3 + 1)..6 : i \notin ChangedBy(t)
      BY <2>0, <2>1
    <3>2. 6 \in 3..17
      OBVIOUS
    <3>3. QED
      BY <2>2, <3>1, <3>2, BuiltFirst
  <2>4. QED
    BY <1>0, <2>3
<1>4. \A c :
        /\ Has(Built[6], "notification_template", c) <=>
               Has(Up004.adds, "notification_template", c)
        /\ Requires(Built[6], "notification_template", c) <=>
               Requires(Up004.adds, "notification_template", c)
  <2>1. /\ "notification_template" \in NewTables(4)
        /\ \A i \in (4 + 1)..6 : i \notin ChangedBy("notification_template")
    BY DEF NewTables, ChangedBy
  <2>2. 4 \in Creators
    BY DEF Creators
  <2>3. QED
    BY <1>0, <2>1, <2>2, BuiltFirst
<1>5. QED
  BY <1>1, <1>2, <1>3, <1>4, FirstColumns, FirstRequirements DEF Drifted

\* What 007 makes of them.
LEMMA With007 ==
    /\ /\ Has(Built[7], "member", MemberKey[2]) /\ ~Has(Built[7], "member", MemberKey8[2])
       /\ \A c \in {MemberKey[2], MemberKey8[2]} : ~Requires(Built[7], "member", c)
    /\ /\ Has(Built[7], "farm", FarmKey[2]) /\ ~Has(Built[7], "farm", FarmKey8[2])
       /\ \A c \in {FarmKey[2], FarmKey8[2]} : ~Requires(Built[7], "farm", c)
    /\ /\ Has(Built[7], "product_type", "id")
       /\ \A c \in {"certification_types", "is_active", "validity_days"} :
              ~Has(Built[7], "product_type", c)
       /\ \A c \in {"is_active", "validity_days"} : ~Requires(Built[7], "product_type", c)
    /\ /\ ~Has(Built[7], "product", "is_active")
       /\ Has(Built[7], "lab_test_result", "test_values")
    /\ Has(Built[7], "inspection_report", ReportKey[2])
    /\ /\ Has(Built[7], "notification_template", "language")
       /\ ~Has(Built[7], "notification_template", TemplateKey[2])
    /\ \A t \in Drifted : Has(Built[7], t, "id")
<1>1. \A t, c :
        /\ Has(Built[7], t, c) <=>
             \/ Has(Up007.adds, t, c)
             \/ Has(Built[6], t, c) /\ ~Has(Up007.removes, t, c)
        /\ Requires(Built[7], t, c) <=>
             \/ Requires(Up007.adds, t, c)
             \/ /\ Requires(Built[6], t, c) /\ ~Has(Up007.removes, t, c)
                /\ ~Requires(Up007.removes, t, c)
  <2>1. Built[7] = After(Up007, Built[6])
    BY BuiltSteps DEF Last, Up
  <2>2. QED
    BY <2>1, AfterFacts, Facts007
<1> USE <1>1, Before007, Facts007 DEF Parts007
<1>2. /\ Has(Built[7], "member", MemberKey[2]) /\ ~Has(Built[7], "member", MemberKey8[2])
      /\ \A c \in {MemberKey[2], MemberKey8[2]} : ~Requires(Built[7], "member", c)
      /\ Has(Built[7], "farm", FarmKey[2]) /\ ~Has(Built[7], "farm", FarmKey8[2])
      /\ \A c \in {FarmKey[2], FarmKey8[2]} : ~Requires(Built[7], "farm", c)
  BY Facts007Catalogue, Facts007People, Facts007Inspections, Facts007Exports,
     Facts007Templates DEF MemberKey, MemberKey8, FarmKey, FarmKey8
<1>3. /\ Has(Built[7], "product_type", "id")
      /\ \A c \in {"certification_types", "is_active", "validity_days"} :
              ~Has(Built[7], "product_type", c)
      /\ \A c \in {"is_active", "validity_days"} : ~Requires(Built[7], "product_type", c)
      /\ ~Has(Built[7], "product", "is_active")
      /\ Has(Built[7], "lab_test_result", "test_values")
  BY Facts007Catalogue, Facts007People, Facts007Inspections, Facts007Exports,
     Facts007Templates
<1>4. /\ Has(Built[7], "inspection_report", ReportKey[2])
      /\ Has(Built[7], "notification_template", "language")
      /\ ~Has(Built[7], "notification_template", TemplateKey[2])
  BY Facts007Catalogue, Facts007People, Facts007Inspections, Facts007Exports,
     Facts007Templates DEF ReportKey, TemplateKey
<1>5. \A t \in Drifted : Has(Built[7], t, "id")
  BY Facts007Catalogue, Facts007People, Facts007Inspections, Facts007Exports,
     Facts007Templates DEF Drifted
<1>6. QED
  BY <1>2, <1>3, <1>4, <1>5

\* Every down but that of 007 leads back to what was built before.
LEMMA DownUndoes ==
    ASSUME NEW n \in 1..17, n # 7, NEW t
    PROVE  Same(After(Down[n], Built[n]), Built[n - 1], t)
<1>0. Built[n] = After(Up[n], Built[n - 1])
  BY BuiltSteps DEF Last
<1>1. CASE n \notin ChangedBy(t)
  BY <1>0, <1>1, OthersSpared, AfterSpared, SameSteps
<1>2. CASE n \in Creators /\ t \in NewTables(n)
  <2>1. Absent(Built[n - 1], t)
    BY <1>2, FirstChange, NotYetBuilt
  <2>2. Absent(After(Down[n], Built[n]), t)
    <3>1. Drops(Down[n], NewTables(n))
      BY <1>2, CreatorsCreate
    <3>2. Whole(Down[n].removes, t) /\ Down[n].adds = {}
      BY <1>2, <3>1 DEF Drops
    <3>3. QED
      BY <3>2, AfterFacts, NothingIn DEF Absent
  <2>3. QED
    BY <2>1, <2>2 DEF Absent, Same
<1>3. CASE n = 5
  <2>1. Built[5] = After(Up005, Built[4]) /\ Down[5] = Down005
    BY <1>0, <1>3 DEF Up, Down
  <2>2. CASE t = "certification_events"
    <3>1. Absent(Built[4], t)
      <4>1. \A i \in 1..4 : i \notin ChangedBy(t)
        BY <2>2 DEF ChangedBy
      <4>2. QED
        BY <4>1, NotYetBuilt
    <3>2. Absent(After(Down005, Built[5]), t)
      BY <2>2, FactsDown005, AfterFacts DEF Absent
    <3>3. QED
      BY <1>3, <2>1, <3>1, <3>2 DEF Absent, Same
  <2>3. CASE t = "certification"
    <3>1. /\ Has(Built[4], t, "status") /\ ~Has(Built[4], t, "current_status")
          /\ \A c \in {"status", "current_status"} : ~Requires(Built[4], t, c)
      <4>1. /\ t \in NewTables(3) /\ 3 \in Creators /\ Up[3] = Up003
            /\ \A i \in (3 + 1)..4 : i \notin ChangedBy(t)
        BY <2>3 DEF NewTables, Creators, Up, ChangedBy
      <4>2. QED
        BY <2>3, <4>1, BuiltFirst, FirstColumns, FirstRequirements
    <3>2. Same(After(Down005, After(Up005, Built[4])), Built[4], t)
      BY <2>3, <3>1, Facts005, FactsDown005, AfterFacts DEF Same
    <3>3. QED
      BY <1>3, <2>1, <3>2
  <2>4. QED
    BY <1>1, <1>3, <2>2, <2>3 DEF ChangedBy
<1>4. CASE n = 8
  <2>1. Built[8] = After(Up008, Built[7]) /\ Down[8] = Down008
    BY <1>0, <1>4 DEF Up, Down
  <2>2. CASE t \in {"member", "farm", "product_type"}
    <3>1. Same(After(Down008, After(Up008, Built[7])), Built[7], t)
      BY <2>2, With007, Facts008, FactsDown008, AfterFacts
         DEF Same, MemberKey, MemberKey8, FarmKey, FarmKey8
    <3>2. QED
      BY <1>4, <2>1, <3>1
  <2>3. QED
    BY <1>1, <1>4, <2>2 DEF ChangedBy
<1>5. CASE n = 9
  <2>1. Built[9] = After(Up009, Built[8]) /\ Built[8] = After(Up008, Built[7])
        /\ Down[9] = Down009
    BY <1>0, <1>5, BuiltSteps DEF Up, Down, Last
  <2>2. CASE t = "product_type"
    <3>1. ~Has(Built[8], t, "validity_days") /\ ~Requires(Built[8], t, "validity_days")
      BY <2>1, <2>2, With007, Facts008, AfterFacts
    <3>2. Same(After(Down009, After(Up009, Built[8])), Built[8], t)
      BY <2>2, <3>1, Facts009, FactsDown009, AfterFacts DEF Same
    <3>3. QED
      BY <1>5, <2>1, <3>2
  <2>3. QED
    BY <1>1, <1>5, <2>2 DEF ChangedBy
<1>6. CASE n = 12
  <2>1. Built[12] = After(Up012, Built[11]) /\ Down[12] = Down012
    BY <1>0, <1>6 DEF Up, Down
  <2>2. CASE t = "lab_test"
    <3>1. \A c \in {"report_s3_key", "report_file_name"} :
            ~Has(Built[11], t, c) /\ ~Requires(Built[11], t, c)
      <4>1. /\ t \in NewTables(2) /\ 2 \in Creators /\ Up[2] = Up002
            /\ \A i \in (2 + 1)..11 : i \notin ChangedBy(t)
        BY <2>2 DEF NewTables, Creators, Up, ChangedBy
      <4>2. QED
        BY <2>2, <4>1, BuiltFirst, FirstColumns, FirstRequirements
    <3>2. Same(After(Down012, After(Up012, Built[11])), Built[11], t)
      BY <2>2, <3>1, Facts012, FactsDown012, AfterFacts DEF Same
    <3>3. QED
      BY <1>6, <2>1, <3>2
  <2>3. QED
    BY <1>1, <1>6, <2>2 DEF ChangedBy
<1>7. CASE n = 6
  BY <1>1, <1>7 DEF ChangedBy
<1>8. CASE n \in Creators /\ t \notin NewTables(n)
  <2>1. n \notin ChangedBy(t)
    BY <1>8 DEF Creators, NewTables, ChangedBy
  <2>2. QED
    BY <1>1, <2>1
<1>9. n \in Creators \/ n \in {5, 6, 8, 9, 12}
  BY DEF Creators
<1>10. QED
  BY <1>2, <1>3, <1>4, <1>5, <1>6, <1>7, <1>8, <1>9

-----------------------------------------------------------------------------
(* What 007's down leaves *)

Reverted == After(Down007, Built[7])

\* What 007's up and then its down make of a fact.
LEMMA RevertedFacts ==
    \A t, c :
        /\ Has(Reverted, t, c) <=>
             \/ Has(Down007.adds, t, c)
             \/ Has(Built[7], t, c) /\ ~Has(Down007.removes, t, c)
        /\ Requires(Reverted, t, c) <=>
             \/ Requires(Down007.adds, t, c)
             \/ /\ Requires(Built[7], t, c) /\ ~Has(Down007.removes, t, c)
                /\ ~Requires(Down007.removes, t, c)
        /\ Has(Built[7], t, c) <=>
             \/ Has(Up007.adds, t, c)
             \/ Has(Built[6], t, c) /\ ~Has(Up007.removes, t, c)
        /\ Requires(Built[7], t, c) <=>
             \/ Requires(Up007.adds, t, c)
             \/ /\ Requires(Built[6], t, c) /\ ~Has(Up007.removes, t, c)
                /\ ~Requires(Up007.removes, t, c)
<1>1. Built[7] = After(Up007, Built[6])
  BY BuiltSteps DEF Last, Up
<1>2. QED
  BY <1>1, AfterFacts, Facts007, FactsDown007 DEF Reverted

\* Down gives every other table back as up found it.
LEMMA RevertedElsewhere ==
    ASSUME NEW t, t \notin Drifted
    PROVE  Same(Reverted, Built[6], t)
<1> USE RevertedFacts, Before007, Facts007, FactsDown007 DEF Parts007, Same
<1>1. CASE t = "farm"
  BY <1>1, Facts007Catalogue, Facts007People, Facts007Inspections, Facts007Exports,
     Facts007Templates DEF FarmKey
<1>2. CASE t \in {"product", "lab_test_result"}
  BY <1>2, Facts007Catalogue, Facts007People, Facts007Inspections, Facts007Exports,
     Facts007Templates
<1>3. CASE t = "notification_template"
  BY <1>3, Facts007Catalogue, Facts007People, Facts007Inspections, Facts007Exports,
     Facts007Templates DEF TemplateKey
<1>4. CASE 7 \notin ChangedBy(t)
  <2>1. Spares(Up007, t) /\ Spares(Down007, t)
    BY <1>4, OthersSpared DEF Up, Down
  <2>2. QED
    BY <2>1, RevertedFacts DEF Spares, Same
<1>5. 7 \in ChangedBy(t) =>
        t \in {"farm", "product", "lab_test_result", "notification_template"}
  BY DEF ChangedBy, Drifted
<1>6. QED
  BY <1>1, <1>2, <1>3, <1>4, <1>5

\* The other tables keep what a second up needs, and the unique key of the
\* reports, which a second up cannot create again.
LEMMA RevertedTables ==
    /\ \A t \in Drifted : Has(Reverted, t, "id")
    /\ Has(Reverted, "inspection_report", ReportKey[2])
    /\ Has(Reverted, "member", "phone") /\ ~Has(Reverted, "member", MemberKey[2])
    /\ Has(Reverted, "product_type", "name_ar")
    /\ Has(Reverted, "product_type", "lab_test_parameters")
<1> USE RevertedFacts, Before007, With007, Facts007, FactsDown007 DEF Parts007
<1>1. \A t \in Drifted : Has(Reverted, t, "id")
  BY DEF Drifted
<1>2. /\ Has(Reverted, "inspection_report", ReportKey[2])
      /\ ~Has(Reverted, "member", MemberKey[2])
  BY DEF ReportKey, MemberKey
<1>3. /\ Has(Reverted, "member", "phone") /\ Has(Reverted, "product_type", "name_ar")
      /\ Has(Reverted, "product_type", "lab_test_parameters")
  BY Facts007Catalogue, Facts007People, Facts007Inspections, Facts007Exports,
     Facts007Templates
<1>4. QED
  BY <1>1, <1>2, <1>3

\* Of members and product types a second up makes what the first one made.
LEMMA RunAgain ==
    ASSUME NEW t \in {"member", "product_type"}
    PROVE  Same(After(Up007, Reverted), Built[7], t)
<1>1. \A c : /\ Has(After(Up007, Reverted), t, c) <=>
                  \/ Has(Up007.adds, t, c)
                  \/ Has(Reverted, t, c) /\ ~Has(Up007.removes, t, c)
             /\ Requires(After(Up007, Reverted), t, c) <=>
                  \/ Requires(Up007.adds, t, c)
                  \/ /\ Requires(Reverted, t, c) /\ ~Has(Up007.removes, t, c)
                     /\ ~Requires(Up007.removes, t, c)
  BY AfterFacts, Facts007
<1> USE RevertedFacts, Before007, Facts007, FactsDown007 DEF Parts007, Same
<1>2. CASE t = "member"
  BY <1>1, <1>2, Facts007Catalogue, Facts007People, Facts007Inspections, Facts007Exports,
     Facts007Templates DEF MemberKey
<1>3. CASE t = "product_type"
  BY <1>1, <1>3, Facts007Catalogue, Facts007People, Facts007Inspections, Facts007Exports,
     Facts007Templates
<1>4. QED
  BY <1>2, <1>3

-----------------------------------------------------------------------------
(* What is needed for a migration to run *)

LEMMA TablesHave ==
    ASSUME NEW X, \A f \in X : IsFact(f), NEW t
    PROVE  t \in Tables(X) <=> ~Absent(X, t)
<1>1. ASSUME NEW f \in X, f[1] = t PROVE ~Absent(X, t)
  <2>1. CASE f = <<f[1], f[2]>>
    BY <1>1, <2>1 DEF Absent, Has
  <2>2. CASE f = <<f[1], f[2], "required">>
    BY <1>1, <2>2 DEF Absent, Requires
  <2>3. QED
    BY <2>1, <2>2 DEF IsFact
<1>2. ASSUME NEW c, <<t, c>> \in X PROVE t \in Tables(X)
  BY <1>2 DEF Tables
<1>3. ASSUME NEW c, <<t, c, "required">> \in X PROVE t \in Tables(X)
  BY <1>3 DEF Tables
<1>4. QED
  BY <1>1, <1>2, <1>3 DEF Tables, Absent, Has, Requires

\* Facts of which a schema has none.
LEMMA NoneOf ==
    ASSUME NEW F, NEW X, \A f \in F : IsFact(f),
           \A t, c : /\ Has(F, t, c) => ~Has(X, t, c)
                     /\ Requires(F, t, c) => ~Requires(X, t, c)
    PROVE  F \cap X = {}
<1> SUFFICES ASSUME NEW f \in F, f \in X PROVE FALSE
  OBVIOUS
<1>1. CASE f = <<f[1], f[2]>>
  BY <1>1 DEF Has
<1>2. CASE f = <<f[1], f[2], "required">>
  BY <1>2 DEF Requires
<1>3. QED
  BY <1>1, <1>2 DEF IsFact

LEMMA CreatorPossible ==
    ASSUME NEW n \in Creators, NEW X, \A t \in NewTables(n) : Absent(X, t)
    PROVE  Possible(Up[n], X)
<1>1. Creates(Up[n], NewTables(n))
  BY CreatorsCreate
<1>2. Up[n].absent \cap X = {}
  BY <1>1, NoneOf DEF Creates, Absent
<1>3. QED
  BY <1>1, <1>2 DEF Creates, Possible

LEMMA DropPossible == ASSUME NEW n \in Creators, NEW X PROVE Possible(Down[n], X)
BY CreatorsCreate DEF Drops, Possible

LEMMA Possible005 ==
    ASSUME NEW X, Has(X, "certification", "status"), Absent(X, "certification_events"),
           ~Has(X, "certification", "current_status")
    PROVE  Possible(Up005, X)
<1>1. Up005.absent \cap X = {}
  BY Facts005, NoneOf DEF Absent
<1>2. Up005.needs \subseteq X
  BY DEF Up005, Statements, Has
<1>3. QED
  BY <1>1, <1>2 DEF Possible

LEMMA Possible007 ==
    ASSUME NEW X
    PROVE  Possible(Up007, X) <=>
             /\ Has(X, "product_type", "name_ar") /\ Has(X, "product_type", "lab_test_parameters")
             /\ Has(X, "lab_test_result", "test_values") /\ Has(X, "member", "phone")
             /\ Has(X, "inspection", "inspector_name")
             /\ Has(X, "export_document", "hs_code") /\ Has(X, "export_document", "quantity_kg")
             /\ Has(X, "notification_template", "language")
             /\ ~Has(X, "farm", FarmKey[2]) /\ ~Has(X, "member", MemberKey[2])
             /\ ~Has(X, "inspection_report", ReportKey[2])
<1>1. /\ Up007.needs = UNION {s.needs : s \in Parts007}
      /\ Up007.absent = UNION {s.absent : s \in Parts007}
  BY DEF Up007, Together, Statements, Parts007
<1>2. \A f : f \in Up007.needs <=>
        f \in {<<"product_type", "name_ar">>, <<"product_type", "lab_test_parameters">>,
               <<"lab_test_result", "test_values">>, <<"member", "phone">>,
               <<"inspection", "inspector_name">>, <<"export_document", "hs_code">>,
               <<"export_document", "quantity_kg">>, <<"notification_template", "language">>}
  BY <1>1 DEF Parts007, Up007Catalogue, Up007People, Up007Inspections, Up007Exports,
     Up007Templates, Statements, Columns
<1>3. \A f : f \in Up007.absent <=> f \in {FarmKey, MemberKey, ReportKey}
  BY <1>1 DEF Parts007, Up007Catalogue, Up007People, Up007Inspections, Up007Exports,
     Up007Templates, Statements
<1>4. QED
  BY <1>2, <1>3 DEF Possible, Has, FarmKey, MemberKey, ReportKey

LEMMA PossibleOthers ==
    ASSUME NEW X
    PROVE  /\ Has(X, "product_type", "id") /\ ~Has(X, "farm", FarmKey8[2])
              /\ ~Has(X, "member", MemberKey8[2]) => Possible(Up008, X)
           /\ Has(X, "product_type", "id") => Possible(Up009, X)
           /\ /\ Has(X, "lab_test", "id")
              /\ \A c \in {"report_s3_key", "report_file_name"} : ~Has(X, "lab_test", c)
              => Possible(Up012, X)
           /\ Possible(Up006, X)
BY DEF Possible, Has, Up006, Up008, Up009, Up012, ReportColumns, Columns, Statements,
   FarmKey8,
   MemberKey8

LEMMA PossibleDown ==
    ASSUME NEW X
    PROVE  /\ Has(X, "certification", "current_status") /\ ~Has(X, "certification", "status")
              => Possible(Down005, X)
           /\ /\ Has(X, "lab_test_result", "test_values")
              /\ Has(X, "notification_template", "language")
              /\ ~Has(X, "product_type", "certification_types")
              /\ ~Has(X, "product_type", "is_active") /\ ~Has(X, "product", "is_active")
              /\ ~Has(X, "notification_template", TemplateKey[2])
              => Possible(Down007, X)
           /\ ~Has(X, "farm", FarmKey[2]) /\ ~Has(X, "member", MemberKey[2])
              => Possible(Down008, X)
           /\ Possible(Down006, X) /\ Possible(Down009, X) /\ Possible(Down012, X)
BY DEF Possible, Has, Down005, Down006, Down007, Down008, Down009, Down012, Statements,
   FarmKey, MemberKey, TemplateKey

-----------------------------------------------------------------------------
(* The shape of the schema, and what keeps it *)

\* The schema S with n migrations applied, where a revert of 007 has left the
\* tables R changed: everything else is as it was built.
Shaped(n, S, R) ==
    /\ \A f \in S : IsFact(f)
    /\ R \subseteq Drifted /\ (n >= 7 => R = {})
    /\ \A t \in R : \E i \in 1..n : i \in ChangedBy(t)
    /\ \A t : t \notin R => Same(S, Built[n], t)
    /\ \A t \in R : Same(S, Reverted, t)
    /\ R \cap {"inspection", "export_document"} # {} => "inspection_report" \in R

\* Below 007 a table it drifts is changed by one migration only, which creates it.
LEMMA DriftedOnce ==
    /\ \A t \in Drifted : \A i \in 1..6 :
           i \in ChangedBy(t) => i \in Creators /\ t \in NewTables(i)
    /\ \A t \in Drifted : \A i, j \in 1..6 :
           i \in ChangedBy(t) /\ j \in ChangedBy(t) => i = j
<1>1. \A t \in Drifted : \A i \in 1..6 :
        i \in ChangedBy(t) <=> \/ i = 1 /\ t = "member"
                               \/ i = 2 /\ t = "product_type"
                               \/ i = 3 /\ t \notin {"member", "product_type"}
  BY DEF Drifted, ChangedBy
<1>2. QED
  BY <1>1 DEF Drifted, Creators, NewTables

\* One more migration, where its statements are possible.
LEMMA UpStep ==
    ASSUME NEW n \in 1..17, NEW S, NEW R, Shaped(n - 1, S, R), Possible(Up[n], S)
    PROVE  Shaped(n, After(Up[n], S), IF n >= 7 THEN {} ELSE R)
<1> DEFINE S2 == After(Up[n], S)
<1>0. /\ \A f \in S : IsFact(f)
      /\ R \subseteq Drifted /\ (n - 1 >= 7 => R = {})
      /\ \A t \in R : \E i \in 1..(n - 1) : i \in ChangedBy(t)
      /\ \A t : t \notin R => Same(S, Built[n - 1], t)
      /\ \A t \in R : Same(S, Reverted, t)
      /\ R \cap {"inspection", "export_document"} # {} => "inspection_report" \in R
  BY DEF Shaped
<1>1. \A f \in S2 : IsFact(f)
  BY <1>0, AfterIsFacts, AddsAreFacts
<1>2. ASSUME NEW t, t \notin R PROVE Same(S2, Built[n], t)
  BY <1>0, <1>2, AfterSame, BuiltSteps DEF Last
<1>3. ASSUME n < 7, NEW t \in R PROVE Same(S2, Reverted, t)
  <2>1. PICK i \in 1..(n - 1) : i \in ChangedBy(t)
    BY <1>0
  <2>2. n \notin ChangedBy(t)
    <3>1. i \in 1..6 /\ n \in 1..6 /\ i # n
      BY <1>3
    <3>2. QED
      BY <1>0, <2>1, <3>1, DriftedOnce
  <2>3. Same(S2, S, t)
    BY <2>2, OthersSpared, AfterSpared
  <2>4. QED
    BY <1>0, <2>3, SameSteps
<1>4. ASSUME n = 7, NEW t \in R PROVE Same(S2, Built[7], t)
  <2>1. Up[7] = Up007
    BY DEF Up
  <2>2. "inspection_report" \notin R
    <3>1. ~Has(S, "inspection_report", ReportKey[2])
      BY <1>4, <2>1, Possible007
    <3>2. Has(Reverted, "inspection_report", ReportKey[2])
      BY RevertedTables
    <3>3. QED
      BY <1>0, <3>1, <3>2 DEF Same
  <2>3. t \in {"member", "product_type"}
    BY <1>0, <2>2 DEF Drifted
  <2>4. Same(S2, After(Up007, Reverted), t)
    BY <1>0, <1>4, <2>1, AfterSame
  <2>5. QED
    BY <2>3, <2>4, RunAgain, SameSteps
<1>5. \A t \in R : \E i \in 1..n : i \in ChangedBy(t)
  BY <1>0
<1> HIDE DEF S2
<1>6. CASE n < 7
  <2>1. (IF n >= 7 THEN {} ELSE R) = R
    BY <1>6
  <2>2. Shaped(n, S2, R)
    BY <1>0, <1>1, <1>2, <1>3, <1>5, <1>6 DEF Shaped
  <2>3. QED
    BY <2>1, <2>2 DEF S2
<1>7. CASE n >= 7
  <2>1. \A t : Same(S2, Built[n], t)
    BY <1>0, <1>2, <1>4, <1>7
  <2>2. Shaped(n, S2, {})
    BY <1>1, <2>1 DEF Shaped
  <2>3. QED
    BY <1>7, <2>2 DEF S2
<1>8. QED
  BY <1>6, <1>7

\* A migration whose statements are not possible is 007, on the unique key of
\* the reports.
LEMMA UpPossible ==
    ASSUME NEW n \in 1..17, NEW S, NEW R, Shaped(n - 1, S, R), "inspection_report" \notin R
    PROVE  Possible(Up[n], S)
<1>0. /\ R \subseteq {"member", "product_type"} /\ (n - 1 >= 7 => R = {})
      /\ \A t \in R : \E i \in 1..(n - 1) : i \in ChangedBy(t)
      /\ \A t : t \notin R => Same(S, Built[n - 1], t)
      /\ \A t \in R : Same(S, Reverted, t)
  BY DEF Shaped, Drifted
<1>1. CASE n \in Creators
  <2>1. ASSUME NEW t \in NewTables(n) PROVE Absent(S, t)
    <3>1. \A i \in 1..(n - 1) : i \notin ChangedBy(t)
      BY <1>1, FirstChange
    <3>2. t \notin R
      BY <1>0, <3>1
    <3>3. Absent(Built[n - 1], t)
      BY <3>1, NotYetBuilt
    <3>4. QED
      BY <1>0, <3>2, <3>3 DEF Same, Absent
  <2>2. QED
    BY <1>1, <2>1, CreatorPossible
<1>2. CASE n = 5
  <2>1. Absent(Built[4], "certification_events")
    <3>1. \A i \in 1..4 : i \notin ChangedBy("certification_events")
      BY DEF ChangedBy
    <3>2. QED
      BY <3>1, NotYetBuilt
  <2>2. Has(Built[4], "certification", "status")
        /\ ~Has(Built[4], "certification", "current_status")
    <3>1. /\ "certification" \in NewTables(3) /\ 3 \in Creators /\ Up[3] = Up003
          /\ \A i \in (3 + 1)..4 : i \notin ChangedBy("certification")
      BY DEF NewTables, Creators, Up, ChangedBy
    <3>2. QED
      BY <3>1, BuiltFirst, FirstColumns
  <2>3. Same(S, Built[4], "certification_events") /\ Same(S, Built[4], "certification")
    BY <1>0, <1>2
  <2>4. Possible(Up005, S)
    BY <2>1, <2>2, <2>3, Possible005 DEF Same, Absent
  <2>5. QED
    BY <1>2, <2>4 DEF Up
<1>3. CASE n = 7
  <2>1. \A t : t \notin R => Same(S, Built[6], t)
    BY <1>0, <1>3
  <2>2. /\ Has(S, "product_type", "name_ar") /\ Has(S, "product_type", "lab_test_parameters")
    BY <1>0, <2>1, Before007, RevertedTables DEF Same
  <2>3. Has(S, "member", "phone") /\ ~Has(S, "member", MemberKey[2])
    BY <1>0, <2>1, Before007, RevertedTables DEF Same
  <2>4. /\ Has(S, "lab_test_result", "test_values") /\ ~Has(S, "farm", FarmKey[2])
        /\ Has(S, "notification_template", "language")
    <3>1. R \cap {"lab_test_result", "farm", "notification_template"} = {}
      BY <1>0
    <3>2. QED
      BY <2>1, <3>1, Before007 DEF Same
  <2>5. /\ Has(S, "inspection", "inspector_name")
        /\ Has(S, "export_document", "hs_code") /\ Has(S, "export_document", "quantity_kg")
        /\ ~Has(S, "inspection_report", ReportKey[2])
    <3>1. R \cap {"inspection", "export_document", "inspection_report"} = {}
      BY <1>0
    <3>2. QED
      BY <2>1, <3>1, Before007 DEF Same
  <2>6. Possible(Up007, S)
    BY <2>2, <2>3, <2>4, <2>5, Possible007
  <2>7. QED
    BY <1>3, <2>6 DEF Up
<1>4. CASE n = 8
  <2>1. \A t : Same(S, Built[7], t)
    <3>1. n - 1 = 7 /\ n - 1 >= 7
      BY <1>4
    <3>2. R = {} /\ Built[n - 1] = Built[7]
      BY <1>0, <3>1
    <3>3. \A t : t \notin R => Same(S, Built[7], t)
      BY <1>0, <3>2
    <3>4. QED
      BY <3>2, <3>3
  <2>2. Possible(Up008, S)
    BY <2>1, With007, PossibleOthers DEF Same
  <2>3. QED
    BY <1>4, <2>2 DEF Up
<1>5. CASE n = 9
  <2>1. Built[8] = After(Up008, Built[7])
    BY BuiltSteps DEF Up, Last
  <2>2. Has(Built[8], "product_type", "id")
    BY <2>1, With007, AfterFacts, Facts008
  <2>3. Same(S, Built[8], "product_type")
    BY <1>0, <1>5
  <2>4. Possible(Up009, S)
    BY <2>2, <2>3, PossibleOthers DEF Same
  <2>5. QED
    BY <1>5, <2>4 DEF Up
<1>6. CASE n = 12
  <2>1. /\ "lab_test" \in NewTables(2) /\ 2 \in Creators /\ Up[2] = Up002
        /\ \A i \in (2 + 1)..11 : i \notin ChangedBy("lab_test")
    BY DEF NewTables, Creators, Up, ChangedBy
  <2>2. /\ Has(Built[11], "lab_test", "id")
        /\ \A c \in {"report_s3_key", "report_file_name"} : ~Has(Built[11], "lab_test", c)
    BY <2>1, BuiltFirst, FirstColumns
  <2>3. Same(S, Built[11], "lab_test")
    BY <1>0, <1>6
  <2>4. Possible(Up012, S)
    BY <2>2, <2>3, PossibleOthers DEF Same
  <2>5. QED
    BY <1>6, <2>4 DEF Up
<1>7. CASE n = 6
  BY <1>7, PossibleOthers DEF Up
<1>8. QED
  BY <1>1, <1>2, <1>3, <1>4, <1>5, <1>6, <1>7 DEF Creators

\* One migration less.
LEMMA DownStep ==
    ASSUME NEW n \in 1..17, NEW S, NEW R, Shaped(n, S, R)
    PROVE  LET S2 == After(Down[n], S)
           IN  Shaped(n - 1, S2, (IF n = 7 THEN Drifted ELSE R) \cap Tables(S2))
<1> DEFINE S2 == After(Down[n], S)
           R2 == (IF n = 7 THEN Drifted ELSE R) \cap Tables(S2)
<1>0. /\ \A f \in S : IsFact(f)
      /\ R \subseteq Drifted /\ (n >= 7 => R = {})
      /\ \A t \in R : \E i \in 1..n : i \in ChangedBy(t)
      /\ \A t : t \notin R => Same(S, Built[n], t)
      /\ \A t \in R : Same(S, Reverted, t)
      /\ R \cap {"inspection", "export_document"} # {} => "inspection_report" \in R
  BY DEF Shaped
<1>1. \A f \in S2 : IsFact(f)
  BY <1>0, AfterIsFacts, AddsAreFacts
<1>2. \A t : t \in Tables(S2) <=> ~Absent(S2, t)
  BY <1>1, TablesHave
<1>3. CASE n = 7
  <2>1. \A t : Same(S2, Reverted, t)
    <3>1. R = {} /\ Down[7] = Down007
      BY <1>0, <1>3 DEF Down
    <3>2. QED
      BY <1>0, <1>3, <3>1, AfterSame DEF Reverted
  <2>2. R2 = Drifted
    <3>1. \A t \in Drifted : ~Absent(S2, t)
      BY <2>1, RevertedTables DEF Same, Absent
    <3>2. QED
      BY <1>2, <1>3, <3>1
  <2>3. \A t \in Drifted : \E i \in 1..6 : i \in ChangedBy(t)
    <3>1. \A t \in Drifted : \/ 1 \in ChangedBy(t) \/ 2 \in ChangedBy(t)
                             \/ 3 \in ChangedBy(t)
      BY DEF Drifted, ChangedBy
    <3>2. QED
      BY <3>1
  <2>4. \A t : t \notin Drifted => Same(S2, Built[6], t)
    BY <2>1, RevertedElsewhere, SameSteps
  <2>5. "inspection_report" \in Drifted
    BY DEF Drifted
  <2> HIDE DEF S2, R2
  <2>6. n - 1 = 6 /\ ~(n - 1 >= 7)
    BY <1>3
  <2>7. Shaped(6, S2, R2)
    BY <1>1, <2>1, <2>2, <2>3, <2>4, <2>5 DEF Shaped
  <2>8. QED
    BY <2>6, <2>7 DEF S2, R2
<1>4. CASE n # 7
  <2>1. R2 = R \cap Tables(S2)
    BY <1>4
  <2>2. ASSUME NEW t, t \notin R PROVE Same(S2, Built[n - 1], t)
    <3>1. Same(S2, After(Down[n], Built[n]), t)
      BY <1>0, <2>2, AfterSame
    <3>2. Same(After(Down[n], Built[n]), Built[n - 1], t)
      BY <1>4, DownUndoes
    <3>3. QED
      BY <3>1, <3>2, SameSteps
  <2>3. ASSUME NEW t \in R, n \in ChangedBy(t)
        PROVE  Absent(S2, t) /\ Absent(Built[n - 1], t)
    <3>1. n \in 1..6
      BY <1>0, <1>4
    <3>2. n \in Creators /\ t \in NewTables(n)
      BY <1>0, <2>3, <3>1, DriftedOnce
    <3>3. Drops(Down[n], NewTables(n))
      BY <3>2, CreatorsCreate
    <3>4. Whole(Down[n].removes, t) /\ Down[n].adds = {}
      BY <3>2, <3>3 DEF Drops
    <3>5. Absent(S2, t)
      BY <3>4, AfterFacts, NothingIn DEF Absent
    <3>6. Absent(Built[n - 1], t)
      BY <3>2, FirstChange, NotYetBuilt
    <3>7. QED
      BY <3>5, <3>6
  <2>4. ASSUME NEW t \in R, n \notin ChangedBy(t)
        PROVE  Same(S2, Reverted, t) /\ t \in Tables(S2)
    <3>1. Same(S2, Reverted, t)
      BY <1>0, <2>4, OthersSpared, AfterSpared, SameSteps
    <3>2. ~Absent(S2, t)
      BY <1>0, <3>1, RevertedTables DEF Same, Absent
    <3>3. QED
      BY <1>2, <3>1, <3>2
  <2>5. \A t : t \in R2 <=> t \in R /\ n \notin ChangedBy(t)
    BY <1>2, <2>1, <2>3, <2>4
  <2>6. ASSUME NEW t, t \notin R2 PROVE Same(S2, Built[n - 1], t)
    BY <2>2, <2>3, <2>5, <2>6 DEF Same, Absent
  <2>7. ASSUME NEW t \in R2 PROVE \E i \in 1..(n - 1) : i \in ChangedBy(t)
    <3>1. PICK i \in 1..n : i \in ChangedBy(t)
      BY <1>0, <2>5
    <3>2. i # n
      BY <2>5, <3>1
    <3>3. i \in 1..(n - 1)
      BY <3>1, <3>2
    <3>4. QED
      BY <3>1, <3>3
  <2>8. R2 \cap {"inspection", "export_document"} # {} => "inspection_report" \in R2
    <3>1. ChangedBy("inspection") = {3, 7} /\ ChangedBy("export_document") = {3, 7}
          /\ ChangedBy("inspection_report") = {3, 7}
      BY DEF ChangedBy
    <3>2. QED
      BY <1>0, <2>5, <3>1
  <2>9. R2 \subseteq Drifted /\ (n - 1 >= 7 => R2 = {})
    BY <1>0, <2>5
  <2> HIDE DEF S2, R2
  <2>10. Shaped(n - 1, S2, R2)
    BY <1>1, <2>4, <2>5, <2>6, <2>7, <2>8, <2>9 DEF Shaped
  <2>11. QED
    BY <2>10 DEF S2, R2
<1>5. QED
  BY <1>3, <1>4

\* A down is always possible.
LEMMA DownPossible ==
    ASSUME NEW n \in 1..17, NEW S, NEW R, Shaped(n, S, R)
    PROVE  Possible(Down[n], S)
<1>0. /\ R \subseteq Drifted /\ (n >= 7 => R = {})
      /\ \A t : t \notin R => Same(S, Built[n], t)
  BY DEF Shaped
<1>1. CASE n = 5
  <2>1. Built[5] = After(Up005, Built[4])
    BY BuiltSteps DEF Up, Last
  <2>2. /\ Has(Built[5], "certification", "current_status")
        /\ ~Has(Built[5], "certification", "status")
    BY <2>1, AfterFacts, Facts005
  <2>3. Same(S, Built[5], "certification")
    BY <1>0, <1>1 DEF Drifted
  <2>4. Possible(Down005, S)
    BY <2>2, <2>3, PossibleDown DEF Same
  <2>5. QED
    BY <1>1, <2>4 DEF Down
<1>2. CASE n = 7
  <2>1. \A t : Same(S, Built[7], t)
    BY <1>0, <1>2
  <2>2. Possible(Down007, S)
    BY <2>1, With007, PossibleDown DEF Same
  <2>3. QED
    BY <1>2, <2>2 DEF Down
<1>3. CASE n = 8
  <2>1. Built[8] = After(Up008, Built[7])
    BY BuiltSteps DEF Up, Last
  <2>2. ~Has(Built[8], "farm", FarmKey[2]) /\ ~Has(Built[8], "member", MemberKey[2])
    BY <2>1, AfterFacts, Facts008 DEF FarmKey, MemberKey
  <2>3. Same(S, Built[8], "farm") /\ Same(S, Built[8], "member")
    BY <1>0, <1>3
  <2>4. Possible(Down008, S)
    BY <2>2, <2>3, PossibleDown DEF Same
  <2>5. QED
    BY <1>3, <2>4 DEF Down
<1>4. CASE n \in {6, 9, 12}
  BY <1>4, PossibleDown DEF Down
<1>5. CASE n \in Creators
  BY <1>5, DropPossible
<1>6. QED
  BY <1>1, <1>2, <1>3, <1>4, <1>5 DEF Creators

-----------------------------------------------------------------------------
(* What the pending migrations make of the schema *)

\* The pending migrations keep the schema in shape; only rows that a constraint
\* forbids, or the reports a revert of 007 has left, stop them.
LEMMA PendingShaped ==
    ASSUME applied \in 0..17, NEW n \in applied..17, Shaped(applied, schema, residue)
    PROVE  LET end == Pending(n)
           IN  /\ end.ok => Shaped(n, end.schema, IF n >= 7 THEN {} ELSE residue)
               /\ offending = {} /\ "inspection_report" \notin residue => end.ok
<1> DEFINE Step(g, i) ==
               IF i = applied THEN [schema |-> schema, ok |-> TRUE]
               ELSE LET before == g[i - 1]
                    IN [schema |-> After(Up[i], before.schema),
                        ok |-> /\ before.ok /\ Possible(Up[i], before.schema)
                               /\ Forbidden(Up[i]) = {}]
           Upto(g, m) == g = [i \in applied..m |-> Step(g, i)]
           S == {m \in applied..n : \E g : Upto(g, m)}
<1>0. applied \in Nat /\ n \in Nat /\ applied <= n
  OBVIOUS
<1>1. applied \in S
  <2>1. Upto([i \in applied..applied |-> [schema |-> schema, ok |-> TRUE]], applied)
    BY <1>0
  <2>2. applied \in applied..n
    BY <1>0
  <2> HIDE DEF Upto
  <2>3. QED
    BY <2>1, <2>2
<1>2. ASSUME NEW m \in (applied + 1)..n, m - 1 \in S PROVE m \in S
  <2>1. PICK g : Upto(g, m - 1)
    BY <1>2
  <2> DEFINE h == [i \in applied..m |-> IF i = m THEN Step(g, m) ELSE g[i]]
  <2>2. m \in Nat /\ m > applied
    BY <1>0
  <2>3. \A i \in applied..(m - 1) : g[i] = Step(g, i)
    BY <2>1, Zenon
  <2> HIDE DEF Step
  <2>4. \A i \in applied..(m - 1) : h[i] = Step(g, i)
    BY <1>0, <2>2, <2>3
  <2>5. h[m] = Step(g, m)
    BY <1>0, <2>2
  <2>6. \A i \in applied..m : h[i] = Step(g, i)
    <3>1. \A i \in applied..m : i = m \/ i \in applied..(m - 1)
      BY <1>0, <2>2
    <3> HIDE DEF h
    <3>2. QED
      BY <2>4, <2>5, <3>1
  <2>7. \A i \in applied..m : i # applied => h[i - 1] = g[i - 1]
    BY <1>0, <2>2
  <2>8. \A i \in applied..m : Step(g, i) = Step(h, i)
    BY <2>7 DEF Step
  <2>9. h = [i \in applied..m |-> Step(h, i)]
    <3>1. h = [i \in applied..m |-> h[i]]
      OBVIOUS
    <3> HIDE DEF h
    <3>2. QED
      BY <2>6, <2>8, <3>1
  <2>10. m \in applied..n
    BY <1>0
  <2> HIDE DEF h
  <2>11. QED
    BY <2>9, <2>10
<1>3. \E g : Upto(g, n)
  <2> HIDE DEF S
  <2>1. applied..n \subseteq S
    BY <1>0, <1>1, <1>2, IntervalInduction
  <2>2. n \in S
    BY <1>0, <2>1
  <2>3. QED
    BY <2>2 DEF S
<1> DEFINE after == CHOOSE g : Upto(g, n)
<1>4. Upto(after, n)
  BY <1>3, Zenon
<1>5. Pending(n) = after[n]
  BY Zenon DEF Pending
<1>6. \A i \in applied..n : after[i] = Step(after, i)
  BY <1>4, Zenon
<1> HIDE DEF after, Upto, S
<1> DEFINE T == {i \in applied..n :
                   /\ after[i].ok =>
                           Shaped(i, after[i].schema, IF i >= 7 THEN {} ELSE residue)
                   /\ offending = {} /\ "inspection_report" \notin residue => after[i].ok}
<1>7. applied \in T
  <2>1. after[applied] = [schema |-> schema, ok |-> TRUE]
    <3>1. applied \in applied..n
      BY <1>0
    <3>2. after[applied] = Step(after, applied)
      BY <1>6, <3>1, Zenon
    <3>3. QED
      BY <3>2, Zenon
  <2>2. (IF applied >= 7 THEN {} ELSE residue) = residue
    BY DEF Shaped
  <2>3. QED
    BY <1>0, <2>1, <2>2
<1>8. ASSUME NEW i \in (applied + 1)..n, i - 1 \in T PROVE i \in T
  <2> DEFINE before == after[i - 1]
             R == IF i - 1 >= 7 THEN {} ELSE residue
  <2>1. i \in 1..17 /\ i \in applied..n /\ i # applied
    BY <1>0
  <2>2. after[i] = [schema |-> After(Up[i], before.schema),
                    ok |-> /\ before.ok /\ Possible(Up[i], before.schema)
                           /\ Forbidden(Up[i]) = {}]
    BY <1>6, <2>1
  <2>3. /\ before.ok => Shaped(i - 1, before.schema, R)
        /\ offending = {} /\ "inspection_report" \notin residue => before.ok
    BY <1>8
  <2>4. (IF i >= 7 THEN {} ELSE R) = IF i >= 7 THEN {} ELSE residue
    BY <2>1
  <2>5. offending = {} => Forbidden(Up[i]) = {}
    BY DEF Forbidden
  <2>6. "inspection_report" \notin residue => "inspection_report" \notin R
    OBVIOUS
  <2> HIDE DEF R, before
  <2>7. ASSUME after[i].ok
        PROVE  Shaped(i, after[i].schema, IF i >= 7 THEN {} ELSE residue)
    <3>1. before.ok /\ Possible(Up[i], before.schema)
      BY <2>2, <2>7
    <3>2. Shaped(i, After(Up[i], before.schema), IF i >= 7 THEN {} ELSE R)
      BY <2>1, <2>3, <3>1, UpStep
    <3>3. after[i].schema = After(Up[i], before.schema)
      BY <2>2
    <3>4. QED
      BY <2>4, <3>2, <3>3
  <2>8. ASSUME offending = {}, "inspection_report" \notin residue PROVE after[i].ok
    <3>1. before.ok /\ Shaped(i - 1, before.schema, R)
      BY <2>3, <2>8
    <3>2. Possible(Up[i], before.schema)
      BY <2>1, <2>6, <2>8, <3>1, UpPossible
    <3>3. QED
      BY <2>2, <2>5, <2>8, <3>1, <3>2
  <2>9. QED
    BY <2>1, <2>7, <2>8
<1> HIDE DEF T
<1>9. applied..n \subseteq T
  BY <1>0, <1>7, <1>8, IntervalInduction
<1>10. n \in T
  BY <1>0, <1>9
<1>11. QED
  BY <1>5, <1>10 DEF T

-----------------------------------------------------------------------------
(* The schema stays in shape *)

MigrationInv ==
    /\ applied \in 0..17
    /\ Shaped(applied, schema, residue)
    /\ FailuresExplained

LEMMA MigrationStarts == MigrationInit => MigrationInv
<1> SUFFICES ASSUME MigrationInit PROVE MigrationInv
  OBVIOUS
<1>1. applied = 0 /\ schema = {} /\ residue = {} /\ command = "none"
  BY DEF MigrationInit
<1>2. Shaped(0, {}, {})
  BY BuiltSteps DEF Shaped, Same
<1>3. QED
  BY <1>1, <1>2 DEF MigrationInv, FailuresExplained

LEMMA RunKeeps ==
    ASSUME MigrationInv, NEW n \in 1..17, Run(n)
    PROVE  MigrationInv'
<1> DEFINE end == Pending(n)
<1>1. n \in applied..17 /\ applied \in 0..17
  <2>1. n >= applied
    BY Zenon DEF Run
  <2>2. QED
    BY <2>1 DEF MigrationInv
<1>2. /\ end.ok => Shaped(n, end.schema, IF n >= 7 THEN {} ELSE residue)
      /\ offending = {} /\ "inspection_report" \notin residue => end.ok
  BY <1>1, PendingShaped DEF MigrationInv
<1>3. \/ /\ end.ok
         /\ applied' = n /\ schema' = end.schema
         /\ residue' = IF n >= 7 THEN {} ELSE residue
         /\ command' = "run"
      \/ /\ ~end.ok
         /\ command' = "run failed" /\ UNCHANGED <<applied, schema, residue>>
  BY DEF Run
<1>4. offending' = offending
  BY DEF Run
<1> HIDE DEF end
<1>5. CASE end.ok
  <2>1. applied' = n /\ schema' = end.schema /\ command' = "run"
        /\ residue' = IF n >= 7 THEN {} ELSE residue
    BY <1>3, <1>5
  <2>2. Shaped(applied', schema', residue')
    BY <1>2, <1>5, <2>1
  <2>3. Shaped(applied, schema, residue)'
    BY <2>2
  <2>4. applied' \in 0..17 /\ FailuresExplained'
    BY <1>1, <2>1 DEF FailuresExplained
  <2>5. QED
    BY <2>3, <2>4 DEF MigrationInv
<1>6. CASE ~end.ok
  <2>1. command' = "run failed" /\ UNCHANGED <<applied, schema, residue>>
    BY <1>3, <1>6
  <2>2. QED
    BY <1>2, <1>4, <1>6, <2>1 DEF MigrationInv, FailuresExplained, Shaped
<1>7. QED
  BY <1>5, <1>6

LEMMA RevertKeeps ==
    ASSUME MigrationInv, Revert
    PROVE  MigrationInv'
<1>1. CASE applied = 0
  BY <1>1 DEF MigrationInv, FailuresExplained, Revert, Shaped
<1>2. CASE applied # 0
  <2>1. applied \in 1..17
    BY <1>2 DEF MigrationInv
  <2>2. Possible(Down[applied], schema)
    BY <2>1, DownPossible DEF MigrationInv
  <2>3. CASE Forbidden(Down[applied]) = {}
    <3>1. /\ applied' = applied - 1
          /\ schema' = After(Down[applied], schema)
          /\ residue' = (IF applied = 7 THEN Drifted ELSE residue) \cap Tables(schema')
          /\ command' = "revert"
      BY <1>2, <2>2, <2>3 DEF Revert
    <3>2. Shaped(applied - 1, After(Down[applied], schema),
                 (IF applied = 7 THEN Drifted ELSE residue)
                     \cap Tables(After(Down[applied], schema)))
      BY <2>1, DownStep DEF MigrationInv
    <3>3. Shaped(applied', schema', residue')
      BY <3>1, <3>2
    <3>4. Shaped(applied, schema, residue)'
      BY <3>3
    <3>5. applied' \in 0..17 /\ FailuresExplained'
      BY <2>1, <3>1 DEF FailuresExplained
    <3>6. QED
      BY <3>4, <3>5 DEF MigrationInv
  <2>4. CASE Forbidden(Down[applied]) # {}
    <3>1. command' = "revert failed" /\ UNCHANGED <<applied, schema, offending, residue>>
      BY <1>2, <2>4 DEF Revert
    <3>2. offending # {}
      BY <2>4 DEF Forbidden
    <3>3. QED
      BY <3>1, <3>2 DEF MigrationInv, FailuresExplained, Shaped
  <2>5. QED
    BY <2>3, <2>4
<1>3. QED
  BY <1>1, <1>2

LEMMA MigrationsKeep ==
    ASSUME MigrationInv, [MigrationNext]_migrationVars
    PROVE  MigrationInv'
<1>1. CASE \E n \in 1..Last : Run(n)
  BY <1>1, RunKeeps DEF Last
<1>2. CASE Revert
  BY <1>2, RevertKeeps
<1>3. CASE \E r \in Rows : RowsChange(r)
  BY <1>3 DEF RowsChange, MigrationInv, FailuresExplained, Shaped
<1>4. CASE UNCHANGED migrationVars
  BY <1>4 DEF migrationVars, MigrationInv, FailuresExplained, Shaped
<1>5. QED
  BY <1>1, <1>2, <1>3, <1>4 DEF MigrationNext

\* Every step of the operations is one of the migrations or leaves them alone.
LEMMA MigrationInvariant == Spec => []MigrationInv
<1>1. Init => MigrationInv
  BY MigrationStarts DEF Init
<1>2. MigrationInv /\ [Next]_vars => MigrationInv'
  <2>1. [Next]_vars => [MigrationNext]_migrationVars
    BY DEF Next, In, vars
  <2>2. QED
    BY <2>1, MigrationsKeep
<1>3. QED
  BY <1>1, <1>2, PTL DEF Spec

-----------------------------------------------------------------------------
(* The entities *)

\* What an entity asks of its table: its columns are there, and none is
\* required that it does not have.
Fits(X, t, columns) ==
    /\ \A c \in columns : Has(X, t, c)
    /\ \A c : Requires(X, t, c) => c \in columns

LEMMA FitsSame ==
    ASSUME NEW X, NEW Y, NEW t, NEW columns, Same(X, Y, t), Fits(Y, t, columns)
    PROVE  Fits(X, t, columns)
BY DEF Same, Fits

\* The entities of the tables no later migration changes.
LEMMA UnchangedFit ==
    /\ Fits(Up001.adds, "cooperative", CooperativeColumns)
    /\ Fits(Up002.adds, "harvest", HarvestColumns)
    /\ Fits(Up002.adds, "production_batch", ProductionBatchColumns)
    /\ Fits(Up003.adds, "qr_code", QrCodeColumns)
    /\ Fits(Up004.adds, "notification", NotificationColumns)
    /\ Fits(Up010.adds, "processing_step", ProcessingStepColumns)
    /\ Fits(Up011.adds, "product_document", ProductDocumentColumns)
    /\ Fits(Up013.adds, "lab", LabColumns)
    /\ Fits(Up014.adds, "audit_log", AuditLogColumns)
    /\ Fits(Up015.adds, "system_setting", SystemSettingColumns)
    /\ Fits(Up016.adds, "notification_preference", NotificationPreferenceColumns)
    /\ Fits(Up017.adds, "qr_scan_event", QrScanEventColumns)
<1>1. Fits(Up001.adds, "cooperative", CooperativeColumns)
  <2>1. \A c \in CooperativeColumns : Has(Up001.adds, "cooperative", c)
    BY TableHas DEF Has, Up001, Creating, Statements, Times, Common,
       CooperativeColumns
  <2>2. \A c : Requires(Up001.adds, "cooperative", c) => c \in CooperativeColumns
    BY TableRequires DEF Requires, Up001, Creating, Statements, Times, Common,
       CooperativeColumns
  <2>3. QED
    BY <2>1, <2>2 DEF Fits
<1>2. /\ Fits(Up002.adds, "harvest", HarvestColumns)
      /\ Fits(Up002.adds, "production_batch", ProductionBatchColumns)
  <2>1. /\ \A c \in HarvestColumns : Has(Up002.adds, "harvest", c)
        /\ \A c \in ProductionBatchColumns : Has(Up002.adds, "production_batch", c)
    BY TableHas DEF Has, Up002, Creating, Statements, Times, Common,
       HarvestColumns, ProductionBatchColumns
  <2>2. (\A c : Requires(Up002.adds, "harvest", c) =>
          c \in HarvestColumns) /\ (\A c : Requires(Up002.adds, "production_batch", c) =>
                  c \in ProductionBatchColumns)
    BY TableRequires DEF Requires, Up002, Creating, Statements, Times, Common,
       HarvestColumns, ProductionBatchColumns
  <2>3. QED
    BY <2>1, <2>2 DEF Fits
<1>3. Fits(Up003.adds, "qr_code", QrCodeColumns)
  <2>1. \A c \in QrCodeColumns : Has(Up003.adds, "qr_code", c)
    BY TableHas DEF Has, Up003, Creating, Statements, Times, Common,
       QrCodeColumns
  <2>2. \A c : Requires(Up003.adds, "qr_code", c) => c \in QrCodeColumns
    BY TableRequires DEF Requires, Up003, Creating, Statements, Times, Common,
       QrCodeColumns
  <2>3. QED
    BY <2>1, <2>2 DEF Fits
<1>4. Fits(Up004.adds, "notification", NotificationColumns)
  <2>1. \A c \in NotificationColumns : Has(Up004.adds, "notification", c)
    BY TableHas DEF Has, Up004, Creating, Statements, Times, Common,
       NotificationColumns, TemplateKey
  <2>2. \A c : Requires(Up004.adds, "notification", c) => c \in NotificationColumns
    BY TableRequires DEF Requires, Up004, Creating, Statements, Times, Common,
       NotificationColumns, TemplateKey
  <2>3. QED
    BY <2>1, <2>2 DEF Fits
<1>5. Fits(Up010.adds, "processing_step", ProcessingStepColumns)
  <2>1. \A c \in ProcessingStepColumns : Has(Up010.adds, "processing_step", c)
    BY TableHas DEF Has, Up010, Creating, Statements, Times, Common,
       ProcessingStepColumns
  <2>2. \A c : Requires(Up010.adds, "processing_step", c) => c \in ProcessingStepColumns
    BY TableRequires DEF Requires, Up010, Creating, Statements, Times, Common,
       ProcessingStepColumns
  <2>3. QED
    BY <2>1, <2>2 DEF Fits
<1>6. Fits(Up011.adds, "product_document", ProductDocumentColumns)
  <2>1. \A c \in ProductDocumentColumns : Has(Up011.adds, "product_document", c)
    BY TableHas DEF Has, Up011, Creating, Statements, Times, Common,
       ProductDocumentColumns
  <2>2. \A c : Requires(Up011.adds, "product_document", c) => c \in ProductDocumentColumns
    BY TableRequires DEF Requires, Up011, Creating, Statements, Times, Common,
       ProductDocumentColumns
  <2>3. QED
    BY <2>1, <2>2 DEF Fits
<1>7. Fits(Up013.adds, "lab", LabColumns)
  <2>1. \A c \in LabColumns : Has(Up013.adds, "lab", c)
    BY TableHas DEF Has, Up013, Creating, Statements, Times, Common,
       LabColumns
  <2>2. \A c : Requires(Up013.adds, "lab", c) => c \in LabColumns
    BY TableRequires DEF Requires, Up013, Creating, Statements, Times, Common,
       LabColumns
  <2>3. QED
    BY <2>1, <2>2 DEF Fits
<1>8. Fits(Up014.adds, "audit_log", AuditLogColumns)
  <2>1. \A c \in AuditLogColumns : Has(Up014.adds, "audit_log", c)
    BY TableHas DEF Has, Up014, Creating, Statements, Times, Common,
       AuditLogColumns
  <2>2. \A c : Requires(Up014.adds, "audit_log", c) => c \in AuditLogColumns
    BY TableRequires DEF Requires, Up014, Creating, Statements, Times, Common,
       AuditLogColumns
  <2>3. QED
    BY <2>1, <2>2 DEF Fits
<1>9. Fits(Up015.adds, "system_setting", SystemSettingColumns)
  <2>1. \A c \in SystemSettingColumns : Has(Up015.adds, "system_setting", c)
    BY TableHas DEF Has, Up015, Creating, Statements, Times, Common,
       SystemSettingColumns
  <2>2. \A c : Requires(Up015.adds, "system_setting", c) => c \in SystemSettingColumns
    BY TableRequires DEF Requires, Up015, Creating, Statements, Times, Common,
       SystemSettingColumns
  <2>3. QED
    BY <2>1, <2>2 DEF Fits
<1>10. Fits(Up016.adds, "notification_preference", NotificationPreferenceColumns)
  <2>1. \A c \in NotificationPreferenceColumns : Has(Up016.adds, "notification_preference", c)
    BY TableHas DEF Has, Up016, Creating, Statements, Times, Common,
       NotificationPreferenceColumns
  <2>2. \A c : Requires(Up016.adds, "notification_preference", c) =>
          c \in NotificationPreferenceColumns
    BY TableRequires DEF Requires, Up016, Creating, Statements, Times, Common,
       NotificationPreferenceColumns
  <2>3. QED
    BY <2>1, <2>2 DEF Fits
<1>11. Fits(Up017.adds, "qr_scan_event", QrScanEventColumns)
  <2>1. \A c \in QrScanEventColumns : Has(Up017.adds, "qr_scan_event", c)
    BY TableHas DEF Has, Up017, Creating, Statements, Times, Common,
       QrScanEventColumns
  <2>2. \A c : Requires(Up017.adds, "qr_scan_event", c) => c \in QrScanEventColumns
    BY TableRequires DEF Requires, Up017, Creating, Statements, Times, Common,
       QrScanEventColumns
  <2>3. QED
    BY <2>1, <2>2 DEF Fits
<1>12. QED
  BY <1>1, <1>2, <1>3, <1>4, <1>5, <1>6, <1>7, <1>8, <1>9, <1>10, <1>11
\* The columns X has for an entity: all but the ones of added; none of dropped is
\* the entity's, and what is required outside of waived is.
Lacks(X, t, columns, added, dropped, waived) ==
    /\ \A c \in columns : (c \in added \/ Has(X, t, c)) /\ c \notin dropped
    /\ \A c : Requires(X, t, c) => c \in columns \/ c \in waived

\* How the other entities' tables are created.
LEMMA FirstLacks ==
    /\ Lacks(Up001.adds, "member", MemberColumns,
             {"keycloak_user_id"},
             {"joined_at", MemberKey[2]},
             {})
    /\ Lacks(Up001.adds, "farm", FarmColumns, {}, {FarmKey[2]}, {})
    /\ Lacks(Up002.adds, "product_type", ProductTypeColumns,
             {"certification_type", "hs_code", "onssa_category", "validity_days"},
             {"certification_types"},
             {})
    /\ Lacks(Up002.adds, "product", ProductColumns, {}, {"is_active"}, {})
    /\ Lacks(Up002.adds, "lab_test_result", LabTestResultColumns, {}, {}, {})
    /\ Lacks(Up002.adds, "lab_test", LabTestColumns,
             {"report_s3_key", "report_file_name"},
             {},
             {})
    /\ Lacks(Up003.adds, "certification", CertificationColumns,
             {"current_status"},
             {"status"},
             {})
    /\ Lacks(Up003.adds, "inspection", InspectionColumns,
             {"passed"},
             {"notes", "deleted_at"},
             {})
    /\ Lacks(Up003.adds, "inspection_report", InspectionReportColumns,
             {"certification_id", "cooperative_id", "inspector_id", "completed_at",
              "farm_findings", "non_conformities"},
             {"findings", "photos", "filed_by", "filed_at"},
             {"filed_by", "filed_at"})
    /\ Lacks(Up003.adds, "export_document", ExportDocumentColumns,
             {"cooperative_id", "consignee_name", "consignee_country", "requested_by",
              "onssa_reference", "valid_until", "document_url"},
             {"document_type", "document_number", "issued_at", "expires_at", "created_by",
              "deleted_at"},
             {"document_type", "created_by"})
    /\ Lacks(Up004.adds, "notification_template", NotificationTemplateColumns,
             {},
             {TemplateKey[2]},
             {})
<1>1. Lacks(Up001.adds, "member", MemberColumns,
            {"keycloak_user_id"},
            {"joined_at", MemberKey[2]},
            {})
  <2>1. \A c \in MemberColumns :
          (c \in {"keycloak_user_id"} \/ Has(Up001.adds, "member", c))
          /\ c \notin {"joined_at", MemberKey[2]}
    BY TableHas
       DEF Has, Up001, Creating, Statements, Times, Common, MemberColumns, MemberKey
  <2>2. \A c : Requires(Up001.adds, "member", c) =>
          c \in MemberColumns \/ c \in {}
    BY TableRequires
       DEF Requires, Up001, Creating, Statements, Times, Common, MemberColumns, MemberKey
  <2>3. QED
    BY <2>1, <2>2 DEF Lacks
<1>2. Lacks(Up001.adds, "farm", FarmColumns, {}, {FarmKey[2]}, {})
  <2>1. \A c \in FarmColumns :
          (c \in {} \/ Has(Up001.adds, "farm", c))
          /\ c \notin {FarmKey[2]}
    BY TableHas DEF Has, Up001, Creating, Statements, Times, Common, FarmColumns, FarmKey
  <2>2. \A c : Requires(Up001.adds, "farm", c) =>
          c \in FarmColumns \/ c \in {}
    BY TableRequires
       DEF Requires, Up001, Creating, Statements, Times, Common, FarmColumns, FarmKey
  <2>3. QED
    BY <2>1, <2>2 DEF Lacks
<1>3. Lacks(Up002.adds, "product_type", ProductTypeColumns,
            {"certification_type", "hs_code", "onssa_category", "validity_days"},
            {"certification_types"},
            {})
  <2>1. \A c \in ProductTypeColumns :
          (c \in {"certification_type", "hs_code", "onssa_category",
                  "validity_days"} \/ Has(Up002.adds, "product_type", c))
          /\ c \notin {"certification_types"}
    BY TableHas DEF Has, Up002, Creating, Statements, Times, Common, ProductTypeColumns
  <2>2. \A c : Requires(Up002.adds, "product_type", c) =>
          c \in ProductTypeColumns \/ c \in {}
    BY TableRequires
       DEF Requires, Up002, Creating, Statements, Times, Common, ProductTypeColumns
  <2>3. QED
    BY <2>1, <2>2 DEF Lacks
<1>4. Lacks(Up002.adds, "product", ProductColumns, {}, {"is_active"}, {})
  <2>1. \A c \in ProductColumns :
          (c \in {} \/ Has(Up002.adds, "product", c))
          /\ c \notin {"is_active"}
    BY TableHas DEF Has, Up002, Creating, Statements, Times, Common, ProductColumns
  <2>2. \A c : Requires(Up002.adds, "product", c) =>
          c \in ProductColumns \/ c \in {}
    BY TableRequires
       DEF Requires, Up002, Creating, Statements, Times, Common, ProductColumns
  <2>3. QED
    BY <2>1, <2>2 DEF Lacks
<1>5. Lacks(Up002.adds, "lab_test_result", LabTestResultColumns, {}, {}, {})
  <2>1. \A c \in LabTestResultColumns :
          (c \in {} \/ Has(Up002.adds, "lab_test_result", c))
          /\ c \notin {}
    BY TableHas DEF Has, Up002, Creating, Statements, Times, Common, LabTestResultColumns
  <2>2. \A c : Requires(Up002.adds, "lab_test_result", c) =>
          c \in LabTestResultColumns \/ c \in {}
    BY TableRequires
       DEF Requires, Up002, Creating, Statements, Times, Common, LabTestResultColumns
  <2>3. QED
    BY <2>1, <2>2 DEF Lacks
<1>6. Lacks(Up002.adds, "lab_test", LabTestColumns,
            {"report_s3_key", "report_file_name"},
            {},
            {})
  <2>1. \A c \in LabTestColumns :
          (c \in {"report_s3_key", "report_file_name"} \/ Has(Up002.adds, "lab_test", c))
          /\ c \notin {}
    BY TableHas DEF Has, Up002, Creating, Statements, Times, Common, LabTestColumns
  <2>2. \A c : Requires(Up002.adds, "lab_test", c) =>
          c \in LabTestColumns \/ c \in {}
    BY TableRequires
       DEF Requires, Up002, Creating, Statements, Times, Common, LabTestColumns
  <2>3. QED
    BY <2>1, <2>2 DEF Lacks
<1>7. Lacks(Up003.adds, "certification", CertificationColumns,
            {"current_status"},
            {"status"},
            {})
  <2>1. \A c \in CertificationColumns :
          (c \in {"current_status"} \/ Has(Up003.adds, "certification", c))
          /\ c \notin {"status"}
    BY TableHas DEF Has, Up003, Creating, Statements, Times, Common, CertificationColumns
  <2>2. \A c : Requires(Up003.adds, "certification", c) =>
          c \in CertificationColumns \/ c \in {}
    BY TableRequires
       DEF Requires, Up003, Creating, Statements, Times, Common, CertificationColumns
  <2>3. QED
    BY <2>1, <2>2 DEF Lacks
<1>8. Lacks(Up003.adds, "inspection", InspectionColumns,
            {"passed"},
            {"notes", "deleted_at"},
            {})
  <2>1. \A c \in InspectionColumns :
          (c \in {"passed"} \/ Has(Up003.adds, "inspection", c))
          /\ c \notin {"notes", "deleted_at"}
    BY TableHas DEF Has, Up003, Creating, Statements, Times, Common, InspectionColumns
  <2>2. \A c : Requires(Up003.adds, "inspection", c) =>
          c \in InspectionColumns \/ c \in {}
    BY TableRequires
       DEF Requires, Up003, Creating, Statements, Times, Common, InspectionColumns
  <2>3. QED
    BY <2>1, <2>2 DEF Lacks
<1>9. Lacks(Up003.adds, "inspection_report", InspectionReportColumns,
            {"certification_id", "cooperative_id", "inspector_id", "completed_at",
             "farm_findings", "non_conformities"},
            {"findings", "photos", "filed_by", "filed_at"},
            {"filed_by", "filed_at"})
  <2>1. \A c \in InspectionReportColumns :
          (c \in {"certification_id", "cooperative_id", "inspector_id", "completed_at",
                   "farm_findings", "non_conformities"}
           \/ Has(Up003.adds, "inspection_report", c))
          /\ c \notin {"findings", "photos", "filed_by", "filed_at"}
    BY TableHas DEF Has, Up003, Creating, Statements, Times, Common, InspectionReportColumns
  <2>2. \A c : Requires(Up003.adds, "inspection_report", c) =>
          c \in InspectionReportColumns \/ c \in {"filed_by", "filed_at"}
    BY TableRequires
       DEF Requires, Up003, Creating, Statements, Times, Common, InspectionReportColumns
  <2>3. QED
    BY <2>1, <2>2 DEF Lacks
<1>10. Lacks(Up003.adds, "export_document", ExportDocumentColumns,
            {"cooperative_id", "consignee_name", "consignee_country", "requested_by",
             "onssa_reference", "valid_until", "document_url"},
            {"document_type", "document_number", "issued_at", "expires_at", "created_by",
             "deleted_at"},
            {"document_type", "created_by"})
  <2>1. \A c \in ExportDocumentColumns :
          (c \in {"cooperative_id", "consignee_name", "consignee_country",
                   "requested_by", "onssa_reference", "valid_until", "document_url"}
           \/ Has(Up003.adds, "export_document", c))
          /\ c \notin {"document_type", "document_number", "issued_at", "expires_at",
                       "created_by", "deleted_at"}
    BY TableHas DEF Has, Up003, Creating, Statements, Times, Common, ExportDocumentColumns
  <2>2. \A c : Requires(Up003.adds, "export_document", c) =>
          c \in ExportDocumentColumns \/ c \in {"document_type", "created_by"}
    BY TableRequires
       DEF Requires, Up003, Creating, Statements, Times, Common, ExportDocumentColumns
  <2>3. QED
    BY <2>1, <2>2 DEF Lacks
<1>11. Lacks(Up004.adds, "notification_template", NotificationTemplateColumns,
            {},
            {TemplateKey[2]},
            {})
  <2>1. \A c \in NotificationTemplateColumns :
          (c \in {} \/ Has(Up004.adds, "notification_template", c))
          /\ c \notin {TemplateKey[2]}
    BY TableHas
       DEF Has, Up004, Creating, Statements, Times, Common,
       NotificationTemplateColumns, TemplateKey
  <2>2. \A c : Requires(Up004.adds, "notification_template", c) =>
          c \in NotificationTemplateColumns \/ c \in {}
    BY TableRequires
       DEF Requires, Up004, Creating, Statements, Times, Common,
       NotificationTemplateColumns, TemplateKey
  <2>3. QED
    BY <2>1, <2>2 DEF Lacks
<1>12. QED
  BY <1>1, <1>2, <1>3, <1>4, <1>5, <1>6, <1>7, <1>8, <1>9, <1>10, <1>11
\* What later migrations require is the entities'.
LEMMA RequiredColumns ==
    /\ "phone" \in MemberColumns
    /\ {"certification_type", "name_ar", "lab_test_parameters"} \subseteq ProductTypeColumns
    /\ "test_values" \in LabTestResultColumns
    /\ {"certification_id", "cooperative_id", "inspector_id", "completed_at"}
           \subseteq InspectionReportColumns
    /\ {"cooperative_id", "consignee_name", "consignee_country", "requested_by",
        "destination_country", "hs_code", "quantity_kg"} \subseteq ExportDocumentColumns
    /\ "language" \in NotificationTemplateColumns
BY DEF Common, MemberColumns, ProductTypeColumns, LabTestResultColumns,
   InspectionReportColumns, ExportDocumentColumns, NotificationTemplateColumns

\* Which migrations come after the creation of a table.
LEMMA ChangesAfter ==
    /\ \A t \in {"member", "farm"} : \A i \in ChangedBy(t) : i \in {1, 7, 8}
    /\ ChangedBy("product_type") = {2, 7, 8, 9}
    /\ \A t \in {"product", "lab_test_result"} : \A i \in ChangedBy(t) : i \in {2, 7}
    /\ ChangedBy("lab_test") = {2, 12}
    /\ ChangedBy("certification") = {3, 5}
    /\ \A t \in {"inspection", "inspection_report", "export_document"} :
           \A i \in ChangedBy(t) : i \in {3, 7}
    /\ ChangedBy("notification_template") = {4, 7}
    /\ ChangedBy("certification_events") = {5}
BY DEF ChangedBy

\* The tables of 007 as its up leaves them.
LEMMA Fit007 ==
    /\ \A t \in {"product", "lab_test_result", "inspection", "inspection_report",
                 "export_document", "notification_template"} :
           Fits(Built[7], t, EntityTable[t])
    /\ Lacks(Built[7], "member", MemberColumns, {}, {MemberKey[2]}, {})
    /\ Lacks(Built[7], "farm", FarmColumns, {}, {FarmKey[2]}, {})
    /\ Lacks(Built[7], "product_type", ProductTypeColumns, {"is_active", "validity_days"},
             {}, {})
<1>0. /\ EntityTable["product"] = ProductColumns
      /\ EntityTable["lab_test_result"] = LabTestResultColumns
      /\ EntityTable["inspection"] = InspectionColumns
      /\ EntityTable["inspection_report"] = InspectionReportColumns
      /\ EntityTable["export_document"] = ExportDocumentColumns
      /\ EntityTable["notification_template"] = NotificationTemplateColumns
  BY DEF EntityTable
<1>1. ASSUME NEW n \in {1, 2, 3, 4}, NEW t \in NewTables(n), 7 \in ChangedBy(t), NEW c
      PROVE  /\ Has(Built[6], t, c) <=> Has(Up[n].adds, t, c)
             /\ Requires(Built[6], t, c) <=> Requires(Up[n].adds, t, c)
  <2>1. \A i \in (n + 1)..6 : i \notin ChangedBy(t)
    BY <1>1 DEF NewTables, ChangedBy
  <2>2. n \in Creators /\ 6 \in n..17
    BY DEF Creators
  <2>3. QED
    BY <2>1, <2>2, BuiltFirst
<1>2. ASSUME NEW n \in {1, 2, 3, 4}, NEW t \in NewTables(n), 7 \in ChangedBy(t), NEW c
      PROVE  /\ Has(Built[7], t, c) <=>
                  \/ Has(Up007.adds, t, c)
                  \/ Has(Up[n].adds, t, c) /\ ~Has(Up007.removes, t, c)
             /\ Requires(Built[7], t, c) <=>
                  \/ Requires(Up007.adds, t, c)
                  \/ /\ Requires(Up[n].adds, t, c) /\ ~Has(Up007.removes, t, c)
                     /\ ~Requires(Up007.removes, t, c)
  BY <1>1, <1>2, RevertedFacts
<1>3. /\ \A t \in {"member", "farm"} : t \in NewTables(1) /\ 7 \in ChangedBy(t)
      /\ \A t \in {"product_type", "product", "lab_test_result"} :
             t \in NewTables(2) /\ 7 \in ChangedBy(t)
      /\ \A t \in {"inspection", "inspection_report", "export_document"} :
             t \in NewTables(3) /\ 7 \in ChangedBy(t)
      /\ "notification_template" \in NewTables(4) /\ 7 \in ChangedBy("notification_template")
  BY DEF NewTables, ChangedBy
<1>4. Up[1] = Up001 /\ Up[2] = Up002 /\ Up[3] = Up003 /\ Up[4] = Up004
  BY DEF Up
<1>5. ASSUME NEW n \in {1, 2, 3, 4}, NEW t \in NewTables(n), 7 \in ChangedBy(t),
             NEW columns, NEW added, NEW dropped, NEW waived, NEW missing, NEW gone,
             Lacks(Up[n].adds, t, columns, added, dropped, waived),
             \A c \in added : c \in missing \/ Has(Up007.adds, t, c),
             \A c : Has(Up007.removes, t, c) =>
                     c \in dropped \/ c \in missing \/ Has(Up007.adds, t, c),
             \A c \in waived : Has(Up007.removes, t, c),
             \A c : Requires(Up007.adds, t, c) => c \in columns, gone \subseteq dropped
      PROVE  Lacks(Built[7], t, columns, missing, gone, {})
  <2>1. \A c \in columns : (c \in missing \/ Has(Built[7], t, c)) /\ c \notin gone
    BY <1>2, <1>5 DEF Lacks
  <2>2. \A c : Requires(Built[7], t, c) => c \in columns
    BY <1>2, <1>5 DEF Lacks
  <2>3. QED
    BY <2>1, <2>2 DEF Lacks
<1>6. \A t, columns, dropped :
        Lacks(Built[7], t, columns, {}, dropped, {}) => Fits(Built[7], t, columns)
  BY DEF Lacks, Fits
<1> HIDE DEF NewTables, ChangedBy
<1>7. Lacks(Built[7], "member", MemberColumns, {}, {MemberKey[2]}, {})
  BY <1>3, <1>4, <1>5, FirstLacks, RequiredColumns, Facts007, Facts007Catalogue,
     Facts007People, Facts007Inspections, Facts007Exports, Facts007Templates DEF Parts007,
     MemberKey
<1>8. Lacks(Built[7], "farm", FarmColumns, {}, {FarmKey[2]}, {})
  BY <1>3, <1>4, <1>5, FirstLacks, RequiredColumns, Facts007, Facts007Catalogue,
     Facts007People, Facts007Inspections, Facts007Exports, Facts007Templates DEF Parts007,
     FarmKey
<1>9. Lacks(Built[7], "product_type", ProductTypeColumns, {"is_active", "validity_days"}, {}, {})
  BY <1>3, <1>4, <1>5, FirstLacks, RequiredColumns, Facts007, Facts007Catalogue,
     Facts007People, Facts007Inspections, Facts007Exports, Facts007Templates
     DEF Parts007
<1>10. Lacks(Built[7], "product", ProductColumns, {}, {"is_active"}, {})
  BY <1>3, <1>4, <1>5, FirstLacks, RequiredColumns, Facts007, Facts007Catalogue,
     Facts007People, Facts007Inspections, Facts007Exports, Facts007Templates
     DEF Parts007
<1>11. Lacks(Built[7], "lab_test_result", LabTestResultColumns, {}, {}, {})
  BY <1>3, <1>4, <1>5, FirstLacks, RequiredColumns, Facts007, Facts007Catalogue,
     Facts007People, Facts007Inspections, Facts007Exports, Facts007Templates
     DEF Parts007
<1>12. Lacks(Built[7], "inspection", InspectionColumns, {}, {}, {})
  BY <1>3, <1>4, <1>5, FirstLacks, RequiredColumns, Facts007, Facts007Catalogue,
     Facts007People, Facts007Inspections, Facts007Exports, Facts007Templates
     DEF Parts007
<1>13. Lacks(Built[7], "inspection_report", InspectionReportColumns, {}, {}, {})
  BY <1>3, <1>4, <1>5, FirstLacks, RequiredColumns, Facts007, Facts007Catalogue,
     Facts007People, Facts007Inspections, Facts007Exports, Facts007Templates
     DEF Parts007
<1>14. Lacks(Built[7], "export_document", ExportDocumentColumns, {}, {}, {})
  BY <1>3, <1>4, <1>5, FirstLacks, RequiredColumns, Facts007, Facts007Catalogue,
     Facts007People, Facts007Inspections, Facts007Exports, Facts007Templates
     DEF Parts007
<1>15. Lacks(Built[7], "notification_template", NotificationTemplateColumns, {}, {}, {})
  BY <1>3, <1>4, <1>5, FirstLacks, RequiredColumns, Facts007, Facts007Catalogue,
     Facts007People, Facts007Inspections, Facts007Exports, Facts007Templates
     DEF Parts007, TemplateKey
<1>16. QED
  BY <1>0, <1>6, <1>7, <1>8, <1>9, <1>10, <1>11, <1>12, <1>13, <1>14, <1>15

\* With all migrations applied, the tables built are what the entities ask for.
LEMMA BuiltFits ==
    ASSUME NEW t \in DOMAIN EntityTable
    PROVE  Fits(Built[17], t, EntityTable[t])
<1>0. ASSUME NEW n \in 1..17, NEW u, \A i \in ChangedBy(u) : i <= n
      PROVE  Same(Built[17], Built[n], u)
  BY <1>0, BuiltStays
<1>1. ASSUME NEW n \in Creators, t \in NewTables(n), \A i \in ChangedBy(t) : i <= n,
             Fits(Up[n].adds, t, EntityTable[t])
      PROVE  Fits(Built[17], t, EntityTable[t])
  <2>1. n \in 1..17 /\ 17 \in n..17
    BY DEF Creators
  <2>2. \A i \in (n + 1)..17 : i \notin ChangedBy(t)
    BY <1>1, <2>1
  <2>3. \A c : /\ Has(Built[17], t, c) <=> Has(Up[n].adds, t, c)
               /\ Requires(Built[17], t, c) <=> Requires(Up[n].adds, t, c)
    BY <1>1, <2>1, <2>2, BuiltFirst
  <2>4. QED
    BY <1>1, <2>3 DEF Fits
<1>2. CASE t \in {"cooperative", "harvest", "production_batch", "qr_code", "notification",
                  "processing_step", "product_document", "lab", "audit_log",
                  "system_setting", "notification_preference", "qr_scan_event"}
  <2>1. \E n \in Creators : /\ t \in NewTables(n) /\ ChangedBy(t) = {n}
                            /\ Fits(Up[n].adds, t, EntityTable[t])
    <3>1. /\ t = "cooperative" => t \in NewTables(1) /\ ChangedBy(t) = {1}
          /\ t \in {"harvest", "production_batch"} =>
                  t \in NewTables(2) /\ ChangedBy(t) = {2}
          /\ t = "qr_code" => t \in NewTables(3) /\ ChangedBy(t) = {3}
          /\ t = "notification" => t \in NewTables(4) /\ ChangedBy(t) = {4}
          /\ t = "processing_step" => t \in NewTables(10) /\ ChangedBy(t) = {10}
          /\ t = "product_document" => t \in NewTables(11) /\ ChangedBy(t) = {11}
          /\ t = "lab" => t \in NewTables(13) /\ ChangedBy(t) = {13}
          /\ t = "audit_log" => t \in NewTables(14) /\ ChangedBy(t) = {14}
          /\ t = "system_setting" => t \in NewTables(15) /\ ChangedBy(t) = {15}
          /\ t = "notification_preference" => t \in NewTables(16) /\ ChangedBy(t) = {16}
          /\ t = "qr_scan_event" => t \in NewTables(17) /\ ChangedBy(t) = {17}
      BY DEF NewTables, ChangedBy
    <3>2. /\ EntityTable["cooperative"] = CooperativeColumns
          /\ EntityTable["harvest"] = HarvestColumns
          /\ EntityTable["production_batch"] = ProductionBatchColumns
          /\ EntityTable["qr_code"] = QrCodeColumns
          /\ EntityTable["notification"] = NotificationColumns
          /\ EntityTable["processing_step"] = ProcessingStepColumns
          /\ EntityTable["product_document"] = ProductDocumentColumns
          /\ EntityTable["lab"] = LabColumns
          /\ EntityTable["audit_log"] = AuditLogColumns
          /\ EntityTable["system_setting"] = SystemSettingColumns
          /\ EntityTable["notification_preference"] = NotificationPreferenceColumns
          /\ EntityTable["qr_scan_event"] = QrScanEventColumns
      BY DEF EntityTable
    <3>3. /\ Up[1] = Up001 /\ Up[2] = Up002 /\ Up[3] = Up003 /\ Up[4] = Up004
          /\ Up[10] = Up010 /\ Up[11] = Up011 /\ Up[13] = Up013 /\ Up[14] = Up014
          /\ Up[15] = Up015 /\ Up[16] = Up016 /\ Up[17] = Up017
      BY DEF Up
    <3>4. QED
      BY <1>2, <3>1, <3>2, <3>3, UnchangedFit DEF Creators
  <2>2. PICK n \in Creators : /\ t \in NewTables(n) /\ ChangedBy(t) = {n}
                              /\ Fits(Up[n].adds, t, EntityTable[t])
    BY <2>1
  <2>3. \A i \in ChangedBy(t) : i <= n
    BY <2>2 DEF Creators
  <2>4. QED
    BY <1>1, <2>2, <2>3
<1>3. CASE t \in {"product", "lab_test_result", "inspection", "inspection_report",
                  "export_document", "notification_template"}
  <2>1. \A i \in ChangedBy(t) : i <= 7
    BY <1>3, ChangesAfter
  <2>2. QED
    BY <1>0, <1>3, <2>1, Fit007, FitsSame
<1>4. CASE t \in {"member", "farm"}
  <2>1. \A i \in ChangedBy(t) : i <= 8
    BY <1>4, ChangesAfter
  <2>2. Built[8] = After(Up008, Built[7])
    BY BuiltSteps DEF Up, Last
  <2>3. t = "member" => Fits(Built[8], t, MemberColumns)
    BY <2>2, AfterFacts, Facts008, Fit007 DEF Fits, Lacks, MemberKey
  <2>4. t = "farm" => Fits(Built[8], t, FarmColumns)
    BY <2>2, AfterFacts, Facts008, Fit007 DEF Fits, Lacks, FarmKey
  <2>5. EntityTable["member"] = MemberColumns /\ EntityTable["farm"] = FarmColumns
    BY DEF EntityTable
  <2>6. QED
    BY <1>0, <1>4, <2>1, <2>3, <2>4, <2>5, FitsSame
<1>5. CASE t = "product_type"
  <2>1. \A i \in ChangedBy(t) : i <= 9
    BY <1>5, ChangesAfter
  <2>2. Built[8] = After(Up008, Built[7]) /\ Built[9] = After(Up009, Built[8])
    BY BuiltSteps DEF Up, Last
  <2>3. Fits(Built[9], t, ProductTypeColumns)
    BY <1>5, <2>2, AfterFacts, Facts008, Facts009, Fit007 DEF Fits, Lacks
  <2>4. EntityTable[t] = ProductTypeColumns
    BY <1>5 DEF EntityTable
  <2>5. QED
    BY <1>0, <2>1, <2>3, <2>4, FitsSame
<1>6. CASE t = "lab_test"
  <2>1. \A i \in ChangedBy(t) : i <= 12
    BY <1>6, ChangesAfter
  <2>2. /\ t \in NewTables(2) /\ 2 \in Creators /\ Up[2] = Up002
        /\ \A i \in (2 + 1)..11 : i \notin ChangedBy(t)
    BY <1>6 DEF NewTables, Creators, Up, ChangedBy
  <2>3. \A c : /\ Has(Built[11], t, c) <=> Has(Up002.adds, t, c)
               /\ Requires(Built[11], t, c) <=> Requires(Up002.adds, t, c)
    BY <2>2, BuiltFirst
  <2>4. Built[12] = After(Up012, Built[11])
    BY BuiltSteps DEF Up, Last
  <2>5. Fits(Built[12], t, LabTestColumns)
    BY <1>6, <2>3, <2>4, AfterFacts, Facts012, FirstLacks DEF Fits, Lacks
  <2>6. EntityTable[t] = LabTestColumns
    BY <1>6 DEF EntityTable
  <2>7. QED
    BY <1>0, <2>1, <2>5, <2>6, FitsSame
<1>7. CASE t = "certification"
  <2>1. \A i \in ChangedBy(t) : i <= 5
    BY <1>7, ChangesAfter
  <2>2. /\ t \in NewTables(3) /\ 3 \in Creators /\ Up[3] = Up003
        /\ \A i \in (3 + 1)..4 : i \notin ChangedBy(t)
    BY <1>7 DEF NewTables, Creators, Up, ChangedBy
  <2>3. \A c : /\ Has(Built[4], t, c) <=> Has(Up003.adds, t, c)
               /\ Requires(Built[4], t, c) <=> Requires(Up003.adds, t, c)
    BY <2>2, BuiltFirst
  <2>4. Built[5] = After(Up005, Built[4])
    BY BuiltSteps DEF Up, Last
  <2>5. Fits(Built[5], t, CertificationColumns)
    BY <1>7, <2>3, <2>4, AfterFacts, Facts005, FirstLacks DEF Fits, Lacks
  <2>6. EntityTable[t] = CertificationColumns
    BY <1>7 DEF EntityTable
  <2>7. QED
    BY <1>0, <2>1, <2>5, <2>6, FitsSame
<1>8. CASE t = "certification_events"
  <2>1. \A i \in ChangedBy(t) : i <= 5
    BY <1>8, ChangesAfter
  <2>2. Absent(Built[4], t)
    <3>1. \A i \in 1..4 : i \notin ChangedBy(t)
      BY <1>8, ChangesAfter
    <3>2. QED
      BY <3>1, NotYetBuilt
  <2>3. Built[5] = After(Up005, Built[4])
    BY BuiltSteps DEF Up, Last
  <2>4. Fits(Up005.adds, t, CertificationEventColumns)
    <3>1. \A c \in CertificationEventColumns : Has(Up005.adds, t, c)
      BY <1>8, TableHas DEF Has, Up005, Statements, CertificationEventColumns
    <3>2. \A c : Requires(Up005.adds, t, c) => c \in CertificationEventColumns
      BY <1>8, TableRequires DEF Requires, Up005, Statements, CertificationEventColumns
    <3>3. QED
      BY <3>1, <3>2 DEF Fits
  <2>5. Fits(Built[5], t, CertificationEventColumns)
    BY <2>2, <2>3, <2>4, AfterFacts DEF Fits, Absent
  <2>6. EntityTable[t] = CertificationEventColumns
    BY <1>8 DEF EntityTable
  <2>7. QED
    BY <1>0, <2>1, <2>5, <2>6, FitsSame
<1>9. QED
  BY <1>2, <1>3, <1>4, <1>5, <1>6, <1>7, <1>8 DEF EntityTable

-----------------------------------------------------------------------------
(* The theorems *)

\* Whatever was run and reverted in whatever order, a command of TypeORM fails
\* only on rows that a constraint forbids or, a run, on the unique key of the
\* inspection reports that a revert of 007 leaves: no statement of the
\* migrations, up or down, is impossible otherwise.
THEOREM FailuresAreExplained == Spec => []FailuresExplained
<1>1. MigrationInv => FailuresExplained
  BY DEF MigrationInv
<1>2. QED
  BY <1>1, MigrationInvariant, PTL

LEMMA SameFacts ==
    ASSUME NEW X, NEW Y, NEW t, \A f \in X : IsFact(f), Same(X, Y, t)
    PROVE  {f \in X : f[1] = t} \subseteq {f \in Y : f[1] = t}
<1> SUFFICES ASSUME NEW f \in X, f[1] = t PROVE f \in Y
  OBVIOUS
<1>1. CASE f = <<f[1], f[2]>>
  BY <1>1 DEF Same, Has
<1>2. CASE f = <<f[1], f[2], "required">>
  BY <1>2 DEF Same, Requires
<1>3. QED
  BY <1>1, <1>2 DEF IsFact

\* A table is as a database has it that was only ever migrated forwards, with
\* the tables a revert of 007 has left changed as the only exception: the other
\* downs take back exactly what the ups did (database/migrations).
THEOREM SchemaStaysBuilt == Spec => []SchemaIsBuilt
<1>1. MigrationInv => SchemaIsBuilt
  <2> SUFFICES ASSUME MigrationInv, NEW t, t \notin residue
               PROVE  {f \in schema : f[1] = t} = {f \in Built[applied] : f[1] = t}
    BY DEF SchemaIsBuilt
  <2>1. /\ applied \in 0..17 /\ \A f \in schema : IsFact(f)
        /\ Same(schema, Built[applied], t)
    BY DEF MigrationInv, Shaped
  <2>2. \A f \in Built[applied] : IsFact(f)
    BY <2>1, BuiltIsFacts
  <2>3. Same(Built[applied], schema, t)
    BY <2>1 DEF Same
  <2>4. QED
    BY <2>1, <2>2, <2>3, SameFacts
<1>2. QED
  BY <1>1, MigrationInvariant, PTL

\* Once the last migration has run, every entity finds its columns and writes
\* every column that is required, whatever was reverted and run again before
\* (the *.entity.ts files against database/migrations).
THEOREM EntitiesAlwaysFit == Spec => []EntitiesFit
<1>1. MigrationInv => EntitiesFit
  <2> SUFFICES ASSUME MigrationInv, applied = 17, NEW t \in DOMAIN EntityTable
               PROVE  /\ Columns(t, EntityTable[t]) \subseteq schema
                      /\ \A f \in schema : f[1] = t /\ Len(f) = 3 => f[2] \in EntityTable[t]
    BY DEF EntitiesFit, Last
  <2>1. Same(schema, Built[17], t) /\ \A f \in schema : IsFact(f)
    BY DEF MigrationInv, Shaped
  <2>2. Fits(schema, t, EntityTable[t])
    BY <2>1, BuiltFits, FitsSame
  <2>3. Columns(t, EntityTable[t]) \subseteq schema
    BY <2>2 DEF Columns, Fits, Has
  <2>4. ASSUME NEW f \in schema, f[1] = t, Len(f) = 3 PROVE f[2] \in EntityTable[t]
    <3>1. f # <<f[1], f[2]>>
      <4>1. Len(<<f[1], f[2]>>) = 2
        OBVIOUS
      <4>2. QED
        BY <2>4, <4>1
    <3>2. f = <<f[1], f[2], "required">>
      BY <2>1, <3>1 DEF IsFact
    <3>3. Requires(schema, t, f[2])
      BY <2>4, <3>2 DEF Requires
    <3>4. QED
      BY <2>2, <3>3 DEF Fits
  <2>5. QED
    BY <2>3, <2>4
<1>2. QED
  BY <1>1, MigrationInvariant, PTL

\* Every revert but that of 007 brings a schema that is as it was built back to
\* its prior state, which the runbook asks of all (docs/runbooks/database-migrations.md).
RevertsRestore ==
    [][(applied' < applied /\ applied # 7 /\ schema = Built[applied]) =>
           schema' = Built[applied']]_migrationVars

LEMMA SameEverywhere ==
    ASSUME NEW X, NEW Y, \A f \in X : IsFact(f), \A f \in Y : IsFact(f),
           \A t : Same(X, Y, t)
    PROVE  X = Y
<1>1. \A t : {f \in X : f[1] = t} \subseteq {f \in Y : f[1] = t}
  BY SameFacts
<1>2. \A t : {f \in Y : f[1] = t} \subseteq {f \in X : f[1] = t}
  <2>1. \A t : Same(Y, X, t)
    BY DEF Same
  <2>2. QED
    BY <2>1, SameFacts
<1>3. QED
  BY <1>1, <1>2

\* Of the seventeen downs, 007's is the only one that does not undo its up
\* (database/migrations): every other revert restores the schema of before.
THEOREM OtherRevertsRestore == Spec => RevertsRestore
<1>1. MigrationInv /\ [Next]_vars =>
        [(applied' < applied /\ applied # 7 /\ schema = Built[applied]) =>
             schema' = Built[applied']]_migrationVars
  <2> SUFFICES ASSUME MigrationInv, [Next]_vars, applied' < applied, applied # 7,
                      schema = Built[applied]
               PROVE  schema' = Built[applied']
    OBVIOUS
  <2>1. [MigrationNext]_migrationVars
    BY DEF Next, In, vars
  <2>2. applied \in 0..17
    BY DEF MigrationInv
  <2>3. ASSUME NEW n \in 1..Last, Run(n) PROVE FALSE
    <3>1. n >= applied /\ (applied' = n \/ applied' = applied)
      BY <2>3, Zenon DEF Run
    <3>2. QED
      BY <2>2, <3>1 DEF Last
  <2>4. Revert
    <3>1. CASE \E r \in Rows : RowsChange(r)
      BY <2>2, <3>1 DEF RowsChange
    <3>2. CASE UNCHANGED migrationVars
      BY <2>2, <3>2 DEF migrationVars
    <3>3. QED
      BY <2>1, <2>2, <2>3, <3>1, <3>2 DEF MigrationNext
  <2>5. /\ applied \in 1..17 /\ applied' = applied - 1
        /\ schema' = After(Down[applied], Built[applied])
    <3>1. applied' # applied
      BY <2>2
    <3>2. applied # 0 /\ applied' = applied - 1 /\ schema' = After(Down[applied], schema)
      BY <2>4, <3>1, Zenon DEF Revert
    <3>3. QED
      BY <2>2, <3>2
  <2>6. \A t : Same(schema', Built[applied - 1], t)
    BY <2>5, DownUndoes
  <2>7. \A f \in schema' : IsFact(f)
    BY <2>5, BuiltIsFacts, AfterIsFacts, AddsAreFacts
  <2>8. \A f \in Built[applied - 1] : IsFact(f)
    BY <2>5, BuiltIsFacts
  <2>9. schema' = Built[applied - 1]
    BY <2>6, <2>7, <2>8, SameEverywhere
  <2>10. QED
    BY <2>5, <2>9
<1>2. QED
  BY <1>1, MigrationInvariant, PTL DEF Spec, RevertsRestore
================================================================================
