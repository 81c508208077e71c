------------------------------ MODULE Catalog ------------------------------
(***************************************************************************)
(* The rows that requests edit in part: a knowledge base with its chunking *)
(* configuration, or a tool with the fields its type needs.  An update     *)
(* reads the row, checks what would result, and writes the fields it was   *)
(* given, with an await between each two.                                  *)
(*                                                                         *)
(* A row is a function from its fields, a body a function from the fields  *)
(* that it has.  An MCP tool is treated as a BUILT_IN one, with a field of *)
(* its own.  A body without any of these fields stands for one that        *)
(* changes others, such as the name.                                       *)
(***************************************************************************)
EXTENDS Naturals

CONSTANTS
    Sizes, Overlaps,                \* what a request may ask for
    DefaultSize, DefaultOverlap,    \* of the column definitions
    Updaters,                       \* update requests
    Null

Types     == {"HTTP", "BUILT_IN"}
BaseField == {"size", "overlap"}
ToolField == {"type", "method", "url", "builtIn", "parameters"}

\* What a field may be sent as: only a URL may be taken away.
Choices(f) ==
    CASE f = "size"       -> Sizes
      [] f = "overlap"    -> Overlaps
      [] f = "type"       -> Types
      [] f = "method"     -> {"GET"}
      [] f = "url"        -> {"url", Null}
      [] f = "builtIn"    -> {"search"}
      [] f = "parameters" -> {"schema"}

\* What a row may hold, valid or not.
Values == UNION {Choices(f) : f \in ToolField}
Rows   == [BaseField -> Nat] \cup [ToolField -> Values]

ASSUME CatalogAssumption ==
    /\ Sizes \subseteq Nat /\ Overlaps \subseteq Nat
    /\ DefaultSize \in Sizes /\ DefaultOverlap \in Overlaps
    /\ DefaultOverlap < DefaultSize
    /\ Null \notin Rows /\ Null # "schema"

\* The bodies with some of fs.
BodiesOf(fs) ==
    UNION {{b \in [gs -> UNION {Choices(g) : g \in gs}] : \A g \in gs : b[g] \in Choices(g)} :
            gs \in SUBSET fs}

\* The fields of UpdateToolDto.
Declared == {"type", "method", "url", "parameters"}

CreateBase == BodiesOf(BaseField)
CreateTool == {b \in BodiesOf(ToolField) : "parameters" \in DOMAIN b}
UpdateBase == BodiesOf(BaseField)
UpdateTool == BodiesOf(Declared)

VARIABLES
    row,        \* the row, or Null
    gone,       \* it was deleted
    body, stage,   \* what each updater was sent, and where it stands
    overtaken,  \* history: updaters whose check another write has overtaken
    doubt       \* history: the last write put fields together that nobody checked

catalogVars == <<row, gone, body, stage, overtaken, doubt>>

Exists == row # Null
Empty  == [f \in {} |-> Null]
IsBase == DOMAIN row = BaseField

CatalogTypeOK ==
    /\ gone \in BOOLEAN /\ doubt \in BOOLEAN /\ (gone => ~Exists)
    /\ row \in Rows \cup {Null}
    /\ Exists => \A f \in DOMAIN row :
          row[f] \in Choices(f) \/ (f \in {"method", "url", "builtIn"} /\ row[f] = Null)
    /\ stage \in [Updaters -> {"idle", "read", "write"}]
    /\ body \in [Updaters -> UpdateBase \cup UpdateTool]
    /\ overtaken \subseteq Updaters

CatalogInit ==
    /\ row = Null /\ gone = FALSE /\ doubt = FALSE
    /\ body = [u \in Updaters |-> Empty] /\ stage = [u \in Updaters |-> "idle"]
    /\ overtaken = {}

\* dto.f ?? existing.f, and what Prisma writes.
Merged(b, r) == [f \in DOMAIN r |-> IF f \in DOMAIN b THEN b[f] ELSE r[f]]

\* {...existing, ...dto}, where dto is an instance of its class: the fields that the
\* class declares and the request leaves out are there, and undefined.
Spread(b, r) ==
    [f \in DOMAIN r |-> IF f \in DOMAIN b THEN b[f]
                        ELSE IF f \in Declared THEN Null ELSE r[f]]

Ordered(r) == r["overlap"] < r["size"]

\* validateShape
Shaped(type, r) ==
    /\ type = "HTTP" => r["method"] # Null /\ r["url"] # Null
    /\ type = "BUILT_IN" => r["builtIn"] # Null
    /\ r["parameters"] = "schema"

Valid(r) == IF DOMAIN r = BaseField THEN Ordered(r) ELSE Shaped(r["type"], r)

BaseDefaults ==
    [f \in BaseField |-> IF f = "size" THEN DefaultSize ELSE DefaultOverlap]
ToolDefaults == [f \in ToolField |-> IF f = "type" THEN "HTTP" ELSE Null]

-----------------------------------------------------------------------------
\* The two fields are compared only when both are given.
CreateKnowledgeBase(b) ==
    /\ ~Exists /\ ~gone
    /\ DOMAIN b = BaseField => Ordered(b)
    /\ row' = Merged(b, BaseDefaults)
    /\ doubt' = (DOMAIN b \notin {{}, BaseField})
    /\ UNCHANGED <<gone, body, stage, overtaken>>

CreateHttpTool(b) ==
    /\ ~Exists /\ ~gone
    /\ LET r == Merged(b, ToolDefaults) IN Shaped(r["type"], r) /\ row' = r
    /\ UNCHANGED <<gone, body, stage, overtaken, doubt>>

Receive(u, b) ==
    /\ stage[u] = "idle" /\ Exists
    /\ b \in IF IsBase THEN UpdateBase ELSE UpdateTool
    /\ body' = [body EXCEPT ![u] = b] /\ stage' = [stage EXCEPT ![u] = "read"]
    /\ UNCHANGED <<row, gone, overtaken, doubt>>

Respond(u) == stage' = [stage EXCEPT ![u] = "idle"] /\ body' = [body EXCEPT ![u] = Empty]

\* What update makes of the row it has read.  Mutant: the check of create, which
\* compares given fields only.
AcceptsGiven(b, r) ==
    IF IsBase THEN DOMAIN b = BaseField => Ordered(b)
              ELSE Shaped(Merged(b, r)["type"], Spread(b, r))

Accepts(b, r) ==
    IF IsBase THEN Ordered(Merged(b, r))
              ELSE Shaped(Merged(b, r)["type"], Spread(b, r))

Check(u) ==
    /\ stage[u] = "read" /\ Exists /\ Accepts(body[u], row)
    /\ stage' = [stage EXCEPT ![u] = "write"] /\ overtaken' = overtaken \ {u}
    /\ UNCHANGED <<row, gone, body, doubt>>

\* 400
Refuse(u) ==
    /\ stage[u] = "read" /\ Exists /\ ~Accepts(body[u], row)
    /\ Respond(u)
    /\ UNCHANGED <<row, gone, overtaken, doubt>>

\* 404, or the error of an update whose row is gone.
Miss(u) ==
    /\ stage[u] # "idle" /\ ~Exists
    /\ Respond(u)
    /\ UNCHANGED <<row, gone, overtaken, doubt>>

Write(u) ==
    /\ stage[u] = "write" /\ Exists
    /\ row' = Merged(body[u], row)
    /\ overtaken' = overtaken \cup {v \in Updaters \ {u} : stage[v] = "write"}
    /\ doubt' = (u \in overtaken)
    /\ Respond(u)
    /\ UNCHANGED gone

Delete ==
    /\ Exists
    /\ row' = Null /\ gone' = TRUE
    /\ UNCHANGED <<body, stage, overtaken, doubt>>

CatalogNext ==
    \/ \E b \in CreateBase : CreateKnowledgeBase(b)
    \/ \E b \in CreateTool : CreateHttpTool(b)
    \/ \E u \in Updaters :
        \/ \E b \in UpdateBase \cup UpdateTool : Receive(u, b)
        \/ Check(u) \/ Refuse(u) \/ Miss(u) \/ Write(u)
    \/ Delete

CatalogSpec == CatalogInit /\ [][CatalogNext]_catalogVars

-----------------------------------------------------------------------------
\* A base's overlap stays below its chunk size, and a tool has what its type needs,
\* except after a write that put together fields nobody had checked together: an
\* update that another one overtook, or a creation with one field of two.  The next
\* update that is not overtaken mends it.
RowValid == Exists /\ ~doubt => Valid(row)

\* What the @IsOptional fields of the update bodies say: a body may leave out any
\* field, and is refused only when the row that would result is not valid.
PartialUpdatesAccepted == [][
    \A u \in Updaters :
        Refuse(u) => ~Valid(Merged(body[u], row))
    ]_catalogVars
=============================================================================
