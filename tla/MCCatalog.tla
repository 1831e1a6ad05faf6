------------------------------ MODULE MCCatalog ------------------------------
(* Catalog for TLC: three sources, two of one name, and what their history  *)
(* may be to begin with.                                                    *)
EXTENDS Catalog

MCSource == 1 .. 3
MCName == <<2, 1, 1>>
MCRating == <<"safe", "nsfw", "none">>
MCCategories == <<{"anime"}, {"anime", "furry"}, {}>>
MCPolicy == <<"estimated", "observed", "observed">>

Envelope(value, provenance) ==
    [kind |-> "envelope", unit |-> "posts", value |-> value,
     provenance |-> provenance, rest |-> TRUE]

(* A valid column of each provenance, zero, and one of each defect.         *)
Sound == {Envelope(7, "estimated"), Envelope(0, "estimated")}

Columns == Sound \cup
    {Envelope(7, "observed"),
     Envelope(-1, "estimated"), Envelope(7, "unknown"),
     [Envelope(7, "estimated") EXCEPT !.unit = "other"],
     [Envelope(7, "estimated") EXCEPT !.rest = FALSE],
     [Envelope(7, "estimated") EXCEPT !.kind = "malformed"],
     [Envelope(7, "estimated") EXCEPT !.kind = "missing"]}

Rows(s, id, times, columns) ==
    [id : {id}, source : {s}, captured_at : times, metrics : columns]

(* Source 1 has one or two rows, at different times or not, source 2 a      *)
(* sound one and source 3 none.                                             *)
MCLegacy ==
    LET second == Rows(2, 2, {0}, {Envelope(3, "observed")})
        pairs == (Sound \X Columns) \cup (Columns \X Sound)
    IN  UNION {{{p, q, r} : p \in Rows(1, 1, {0}, {pair[1]}),
                            q \in Rows(1, 3, 0 .. 1, {pair[2]}), r \in second} : pair \in pairs}
        \cup {{p, r} : p \in Rows(1, 3, {0}, Columns), r \in second}

MCFilters ==
    {[text |-> MCSource, rating |-> "any", include |-> {}, exclude |-> {}, match |-> "all"],
     [text |-> {1, 3}, rating |-> "any", include |-> {}, exclude |-> {}, match |-> "any"],
     [text |-> MCSource, rating |-> "nsfw", include |-> {"anime", "furry"}, exclude |-> {}, match |-> "all"],
     [text |-> MCSource, rating |-> "any", include |-> {"anime", "furry"}, exclude |-> {"furry"}, match |-> "any"]}

ASSUME \A f \in MCFilters : f \in Filter
==============================================================================
