------------------------------- MODULE Where --------------------------------
(***************************************************************************)
(* The query options of pkg/store/where: one *Options value built by      *)
(* NewWhere and the package-level shortcuts and changed by its chained    *)
(* methods, plus the package variable registeredTenant.  Go's int is      *)
(* IntBits wide and wraps in two's complement; filters are a map from     *)
(* keys to values; clauses only count.                                    *)
(***************************************************************************)
EXTENDS Integers, Sequences, TLC

CONSTANTS
    IntBits,     \* width of Go's int
    Keys,        \* filter keys
    Vals,        \* filter values
    Ctxs,        \* request contexts, as ValueFunc sees them
    MaxClauses,  \* bound: clauses appended to one Options
    NoTenant,    \* registeredTenant before RegisterTenant: "" key, nil func
    Panicked     \* the request that built the Options panicked

VARIABLES
    whr,      \* the *Options being built, or Panicked
    tenant    \* registeredTenant: NoTenant or [key, value: Ctxs -> Vals]

vars == <<whr, tenant>>

IntMin == -(2^(IntBits - 1))
IntMax == 2^(IntBits - 1) - 1

\* An arithmetic result stored in an int: two's-complement wrap-around.
GoInt(x) == ((x - IntMin) % 2^IntBits) + IntMin

\* the int arguments offered to the API
Ints == {IntMin, -1, 0, 1, 2, 3, IntMax}

defaultLimit == -1

Options == [offset : IntMin..IntMax, limit : IntMin..IntMax,
            filters : UNION {[D -> Vals] : D \in SUBSET Keys},
            clauses : 0..MaxClauses]

TypeOK ==
    /\ whr \in Options \cup {Panicked}
    /\ tenant \in {NoTenant} \cup [key : Keys, value : [Ctxs -> Vals]]

NewOptions == [offset |-> 0, limit |-> defaultLimit,
               filters |-> <<>>,
               clauses |-> 0]

(* whr.F(kvs...): an odd number of arguments leaves the map as it is;     *)
(* otherwise each pair, left to right, sets filters[key] = value.         *)
RECURSIVE SetPairs(_, _)
SetPairs(f, kvs) ==
    IF kvs = <<>> THEN f
    ELSE SetPairs((kvs[1] :> kvs[2]) @@ f, SubSeq(kvs, 3, Len(kvs)))

F(o, kvs) ==
    IF Len(kvs) % 2 # 0 THEN o ELSE [o EXCEPT !.filters = SetPairs(@, kvs)]

O(o, offset) == [o EXCEPT !.offset = IF offset < 0 THEN 0 ELSE offset]

L(o, limit) == [o EXCEPT !.limit = IF limit <= 0 THEN defaultLimit ELSE limit]

P(o, page, pageSize) ==
    LET pg == IF page < 1 THEN 1 ELSE page
        sz == IF pageSize <= 0 THEN defaultLimit ELSE pageSize
    IN  [o EXCEPT !.offset = GoInt((pg - 1) * sz), !.limit = sz]

C(o, n) == [o EXCEPT !.clauses = @ + n]

(* The Option closures of NewWhere(opts...).                              *)
WithPage(o, page, pageSize) ==
    LET pg == IF page = 0 THEN 1 ELSE page
        sz == IF pageSize = 0 THEN defaultLimit ELSE pageSize
    IN  [o EXCEPT !.offset = GoInt((pg - 1) * sz), !.limit = sz]

ApplyOption(o, opt) ==
    CASE opt.kind = "offset"  -> O(o, opt.n)
      [] opt.kind = "limit"   -> L(o, opt.n)
      [] opt.kind = "page"    -> WithPage(o, opt.n, opt.m)
      [] opt.kind = "filter"  -> [o EXCEPT !.filters = opt.f]
      [] opt.kind = "clauses" -> C(o, opt.n)

RECURSIVE ApplyOptions(_, _)
ApplyOptions(o, opts) ==
    IF opts = <<>> THEN o
    ELSE ApplyOptions(ApplyOption(o, Head(opts)), Tail(opts))

\* the Option values offered to NewWhere: one or two of them
OneOption ==
    [kind : {"offset", "limit"}, n : Ints]
    \cup [kind : {"page"}, n : Ints, m : Ints]
    \cup [kind : {"filter"}, f : {<<>>} \cup [Keys -> Vals]]
    \cup [kind : {"clauses"}, n : {1}]
OptionLists == {<<a>> : a \in OneOption} \cup {<<a, b>> : a, b \in OneOption}

\* the variadic kvs offered to F: one key, one pair, or two pairs
KVs == {<<k>> : k \in Keys} \cup {<<k, v>> : k \in Keys, v \in Vals}
       \cup {<<k1, v1, k2, v2>> : k1, k2 \in Keys, v1, v2 \in Vals}

Built == whr # Panicked

Init == whr = NewOptions /\ tenant = NoTenant

(* NewWhere(opts...): the defaults, then each option in order.           *)
NewWhere ==
    /\ \E opts \in OptionLists : whr' = ApplyOptions(NewOptions, opts)
    /\ UNCHANGED tenant

(* The chained methods on the current Options.                           *)
MethodO == Built /\ \E n \in Ints : whr' = O(whr, n) /\ UNCHANGED tenant
MethodL == Built /\ \E n \in Ints : whr' = L(whr, n) /\ UNCHANGED tenant
MethodP ==
    Built /\ \E pg, sz \in Ints : whr' = P(whr, pg, sz) /\ UNCHANGED tenant
MethodC ==
    Built /\ whr.clauses < MaxClauses /\ whr' = C(whr, 1) /\ UNCHANGED tenant
MethodF == Built /\ \E kvs \in KVs : whr' = F(whr, kvs) /\ UNCHANGED tenant

(* whr.T(ctx): only with a registered key and function.                   *)
MethodT ==
    /\ Built
    /\ \E ctx \in Ctxs :
         whr' = IF tenant = NoTenant THEN whr
                ELSE F(whr, <<tenant.key, tenant.value[ctx]>>)
    /\ UNCHANGED tenant

(* The package-level shortcuts start from NewWhere().  T(ctx) calls       *)
(* registeredTenant.ValueFunc unchecked: a nil func panics.               *)
ShortO == \E n \in Ints : whr' = O(NewOptions, n) /\ UNCHANGED tenant
ShortL == \E n \in Ints : whr' = L(NewOptions, n) /\ UNCHANGED tenant
ShortP == \E pg, sz \in Ints : whr' = P(NewOptions, pg, sz) /\ UNCHANGED tenant
ShortC == whr' = C(NewOptions, 1) /\ UNCHANGED tenant
ShortF == \E kvs \in KVs : whr' = F(NewOptions, kvs) /\ UNCHANGED tenant
ShortT ==
    /\ \E ctx \in Ctxs :
         whr' = IF tenant = NoTenant THEN Panicked
                ELSE F(NewOptions, <<tenant.key, tenant.value[ctx]>>)
    /\ UNCHANGED tenant

RegisterTenant ==
    /\ \E k \in Keys, vf \in [Ctxs -> Vals] : tenant' = [key |-> k, value |-> vf]
    /\ UNCHANGED whr

Next ==
    \/ NewWhere \/ MethodO \/ MethodL \/ MethodP \/ MethodC \/ MethodF \/ MethodT
    \/ ShortO \/ ShortL \/ ShortP \/ ShortC \/ ShortF \/ ShortT
    \/ RegisterTenant

Spec == Init /\ [][Next]_vars

-----------------------------------------------------------------------------
(* Properties *)

(* The offset handed to GORM is never negative: O and WithOffset clamp a *)
(* negative offset to 0, and P and WithPage are meant to compute the     *)
(* start of a page.                                                       *)
OffsetNonNegative == Built => whr.offset >= 0
=============================================================================
