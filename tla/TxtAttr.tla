------------------------------ MODULE TxtAttr -------------------------------
(***************************************************************************)
(* The two readers of a DNS lock's TXT record set, against the encoding    *)
(* the lock writes (spec 5: each attribute is one string "<key>=<value>",  *)
(* quoted in the record set):                                              *)
(*   - RecordSet.GetAttr (direct package), used by checkAndUpdateLock and  *)
(*     checkAndDeleteLock on the record set read from the provider;        *)
(*   - the parsing loop of UpdateLockStates on the strings LookupTXT       *)
(*     returns, which fills status.attributes and status.timestamp.        *)
(* and the decisions checkAndUpdateLock and checkAndDeleteLock take on the *)
(* record set they read, which parse its timestamp with strconv.ParseInt. *)
(* All of them work on the characters of the strings, so strings are      *)
(* over a small alphabet here; the record set is fixed in the initial     *)
(* state and never changes.                                                *)
(***************************************************************************)
EXTENDS Integers, Sequences, SequencesExt

CONSTANTS
    Q, EQ,          \* the characters '"' and '='
    Digits,         \* characters strconv.ParseInt accepts
    ValueChars,     \* characters of attribute values (may include EQ)
    MaxValueLen,    \* bound on the length of a value
    LockIdKey,      \* dns.ATTR_LOCKID as a character sequence
    TimestampKey,   \* dns.ATTR_TIMESTAMP as a character sequence
    Keys,           \* attribute keys a lock writes (LockIdKey, TimestampKey, ...)
    MaxAttrs,       \* bound on the number of attributes of a record set
    Foreign,        \* strings another party put first in the record set
    Unnamed,        \* synthetic keys "_0", "_1", ... in order
    Panic,          \* the outcome of a slice with low > high
    DigitValue,     \* [Digits -> 0..9]
    OwnIds,         \* spec.lockId of the lock object reading the record set
    OwnTimestamps   \* its spec.timestamp, in seconds

VARIABLES
    attrs,  \* the attributes the lock encodes: a sequence of [key, val]
    rs,     \* the record set values, as GetValue returns them
    me      \* the lock object reading it: [id, ts]

Values == SeqOf(ValueChars, MaxValueLen)

\* Attribute lists with distinct keys
AttrLists == {s \in SeqOf([key: Keys, val: Values], MaxAttrs) :
                 Len(s) > 0 /\ \A i, j \in 1..Len(s) : i # j => s[i].key # s[j].key}

\* dnsutils text records: "<key>=<value>" in quotes (spec 5)
Encode(a) == <<Q>> \o a.key \o <<EQ>> \o a.val \o <<Q>>

\* strconv.ParseInt(value, 10, 64) succeeds
IsNumber(s) == Len(s) > 0 /\ \A i \in 1..Len(s) : s[i] \in Digits

-----------------------------------------------------------------------------
(* RecordSet.GetAttr                                                       *)

\* newAttrKeyPrefix: "\"<name>="
AttrKeyPrefix(name) == <<Q>> \o name \o <<EQ>>

\* Mutation of GetAttr: the closing quote is kept in the slice
GetAttrKeepsQuote(set, name) ==
    LET p == AttrKeyPrefix(name)
        i == SelectInSeq(set, LAMBDA v : IsPrefix(p, v))
    IN  IF i = 0 THEN <<>> ELSE SubSeq(set[i], Len(p) + 1, Len(set[i]))

\* GetAttr: the first value with the prefix, without the prefix and the
\* last character; value[len(prefix):len(value)-1] panics when the value
\* is the prefix itself
GetAttr(set, name) ==
    LET p == AttrKeyPrefix(name)
        i == SelectInSeq(set, LAMBDA v : IsPrefix(p, v))
    IN  CASE i = 0                      -> <<>>
          [] Len(p) > Len(set[i]) - 1   -> Panic
          [] OTHER                      -> SubSeq(set[i], Len(p) + 1, Len(set[i]) - 1)

-----------------------------------------------------------------------------
(* The parsing loop of UpdateLockStates                                    *)

\* strings.Trim(r, "\""): all leading and trailing quotes
RECURSIVE TrimQuotes(_)
TrimQuotes(s) ==
    CASE s = <<>>       -> s
      [] Head(s) = Q    -> TrimQuotes(Tail(s))
      [] Last(s) = Q    -> TrimQuotes(Front(s))
      [] OTHER          -> s

\* strings.Split(r, "=")
RECURSIVE SplitEq(_)
SplitEq(s) ==
    LET i == SelectInSeq(s, LAMBDA c : c = EQ)
    IN  IF i = 0 THEN <<s>>
        ELSE <<SubSeq(s, 1, i - 1)>> \o SplitEq(SubSeq(s, i + 1, Len(s)))

\* attrs[k] = v on a map held as a function
Put(m, k, v) == [x \in DOMAIN m \cup {k} |-> IF x = k THEN v ELSE m[x]]

\* The loop over the looked-up strings: a string that is not exactly one
\* key and one value is kept whole under the next synthetic key "_<n>";
\* the timestamp attribute is parsed (and skipped when not a number);
\* every other key is stored, a later one overwriting an earlier one.
RECURSIVE ParseFrom(_, _, _, _)
ParseFrom(recs, unnamed, m, ts) ==
    IF recs = <<>> THEN [attrs |-> m, ts |-> ts]
    ELSE LET r == TrimQuotes(Head(recs))
             f == SplitEq(r)
             fields == IF Len(f) # 2 THEN <<Unnamed[unnamed + 1], r>> ELSE f
             n == IF Len(f) # 2 THEN unnamed + 1 ELSE unnamed
         IN  CASE fields[1] = TimestampKey /\ IsNumber(fields[2]) ->
                    ParseFrom(Tail(recs), n, m, fields[2])
               [] fields[1] = TimestampKey ->
                    ParseFrom(Tail(recs), n, m, ts)
               [] OTHER ->
                    ParseFrom(Tail(recs), n, Put(m, fields[1], fields[2]), ts)

ParseLookup(recs) == ParseFrom(recs, 0, <<>>, <<>>)

-----------------------------------------------------------------------------
(* The decisions of checkAndUpdateLock and checkAndDeleteLock              *)

\* The decimal value of a digit string
RECURSIVE Decimal(_)
Decimal(s) == IF s = <<>> THEN 0 ELSE 10 * Decimal(Front(s)) + DigitValue[Last(s)]

\* i, err := strconv.ParseInt(value, 10, 64): the number, or 0 and an error
ParseTimestamp(s) == [ok |-> IsNumber(s), n |-> IF IsNumber(s) THEN Decimal(s) ELSE 0]

\* checkAndUpdateLock on the record set it read: a foreign lock id or an
\* unparsable timestamp marks the lock stale, a later timestamp makes it
\* back off; otherwise the record set is compared and written.
UpdateLockDecision(set, own) ==
    LET ts == ParseTimestamp(GetAttr(set, TimestampKey)) IN
    CASE set = <<>>                         -> "write"
      [] own.id # GetAttr(set, LockIdKey)   -> "stale"
      [] ~ts.ok                             -> "stale"
      [] own.ts < ts.n                      -> "skip"
      [] OTHER                              -> "write"

\* Mutation of DeleteLockDecision: "not after ours" read as "before ours"
DeleteLockDecisionBefore(set, own) ==
    LET ts == ParseTimestamp(GetAttr(set, TimestampKey)) IN
    set # <<>> /\ own.id = GetAttr(set, LockIdKey) /\ ts.n < own.ts

\* checkAndDeleteLock on the record set it read: delete it if the lock id
\* is ours and its timestamp, the parse error ignored, is not after ours.
DeleteLockDecision(set, own) ==
    LET ts == ParseTimestamp(GetAttr(set, TimestampKey)) IN
    set # <<>> /\ own.id = GetAttr(set, LockIdKey) /\ ~(ts.n > own.ts)

-----------------------------------------------------------------------------
Init ==
    /\ attrs \in AttrLists
    /\ \E f \in Foreign : rs = f \o [i \in 1..Len(attrs) |-> Encode(attrs[i])]
    /\ me \in [id: OwnIds, ts: OwnTimestamps]

Next == UNCHANGED <<attrs, rs, me>>

Spec == Init /\ [][Next]_<<attrs, rs, me>>

-----------------------------------------------------------------------------
\* The value the encoding gives key k in the lock's attributes, or <<>>
Encoded(k) == LET i == SelectInSeq(attrs, LAMBDA a : a.key = k)
              IN  IF i = 0 THEN <<>> ELSE attrs[i].val

\* checkAndUpdateLock and checkAndDeleteLock read back what the lock wrote:
\* GetAttr returns the encoded value of every key, values containing '='
\* included.
GetAttrMatchesEncoding ==
    \A k \in Keys : GetAttr(rs, k) = Encoded(k)

\* GetAttr never panics on a record set a provider returns for the lock
\* name, whatever strings another party put there.
GetAttrTotal == \A k \in Keys : GetAttr(rs, k) # Panic

\* UpdateLockStates reports in status.attributes exactly the attributes
\* the lock encoded (spec 4.5: parse '='-delimited attributes), and in
\* status.timestamp its timestamp.
LookupParsesEncoding ==
    LET p == ParseLookup([i \in 1..Len(rs) |-> TrimQuotes(rs[i])])
    IN  /\ \A k \in Keys \ {TimestampKey} :
              Encoded(k) # <<>> => k \in DOMAIN p.attrs /\ p.attrs[k] = Encoded(k)
        /\ IsNumber(Encoded(TimestampKey)) => p.ts = Encoded(TimestampKey)

\* checkAndUpdateLock and checkAndDeleteLock agree on every record set a
\* lock writes (one with a numeric timestamp): the delete path removes it
\* exactly when the update path, reading it, would take it as its own and
\* not newer (spec 4.5 steps 2-3 and the deletion rule).
LockPathsAgree ==
    IsNumber(Encoded(TimestampKey)) =>
        (DeleteLockDecision(rs, me) <=> UpdateLockDecision(rs, me) = "write")

\* checkAndDeleteLock deletes only a record set that checkAndUpdateLock
\* accepts as its own: a record set whose timestamp does not parse (which
\* the update path marks stale and leaves alone) is not deleted.
DeleteOnlyAcceptedRecord ==
    DeleteLockDecision(rs, me) => UpdateLockDecision(rs, me) = "write"

=============================================================================
