-------------------------------- MODULE Paging --------------------------------
(***************************************************************************)
(* The pure part of the result cache: what a page is, what a page token    *)
(* says, how the arguments of `cache.page` are read, and which envelope    *)
(* stands for an oversized array.  It translates the functions of          *)
(* result_cache.rs and cache_tools.rs that touch no shared state.          *)
(*                                                                         *)
(* A text is abstracted to the sequence of its segments between the        *)
(* separator ":offset:"; a segment is a word followed by a decimal number. *)
(* An absent JSON field is {} and a present one {v}; a null where a text   *)
(* belongs is present and no text.                                         *)
(***************************************************************************)
EXTENDS Integers, SequencesExt

CONSTANTS
    Item,       \* the JSON values an array may hold
    Bytes,      \* Bytes[v]: the length of the compact JSON rendering of v
    Word,       \* the words texts are made of
    MaxUsize    \* usize::MAX

ASSUME PagingAssumption ==
    /\ Bytes \in [Item -> Nat \ {0}]
    /\ MaxUsize \in Nat
    /\ MaxUsize >= 64

ASSUME WordAssumption == {"mcp-cache-", "", "+"} \subseteq Word

-------------------------------------------------------------------------------
Usize == 0 .. MaxUsize

Lesser(m, n) == IF m <= n THEN m ELSE n

SaturatingAdd(m, n) == Lesser(m + n, MaxUsize)

SaturatingSub(m, n) == IF m <= n THEN 0 ELSE m - n

UnwrapOr(option, default) ==
    IF option = {} THEN default ELSE CHOOSE v \in option : TRUE

(* Finite maps: the HashMap of the cache. *)
EmptyMap == [key \in {} |-> {}]

Put(map, key, value) ==
    [k \in DOMAIN map \cup {key} |-> IF k = key THEN value ELSE map[k]]

Drop(map, key) == [k \in DOMAIN map \ {key} |-> map[k]]

(* MemoryResultCache::page, on the items of a live handle. *)
PageSlice(items, offset, limit) ==
    SubSeq(items, Lesser(offset, Len(items)) + 1,
                  Lesser(SaturatingAdd(offset, limit), Len(items)))

-------------------------------------------------------------------------------
(* Texts, handles and page tokens. *)
Segment == [word : Word, num : Nat]

Text == Seq(Segment) \ {<< >>}

Handle(id) == << [word |-> "mcp-cache-", num |-> id] >>

Bare == ""      \* before the digits of a plain number

PageToken(handle, offset) == Append(handle, [word |-> Bare, num |-> offset])

(* rsplit_once(":offset:") finds a separator, and what follows the last one *)
(* parses as a usize (Rust's parser takes a leading plus sign).             *)
IsPageToken(text) ==
    /\ Len(text) >= 2
    /\ Last(text).word \in {Bare, "+"}
    /\ Last(text).num \in Usize

TokenHandle(token) == Front(token)

TokenOffset(token) == Last(token).num

(* Mutant of TokenIfMore: a token at the very end. *)
TokenIfMoreAtEnd(handle, next, total) ==
    IF next <= total THEN {PageToken(handle, next)} ELSE {}

(* The first page that the items before `next` leave out, if there is one. *)
TokenIfMore(handle, next, total) ==
    IF next < total THEN {PageToken(handle, next)} ELSE {}

-------------------------------------------------------------------------------
(* The arguments of cache.page: PageRequest::from_args. *)
DefaultLimit == 64

(* Any JSON value that is not a string, such as the null that ends the tokens. *)
NotAString == << >>

PageArgs == [page_token : SUBSET (Text \cup {NotAString}),
             handle : SUBSET (Text \cup {NotAString}),
             offset : SUBSET Int, limit : SUBSET Int]

(* Mutant of AsStr: whatever is present is taken for a text. *)
AsIs(field) == field

(* args.get(..).and_then(Value::as_str). *)
AsStr(field) == field \ {NotAString}

(* Every case in which from_args returns InvalidArgument. *)
BadArgs(args) ==
    \/ \E text \in AsStr(args.page_token) : ~ IsPageToken(text)
    \/ AsStr(args.page_token) = {} /\ AsStr(args.handle) = {}
    \/ AsStr(args.page_token) = {} /\ ~ args.offset \subseteq Usize
    \/ ~ args.limit \subseteq Usize

(* The request read from good arguments: a token overrides handle and offset. *)
PageRequest(args) ==
    LET token == UnwrapOr(AsStr(args.page_token), << >>)
        given == AsStr(args.page_token) # {}
    IN  [handle |-> IF given THEN TokenHandle(token) ELSE UnwrapOr(AsStr(args.handle), << >>),
         offset |-> IF given THEN TokenOffset(token) ELSE UnwrapOr(args.offset, 0),
         limit  |-> UnwrapOr(args.limit, DefaultLimit)]

-------------------------------------------------------------------------------
(* Results of tool calls and the envelope of cache_if_large. *)
JsonLen(items) ==
    2 + SaturatingSub(Len(items), 1)
      + FoldSeq(LAMBDA v, sum : Bytes[v] + sum, 0, items)

Oversized(items, threshold_bytes) == JsonLen(items) > threshold_bytes

Error(what) == [kind |-> "error", error |-> what]

(* The results of a wrapped call that cache_if_large never touches: an error, *)
(* a value that is not an array, and an array within the threshold.           *)
SmallResults(arrays, threshold_bytes) ==
    {Error("wrapped tool"), [kind |-> "other"]}
      \cup {[kind |-> "array", items |-> items] :
               items \in {a \in arrays : ~ Oversized(a, threshold_bytes)}}

OversizedArrays(arrays, threshold_bytes) ==
    {a \in arrays : Oversized(a, threshold_bytes)}

Envelope(handle, items, page_size) ==
    LET first_page_len == Lesser(page_size, Len(items))
        omitted_items  == SaturatingSub(Len(items), first_page_len)
    IN  [kind          |-> "envelope",
         handle        |-> handle,
         total_items   |-> Len(items),
         page_size     |-> page_size,
         first_page    |-> SubSeq(items, 1, first_page_len),
         truncated     |-> omitted_items > 0,
         omitted_items |-> omitted_items,
         page_token    |-> IF omitted_items > 0
                             THEN {PageToken(handle, first_page_len)} ELSE {}]

(* Mutant of PageReply: the next token counts from the start of the array. *)
PageReplyFromStart(request, total, items) ==
    [kind            |-> "page",
     handle          |-> request.handle,
     offset          |-> request.offset,
     limit           |-> request.limit,
     total_items     |-> total,
     items           |-> items,
     next_page_token |-> TokenIfMore(request.handle, Len(items), total)]

(* The successful reply of page_cached_result. *)
PageReply(request, total, items) ==
    [kind            |-> "page",
     handle          |-> request.handle,
     offset          |-> request.offset,
     limit           |-> request.limit,
     total_items     |-> total,
     items           |-> items,
     next_page_token |-> TokenIfMore(request.handle,
                             SaturatingAdd(request.offset, Len(items)), total)]
===============================================================================
