---------------------------- MODULE PagingTheorems ----------------------------
(***************************************************************************)
(* What the functions of Paging compute, for every array, offset and limit *)
(* that a usize can hold.                                                  *)
(***************************************************************************)
EXTENDS Paging, TLAPS

-------------------------------------------------------------------------------
(* MemoryResultCache::page against the definition a reader has in mind: at   *)
(* most `limit` items from `offset` on, in order, as many as there are; no   *)
(* sum of offset and limit overflows (result_cache.rs:155-166).              *)
THEOREM SliceIsWindow ==
    ASSUME NEW items \in Seq(Item), Len(items) \in Usize,
           NEW offset \in Usize, NEW limit \in Usize
    PROVE  /\ PageSlice(items, offset, limit) \in Seq(Item)
           /\ Len(PageSlice(items, offset, limit))
                = Lesser(limit, SaturatingSub(Len(items), offset))
           /\ \A k \in 1 .. Len(PageSlice(items, offset, limit)) :
                PageSlice(items, offset, limit)[k] = items[offset + k]
<1> DEFINE first == Lesser(offset, Len(items)) + 1
           last  == Lesser(SaturatingAdd(offset, limit), Len(items))
           slice == SubSeq(items, first, last)
<1>1. /\ MaxUsize \in Nat /\ Len(items) \in Nat /\ Len(items) <= MaxUsize
      /\ offset \in Nat /\ limit \in Nat
  BY PagingAssumption DEF Usize
<1>2. /\ first \in 1 .. Len(items) + 1
      /\ last \in 0 .. Len(items)
      /\ last + 1 >= first
  BY <1>1 DEF Lesser, SaturatingAdd
<1>3. last + 1 - first = Lesser(limit, SaturatingSub(Len(items), offset))
  <2>1. ASSUME NEW n \in Nat, n = Len(items)
        PROVE  last + 1 - first = Lesser(limit, SaturatingSub(n, offset))
    <3>1. first = (IF offset <= n THEN offset ELSE n) + 1
      BY <2>1 DEF Lesser
    <3>2. SaturatingAdd(offset, limit)
            = IF offset + limit <= MaxUsize THEN offset + limit ELSE MaxUsize
      BY DEF Lesser, SaturatingAdd
    <3>3. last = IF offset + limit <= n THEN offset + limit ELSE n
      <4> HIDE DEF first
      <4> QED
        BY <1>1, <2>1, <3>2 DEF Lesser
    <3>4. Lesser(limit, SaturatingSub(n, offset))
            = IF n <= offset THEN 0 ELSE IF limit <= n - offset THEN limit ELSE n - offset
      BY <1>1 DEF Lesser, SaturatingSub
    <3> HIDE DEF first, last
    <3> QED
      BY <1>1, <3>1, <3>3, <3>4
  <2> QED
    BY <1>1, <2>1
<1>4. /\ slice \in Seq(Item)
      /\ Len(slice) = last + 1 - first
      /\ \A k \in 1 .. Len(slice) : slice[k] = items[first + k - 1]
  <2> HIDE DEF first, last
  <2> QED
    BY <1>2
<1>5. Len(slice) > 0 => first = offset + 1
  BY <1>1, <1>3, <1>4 DEF Lesser, SaturatingSub
<1>6. PageSlice(items, offset, limit) = slice
  BY DEF PageSlice
<1>7. \A k \in 1 .. Len(slice) : slice[k] = items[offset + k]
  <2> SUFFICES ASSUME NEW k \in 1 .. Len(slice) PROVE slice[k] = items[offset + k]
    OBVIOUS
  <2>1. first + k - 1 = offset + k
    BY <1>1, <1>4, <1>5
  <2> QED
    BY <1>4, <2>1
<1> HIDE DEF slice
<1> QED
  BY <1>3, <1>4, <1>6, <1>7

(* A page token says its handle and its offset, whatever text the handle is, *)
(* one with the separator in it included (result_cache.rs:81-86,             *)
(* cache_tools.rs:285-296).                                                  *)
THEOREM TokenRoundTrip ==
    ASSUME NEW handle \in Text, NEW offset \in Usize
    PROVE  /\ PageToken(handle, offset) \in Text
           /\ IsPageToken(PageToken(handle, offset))
           /\ TokenHandle(PageToken(handle, offset)) = handle
           /\ TokenOffset(PageToken(handle, offset)) = offset
<1> DEFINE number == [word |-> Bare, num |-> offset]
           token  == Append(handle, number)
<1>1. handle \in Seq(Segment) /\ Len(handle) \in Nat /\ Len(handle) >= 1
  BY DEF Text
<1>2. number \in Segment
  <2>1. Bare \in Word
    BY WordAssumption, Zenon DEF Bare
  <2>2. offset \in Nat
    BY PagingAssumption DEF Usize
  <2> QED
    BY <2>1, <2>2 DEF Segment
<1>3. /\ token \in Seq(Segment)
      /\ Len(token) = Len(handle) + 1
      /\ token[Len(token)] = number
      /\ SubSeq(token, 1, Len(token) - 1) = handle
  <2> HIDE DEF number
  <2> QED
    BY <1>1, <1>2
<1>4. Last(token) = number /\ Front(token) = handle
  BY <1>3 DEF Last, Front
<1>5. PageToken(handle, offset) = token
  BY DEF PageToken
<1>6. token \in Text /\ Len(token) >= 2
  BY <1>1, <1>3 DEF Text
<1> HIDE DEF token
<1> QED
  BY <1>4, <1>5, <1>6 DEF IsPageToken, TokenHandle, TokenOffset

(* Present texts are read as they are, and nothing else is. *)
LEMMA TextsOnly ==
    /\ AsStr({}) = {} /\ AsStr({NotAString}) = {}
    /\ \A text \in Text : AsStr({text}) = {text}
  BY DEF AsStr, NotAString, Text

(* Following a token asks for what the handle and the offset in it ask for:  *)
(* the two ways to name a page agree, and a null token next to a handle is   *)
(* as good as none (cache_tools.rs:241-259, 285-288).                        *)
THEOREM TokenRequest ==
    ASSUME NEW handle \in Text, NEW offset \in Usize, NEW limit \in SUBSET Usize
    PROVE  LET byToken  == [page_token |-> {PageToken(handle, offset)}, handle |-> {},
                            offset |-> {}, limit |-> limit]
               byHandle == [page_token |-> {}, handle |-> {handle},
                            offset |-> {offset}, limit |-> limit]
               byNull   == [byHandle EXCEPT !.page_token = {NotAString}]
           IN  /\ ~ BadArgs(byToken) /\ ~ BadArgs(byHandle) /\ ~ BadArgs(byNull)
               /\ PageRequest(byToken) = PageRequest(byHandle)
               /\ PageRequest(byNull) = PageRequest(byHandle)
               /\ PageRequest(byToken).handle = handle
               /\ PageRequest(byToken).offset = offset
<1> DEFINE token    == PageToken(handle, offset)
           byToken  == [page_token |-> {token}, handle |-> {},
                        offset |-> {}, limit |-> limit]
           byHandle == [page_token |-> {}, handle |-> {handle},
                        offset |-> {offset}, limit |-> limit]
           byNull   == [byHandle EXCEPT !.page_token = {NotAString}]
<1>1. /\ token \in Text /\ IsPageToken(token)
      /\ TokenHandle(token) = handle /\ TokenOffset(token) = offset
  BY TokenRoundTrip
<1> HIDE DEF token
<1>2. byNull = [page_token |-> {NotAString}, handle |-> {handle},
                offset |-> {offset}, limit |-> limit]
  OBVIOUS
<1>3. /\ AsStr({token}) = {token} /\ AsStr({handle}) = {handle}
      /\ AsStr({}) = {} /\ AsStr({NotAString}) = {}
  BY <1>1, TextsOnly
<1>4. ~ BadArgs(byToken)
  BY <1>1, <1>3 DEF BadArgs
<1>5. ~ BadArgs(byHandle) /\ ~ BadArgs(byNull)
  BY <1>2, <1>3 DEF BadArgs
<1>6. /\ PageRequest(byToken).handle = handle
      /\ PageRequest(byToken).offset = offset
      /\ PageRequest(byToken) = PageRequest(byHandle)
      /\ PageRequest(byNull) = PageRequest(byHandle)
  <2>1. /\ UnwrapOr({token}, << >>) = token /\ UnwrapOr({handle}, << >>) = handle
        /\ UnwrapOr({offset}, 0) = offset
    BY DEF UnwrapOr
  <2> DEFINE request == [handle |-> handle, offset |-> offset,
                         limit |-> UnwrapOr(limit, DefaultLimit)]
  <2>2. PageRequest(byToken) = request
    BY <1>1, <1>3, <2>1 DEF PageRequest
  <2>3. PageRequest(byHandle) = request /\ PageRequest(byNull) = request
    BY <1>2, <1>3, <2>1 DEF PageRequest
  <2> QED
    BY <2>2, <2>3
<1> QED
  BY <1>4, <1>5, <1>6 DEF token

(* Good arguments are read as a text, an offset and a limit of the machine. *)
LEMMA RequestType ==
    ASSUME NEW args \in PageArgs, ~ BadArgs(args)
    PROVE  PageRequest(args) \in [handle : Text, offset : Usize, limit : Usize]
<1> DEFINE tokens  == AsStr(args.page_token)
           handles == AsStr(args.handle)
<1>1. /\ tokens \in SUBSET Text /\ handles \in SUBSET Text
      /\ args.limit \subseteq Usize
      /\ \A text \in tokens : IsPageToken(text)
      /\ tokens = {} => handles # {} /\ args.offset \subseteq Usize
  BY DEF PageArgs, BadArgs, AsStr
<1> HIDE DEF tokens, handles
<1>2. DefaultLimit \in Usize /\ 0 \in Usize
  BY PagingAssumption DEF DefaultLimit, Usize
<1>3. UnwrapOr(args.limit, DefaultLimit) \in Usize
  BY <1>1, <1>2 DEF UnwrapOr
<1>4. CASE tokens # {}
  <2>1. UnwrapOr(tokens, << >>) \in tokens
    BY <1>4 DEF UnwrapOr
  <2>2. ASSUME NEW token \in tokens
        PROVE  TokenHandle(token) \in Text /\ TokenOffset(token) \in Usize
    <3>1. token \in Seq(Segment) /\ Len(token) \in Nat /\ Len(token) >= 2
      BY <1>1, <2>2 DEF Text, IsPageToken
    <3>2. /\ SubSeq(token, 1, Len(token) - 1) \in Seq(Segment)
          /\ Len(SubSeq(token, 1, Len(token) - 1)) = Len(token) - 1
      BY <3>1
    <3>3. Last(token).num \in Usize
      BY <1>1, <2>2 DEF IsPageToken
    <3>4. Front(token) \in Text
      <4>1. Front(token) \in Seq(Segment) /\ Len(Front(token)) >= 1
        BY <3>1, <3>2 DEF Front
      <4>2. Front(token) # << >>
        BY <4>1
      <4> QED
        BY <4>1, <4>2 DEF Text
    <3> QED
      BY <3>3, <3>4 DEF TokenHandle, TokenOffset
  <2> QED
    BY <1>3, <1>4, <2>1, <2>2 DEF PageRequest, tokens, handles
<1>5. CASE tokens = {}
  <2>1. UnwrapOr(handles, << >>) \in Text
    BY <1>1, <1>5 DEF UnwrapOr
  <2>2. UnwrapOr(args.offset, 0) \in Usize
    BY <1>1, <1>2, <1>5 DEF UnwrapOr
  <2> QED
    BY <1>3, <1>5, <2>1, <2>2 DEF PageRequest, tokens, handles
<1> QED
  BY <1>4, <1>5

(* The token of a page reply: there is one exactly when an item is left, and *)
(* then it names the first of them, also where the offset lies past the end  *)
(* and where the sums saturate (cache_tools.rs:212-214).                     *)
THEOREM NextTokenIsExact ==
    ASSUME NEW items \in Seq(Item), Len(items) \in Usize, NEW handle \in Text,
           NEW offset \in Usize, NEW limit \in Usize
    PROVE  LET slice  == PageSlice(items, offset, limit)
               next   == Lesser(offset, Len(items)) + Len(slice)
               tokens == TokenIfMore(handle, SaturatingAdd(offset, Len(slice)), Len(items))
           IN  /\ tokens = {} <=> next = Len(items)
               /\ tokens # {} => tokens = {PageToken(handle, next)}
               /\ next \in 0 .. Len(items)
               /\ limit > 0 /\ offset < Len(items) => next > offset
<1> DEFINE slice == PageSlice(items, offset, limit)
           next  == Lesser(offset, Len(items)) + Len(slice)
<1>1. /\ MaxUsize \in Nat /\ Len(items) \in Nat /\ Len(items) <= MaxUsize
      /\ offset \in Nat /\ offset <= MaxUsize /\ limit \in Nat
  BY PagingAssumption DEF Usize
<1>2. Len(slice) = Lesser(limit, SaturatingSub(Len(items), offset))
  BY SliceIsWindow
<1> HIDE DEF slice
<1>3. CASE offset >= Len(items)
  <2>1. Len(slice) = 0
    BY <1>1, <1>2, <1>3 DEF Lesser, SaturatingSub
  <2>2. next = Len(items)
    BY <1>1, <1>3, <2>1 DEF Lesser
  <2>3. SaturatingAdd(offset, Len(slice)) = offset
    BY <1>1, <2>1 DEF SaturatingAdd, Lesser
  <2> QED
    BY <1>1, <1>3, <2>2, <2>3 DEF TokenIfMore, slice
<1>4. CASE offset < Len(items)
  <2>1. /\ Len(slice) \in Nat /\ offset + Len(slice) <= Len(items)
        /\ limit > 0 => Len(slice) > 0
    BY <1>1, <1>2, <1>4 DEF Lesser, SaturatingSub
  <2>2. next = offset + Len(slice)
    BY <1>1, <1>4 DEF Lesser
  <2>3. SaturatingAdd(offset, Len(slice)) = next
    BY <1>1, <2>1, <2>2 DEF SaturatingAdd, Lesser
  <2> HIDE DEF next
  <2>4. /\ TokenIfMore(handle, next, Len(items)) = {} <=> next = Len(items)
        /\ TokenIfMore(handle, next, Len(items)) # {}
             => TokenIfMore(handle, next, Len(items)) = {PageToken(handle, next)}
    BY <1>1, <2>1, <2>2 DEF TokenIfMore
  <2> QED
    BY <1>1, <1>4, <2>1, <2>2, <2>3, <2>4 DEF slice, next
<1> QED
  BY <1>1, <1>3, <1>4

(* Reading on from a prefix by one page gives a longer prefix; with the whole *)
(* rest in one page it gives the array.  This is how the first page and the   *)
(* pages behind its token make up the cached result.                          *)
THEOREM PageExtendsPrefix ==
    ASSUME NEW items \in Seq(Item), Len(items) \in Usize,
           NEW offset \in 0 .. Len(items), NEW limit \in Usize
    PROVE  LET slice == PageSlice(items, offset, limit)
           IN  SubSeq(items, 1, offset) \o slice
                 = SubSeq(items, 1, offset + Len(slice))
<1> DEFINE slice == PageSlice(items, offset, limit)
<1>1. /\ Len(items) \in Nat /\ offset \in Nat /\ limit \in Nat /\ offset \in Usize
  BY PagingAssumption DEF Usize
<1>2. /\ slice \in Seq(Item)
      /\ Len(slice) = Lesser(limit, SaturatingSub(Len(items), offset))
      /\ \A k \in 1 .. Len(slice) : slice[k] = items[offset + k]
  BY <1>1, SliceIsWindow
<1> HIDE DEF slice
<1>3. Len(slice) \in Nat /\ offset + Len(slice) <= Len(items)
  BY <1>1, <1>2 DEF Lesser, SaturatingSub
<1> DEFINE left == SubSeq(items, 1, offset) \o slice
           right == SubSeq(items, 1, offset + Len(slice))
<1>4. /\ left \in Seq(Item) /\ Len(left) = offset + Len(slice)
      /\ \A k \in 1 .. offset + Len(slice) : left[k] = items[k]
  <2>1. /\ SubSeq(items, 1, offset) \in Seq(Item)
        /\ Len(SubSeq(items, 1, offset)) = offset
        /\ \A k \in 1 .. offset : SubSeq(items, 1, offset)[k] = items[k]
    BY <1>1
  <2> QED
    BY <1>1, <1>2, <1>3, <2>1
<1>5. /\ right \in Seq(Item) /\ Len(right) = offset + Len(slice)
      /\ \A k \in 1 .. offset + Len(slice) : right[k] = items[k]
  BY <1>1, <1>3
<1> HIDE DEF left, right
<1>6. left = right
  BY <1>4, <1>5
<1> QED
  BY <1>6 DEF left, right, slice

(* How many items the first page holds and omits, and how many the rest has. *)
LEMMA FirstPageLen ==
    ASSUME NEW n \in Nat, NEW size \in Nat
    PROVE  /\ Lesser(size, n) \in 0 .. n
           /\ SaturatingSub(n, Lesser(size, n)) \in Nat
           /\ SaturatingSub(n, Lesser(size, n)) = n - Lesser(size, n)
  BY DEF Lesser, SaturatingSub

LEMMA RestLen ==
    ASSUME NEW n \in Nat, NEW first \in 0 .. n, NEW limit \in Nat, n <= limit
    PROVE  first + Lesser(limit, SaturatingSub(n, first)) = n
  BY DEF Lesser, SaturatingSub
===============================================================================
