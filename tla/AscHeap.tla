------------------------------- MODULE AscHeap -------------------------------
(***************************************************************************)
(* How the host puts Rust values into the memory of an AssemblyScript      *)
(* module and reads them back: the arena `raw_new` hands out pieces of,    *)
(* the object header and padding of AscPtr::alloc_obj, the byte layout of  *)
(* strings, buffers, arrays and of the structs that derive AscType, and    *)
(* the conversions of values, tokens and entities built on them.           *)
(*                                                                         *)
(* Memory is byte for byte. Two layouts exist, chosen by the apiVersion of *)
(* the mapping: up to 0.0.4 objects have no header, from 0.0.5 on they     *)
(* have one of 20 bytes. Gas is in MappingRuntime and left out here.       *)
(***************************************************************************)
EXTENDS Integers, Sequences, FiniteSets, SequencesExt

CONSTANTS
    MIN_ARENA_SIZE,   \* the least the host asks the allocator for
    PageSize,         \* memory grows in pages
    WordBytes,        \* bytes of a U256 (32), scaled down
    MinExp, MaxExp,   \* the exponents a BigDecimal may have
    HostValues,       \* values the host writes
    ModuleSizes,      \* sizes the module allocates for itself
    MaxWrites         \* how many allocations a behaviour makes

VARIABLES
    heap,      \* api, mem, start and free of the arena, the chunks the host got
               \* and the top of the allocator
    written,   \* what the host wrote: value and pointer
    owned      \* addresses the module allocated for itself

heapVars == <<heap, written, owned>>

HEADER_SIZE == 20

\* A byte the module keeps in everything it allocates.
ModuleByte == 170

Old(h) == h.api <= 4

le_bytes(n, width) == [i \in 1..width |-> (n \div (256 ^ (i - 1))) % 256]

from_le_bytes(b) == FoldLeft(LAMBDA n, i : n + b[i] * 256 ^ (i - 1), 0, [i \in 1..Len(b) |-> i])

Zeros(n) == [i \in 1..n |-> 0]

next_power_of_two(n) == CHOOSE p \in {2 ^ k : k \in 0..16} :
                            p >= n /\ \A q \in {2 ^ k : k \in 0..16} : q >= n => p <= q

padding_to_16(n) == (16 - ((HEADER_SIZE + n) % 16)) % 16

Ok(v) == [ok |-> TRUE, v |-> v]
Err == [ok |-> FALSE, v |-> <<>>]
Then(r, F(_)) == IF r.ok THEN F(r.v) ELSE Err

\* All the results, or an error when one of them is.
collect(rs) == IF \A i \in DOMAIN rs : rs[i].ok
               THEN Ok([i \in DOMAIN rs |-> rs[i].v])
               ELSE Err

-----------------------------------------------------------------------------
(* The allocator of the module and the arena of the host.                  *)

\* `__alloc`: up to 0.0.4 a bump allocator of 8 bytes alignment; later one
\* whose blocks have a 4-byte header, payloads of 12 modulo 16 bytes and
\* pointers aligned to 16.
memory_allocate(h, size) ==
    IF Old(h)
    THEN LET p == ((h.top + 7) \div 8) * 8
         IN  [ptr |-> p, top |-> p + size]
    ELSE LET p == h.top + 4
             payload == IF size <= 12 THEN 12 ELSE ((size + 19) \div 16) * 16 - 4
         IN  [ptr |-> p, top |-> p + payload]

memory_write(mem, ptr, bytes) ==
    [a \in DOMAIN mem \cup (ptr..(ptr + Len(bytes) - 1)) |->
        IF a \in ptr..(ptr + Len(bytes) - 1) THEN bytes[a - ptr + 1] ELSE mem[a]]

\* The arena after making room for `size` more bytes.
arena(h, size) ==
    IF size <= h.free THEN h
    ELSE LET arena_size == IF size > MIN_ARENA_SIZE THEN size ELSE MIN_ARENA_SIZE
             offset == IF Old(h) THEN 0 ELSE 12
             over(got) == [h EXCEPT !.start = got.ptr + offset,
                                    !.free = arena_size - offset,
                                    !.top = got.top,
                                    !.chunks = @ \cup {<<got.ptr, got.top - 1>>}]
         IN  over(memory_allocate(h, arena_size))

raw_new(h, bytes) ==
    LET put(a) == [ptr |-> a.start,
                   heap |-> [a EXCEPT !.mem = memory_write(a.mem, a.start, bytes),
                                      !.start = a.start + Len(bytes),
                                      !.free = a.free - Len(bytes)]]
    IN  put(arena(h, Len(bytes)))

MemoryEnd(h) == ((h.top + PageSize - 1) \div PageSize) * PageSize

read(h, offset, len) ==
    IF offset + len > MemoryEnd(h) THEN Err
    ELSE Ok([i \in 1..len |->
              IF offset + i - 1 \in DOMAIN h.mem THEN h.mem[offset + i - 1] ELSE 0])

read_u32(h, offset) == Then(read(h, offset, 4), LAMBDA b : Ok(from_le_bytes(b)))

-----------------------------------------------------------------------------
(* Pointers: header, allocation and reading.                                *)

\* mm_info, two words of the collector, the class and the size of the content
generate_header(content_length, full_length) ==
    le_bytes(16 + full_length, 4) \o Zeros(12) \o le_bytes(content_length, 4)

\* `obj` has its bytes and, where the class overrides content_len, its length.
alloc_obj(h, obj) ==
    LET with_header(bytes) ==
            generate_header(IF obj.len >= 0 THEN obj.len ELSE Len(bytes), Len(bytes)) \o bytes
        padded == obj.bytes \o Zeros(padding_to_16(Len(obj.bytes)))
    IN  IF Old(h) THEN raw_new(h, obj.bytes)
        ELSE [raw_new(h, with_header(padded)) EXCEPT !.ptr = @ + HEADER_SIZE]

read_len(h, ptr) == IF ptr < 4 THEN Err ELSE read_u32(h, ptr - 4)

\* The bytes `read_ptr` decodes: their number is the class's asc_size up to
\* 0.0.4 and the size in the header later.
read_ptr(h, ptr, asc_size) ==
    Then(IF Old(h) THEN asc_size ELSE read_len(h, ptr), LAMBDA len : read(h, ptr, len))

-----------------------------------------------------------------------------
(* Classes with a layout of their own.                                      *)

ArrayBufferBytes(h, content) ==
    LET total == Len(content) + (IF Old(h) THEN 8 ELSE HEADER_SIZE)
        extra == Zeros(next_power_of_two(total) - total)
    IN  IF Old(h)
        THEN [bytes |-> le_bytes(Len(content), 4) \o Zeros(4) \o content \o extra, len |-> -1]
        ELSE [bytes |-> content \o extra, len |-> Len(content)]

ArrayBufferSize(h, ptr) == Then(read_u32(h, ptr), LAMBDA n : Ok(8 + n))

\* ArrayBuffer::get: `length` elements of `width` bytes from `byte_offset` on;
\* fewer when the content ends before.
ArrayBufferGet(h, ptr, byte_offset, length, width) ==
    Then(read_ptr(h, ptr, ArrayBufferSize(h, ptr)), LAMBDA b :
        LET content == IF Old(h) THEN SubSeq(b, 9, Len(b)) ELSE b
            here == Len(content) - byte_offset
            chunks == (here + width - 1) \div width
            n == IF length < chunks THEN length ELSE chunks
        IN  IF here < 0 \/ (n = chunks /\ n > 0 /\ here % width # 0) THEN Err
            ELSE Ok([i \in 1..n |-> SubSeq(content, byte_offset + (i - 1) * width + 1,
                                            byte_offset + i * width)]))

StringBytes(h, units) ==
    LET content == FlattenSeq([i \in DOMAIN units |-> le_bytes(units[i], 2)])
        total == 2 * Len(units) + HEADER_SIZE
    IN  IF Old(h)
        THEN [bytes |-> le_bytes(Len(units), 4) \o content, len |-> -1]
        ELSE [bytes |-> content \o Zeros(next_power_of_two(total) - total),
              len |-> 2 * Len(units)]

StringSize(h, ptr) == Then(read_u32(h, ptr), LAMBDA n : Ok(2 * n + 4))

StringUnits(h, b) ==
    LET start == IF Old(h) THEN 4 ELSE 0
        n == (Len(b) - start) \div 2
    IN  IF Len(b) % 2 # 0 \/ (Old(h) /\ 2 * from_le_bytes(SubSeq(b, 1, 4)) + 4 # Len(b))
        THEN Err
        ELSE Ok([i \in 1..n |-> from_le_bytes(SubSeq(b, start + 2 * i - 1, start + 2 * i))])

-----------------------------------------------------------------------------
(* Structs that derive AscType: fields in order, each aligned to its size.  *)

Aligned(offset, align) == offset + (IF offset % align = 0 THEN 0 ELSE align - (offset % align))

Offsets(widths) ==
    FoldLeft(LAMBDA o, w : Append(o, Aligned(o[Len(o)], w) + w), <<0>>, widths)

FieldStart(widths, i) == Offsets(widths)[i + 1] - widths[i]

Widest(widths) == CHOOSE w \in ToSet(widths) : \A x \in ToSet(widths) : x <= w

StructSize(widths) == Aligned(Last(Offsets(widths)), Widest(widths))

struct_to_asc_bytes(widths, fields) ==
    [bytes |-> [a \in 1..StructSize(widths) |->
                   LET at == {i \in DOMAIN widths :
                                a \in (FieldStart(widths, i) + 1)..(FieldStart(widths, i) + widths[i])}
                   IN  IF at = {} THEN 0
                       ELSE LET i == CHOOSE j \in at : TRUE
                            IN  le_bytes(fields[i], widths[i])[a - FieldStart(widths, i)]],
     len |-> -1]

struct_from_asc_bytes(h, widths, b) ==
    LET size == StructSize(widths)
    IN  IF \/ Old(h) /\ Len(b) < size
           \/ ~Old(h) /\ HEADER_SIZE + Len(b) = padding_to_16(size) + size
           \/ Len(b) < Last(Offsets(widths))
        THEN Err
        ELSE Ok([i \in DOMAIN widths |->
                   from_le_bytes(SubSeq(b, FieldStart(widths, i) + 1,
                                        FieldStart(widths, i) + widths[i]))])

\* kind, _padding, payload. The payload's upper half is the sign of an i32;
\* it is kept apart because 64 bits exceed the model's numbers.
AscEnum == <<4, 4, 4, 4>>
AscTypedMapEntry == <<4, 4>>
AscTypedMap == <<4>>
AscBigDecimal == <<4, 4>>

\* The classes with a variant per version are Rust enums, and the size read up
\* to 0.0.4 is that of the enum: its tag and its larger variant.
TypedArrayFields(h) == <<4, 4, 4>>
ArrayFields(h) == IF Old(h) THEN <<4, 4>> ELSE <<4, 4, 4, 4>>
TypedArraySize == 4 + StructSize(<<4, 4, 4>>)
ArraySize == 4 + StructSize(<<4, 4, 4, 4>>)

ReadStruct(h, ptr, widths, asc_size) ==
    Then(read_ptr(h, ptr, Ok(asc_size)), LAMBDA b : struct_from_asc_bytes(h, widths, b))

-----------------------------------------------------------------------------
(* Byte arrays, arrays of pointers and strings.                             *)

TypedArrayNew(h, content) ==
    LET over(buffer) ==
            alloc_obj(buffer.heap, struct_to_asc_bytes(TypedArrayFields(h),
                <<buffer.ptr, IF Old(h) THEN 0 ELSE buffer.ptr, Len(content)>>))
    IN  over(alloc_obj(h, ArrayBufferBytes(h, content)))

Offset(h, fields) == IF Old(h) THEN fields[2] ELSE fields[2] - fields[1]

TypedArrayGet(h, ptr) ==
    Then(ReadStruct(h, ptr, TypedArrayFields(h), TypedArraySize), LAMBDA f :
        IF ~Old(h) /\ (f[1] = 0 \/ Offset(h, f) < 0) THEN Err
        ELSE Then(ArrayBufferGet(h, f[1], Offset(h, f), f[3], 1),
                  LAMBDA es : Ok([i \in DOMAIN es |-> es[i][1]])))

ArrayNew(h, ptrs) ==
    LET content == FlattenSeq([i \in DOMAIN ptrs |-> le_bytes(ptrs[i], 4)])
        fields(buffer) ==
            IF Old(h) THEN <<buffer.ptr, Len(ptrs)>>
            ELSE <<buffer.ptr, buffer.ptr, read_len(buffer.heap, buffer.ptr).v, Len(ptrs)>>
        over(buffer) ==
            alloc_obj(buffer.heap, struct_to_asc_bytes(ArrayFields(h), fields(buffer)))
    IN  over(alloc_obj(h, ArrayBufferBytes(h, content)))

ArrayGet(h, ptr) ==
    Then(ReadStruct(h, ptr, ArrayFields(h), ArraySize), LAMBDA f :
        IF ~Old(h) /\ (f[1] = 0 \/ f[2] < f[1]) THEN Err
        ELSE Then(ArrayBufferGet(h, f[1], IF Old(h) THEN 0 ELSE f[2] - f[1], f[Len(f)], 4),
                  LAMBDA es : Ok([i \in DOMAIN es |-> from_le_bytes(es[i])])))

StringNew(h, units) == alloc_obj(h, StringBytes(h, units))

\* The null characters are stripped: Postgres does not accept them.
StringGet(h, ptr) ==
    Then(read_ptr(h, ptr, StringSize(h, ptr)), LAMBDA b :
        Then(StringUnits(h, b), LAMBDA units : Ok(SelectSeq(units, LAMBDA u : u # 0))))

-----------------------------------------------------------------------------
(* Numbers.                                                                 *)

\* The least number of bytes that holds `n` in two's complement.
to_signed_bytes_le(n) ==
    LET width == CHOOSE w \in 1..3 : /\ -(256 ^ w) <= 2 * n /\ 2 * n < 256 ^ w
                                     /\ \A v \in 1..(w - 1) : ~(-(256 ^ v) <= 2 * n /\ 2 * n < 256 ^ v)
    IN  le_bytes(n % (256 ^ width), width)

from_signed_bytes_le(b) ==
    LET n == from_le_bytes(b)
    IN  IF b = <<>> THEN 0 ELSE IF b[Len(b)] >= 128 THEN n - 256 ^ Len(b) ELSE n

from_signed_u256(word) == from_signed_bytes_le(le_bytes(word, WordBytes))

from_unsigned_u256(word) == word

to_signed_u256_ZeroFill(n) ==
    LET bytes == to_signed_bytes_le(n)
    IN  from_le_bytes(bytes \o [i \in 1..(WordBytes - Len(bytes)) |-> 0])

\* Negative numbers are extended with their sign; what does not fit panics.
to_signed_u256(n) ==
    LET bytes == to_signed_bytes_le(n)
        fill == IF n < 0 THEN 255 ELSE 0
    IN  from_le_bytes(bytes \o [i \in 1..(WordBytes - Len(bytes)) |-> fill])

to_unsigned_u256(n) == n

\* BigDecimal::normalized without its rounding: no trailing zeros.
normalized(digits, exp) ==
    IF digits = 0 THEN <<0, 0>>
    ELSE LET k == CHOOSE j \in 0..9 : digits % (10 ^ j) = 0 /\ digits % (10 ^ (j + 1)) # 0
         IN  <<digits \div (10 ^ k), exp + k>>

-----------------------------------------------------------------------------
(* Values of the store, tokens and entities.                                *)

StoreValueKind == <<"String", "Int", "BigDecimal", "Bool", "Array", "Null", "Bytes", "BigInt">>

EthereumValueKind == <<"Address", "FixedBytes", "TokenBytes", "TokenInt", "TokenUint", "TokenBool",
                       "TokenString", "FixedArray", "TokenArray", "Tuple">>

KindOf(t) == IF t \in ToSet(StoreValueKind)
             THEN (CHOOSE i \in DOMAIN StoreValueKind : StoreValueKind[i] = t) - 1
             ELSE (CHOOSE i \in DOMAIN EthereumValueKind : EthereumValueKind[i] = t) - 1

Lists == {"Array", "FixedArray", "TokenArray", "Tuple"}
Strings == {"String", "TokenString"}
ByteArrays == {"Bytes", "Address", "FixedBytes", "TokenBytes"}
Numbers == {"BigInt", "TokenInt", "TokenUint"}

BigDecimalNew(h, d) ==
    LET over(digits, exp) ==
            alloc_obj(digits.heap, struct_to_asc_bytes(AscBigDecimal, <<digits.ptr, exp.ptr>>))
        after(exp) == over(TypedArrayNew(exp.heap, to_signed_bytes_le(d[1])), exp)
    IN  after(TypedArrayNew(h, to_signed_bytes_le(d[2])))

BigDecimalGet(h, ptr) ==
    Then(ReadStruct(h, ptr, AscBigDecimal, StructSize(AscBigDecimal)), LAMBDA f :
        Then(TypedArrayGet(h, f[1]), LAMBDA digits :
            Then(TypedArrayGet(h, f[2]), LAMBDA exp :
                LET d == normalized(from_signed_bytes_le(digits), from_signed_bytes_le(exp))
                IN  IF d[2] < MinExp \/ MaxExp < d[2] THEN Err ELSE Ok(d))))

\* An i32 in the payload of an enum is extended with its sign.
Inline(n) == [lo |-> n % (256 ^ 2), hi |-> IF n < 0 THEN 256 ^ 2 - 1 ELSE 0]

RECURSIVE ValueNew(_, _)
\* A list puts its elements into memory first, then the array of pointers.
ListNew(h, vs) ==
    LET add(ptrs, new) == [heap |-> new.heap, ptrs |-> Append(ptrs, new.ptr)]
        array(done) == ArrayNew(done.heap, done.ptrs)
    IN  array(FoldLeft(LAMBDA s, v : add(s.ptrs, ValueNew(s.heap, v)),
                       [heap |-> h, ptrs |-> <<>>], vs))

\* The payload of a value and the heap with what the payload points to.
PayloadNew(h, v) ==
    LET at(new) == [heap |-> new.heap, lo |-> new.ptr, hi |-> 0]
        inline(n) == [heap |-> h, lo |-> Inline(n).lo, hi |-> Inline(n).hi]
        bytes == CASE v.t = "BigInt" -> to_signed_bytes_le(v.v)
                   [] v.t = "TokenInt" -> to_signed_bytes_le(from_signed_u256(v.v))
                   [] v.t = "TokenUint" -> to_signed_bytes_le(from_unsigned_u256(v.v))
                   [] OTHER -> v.v
    IN  CASE v.t \in Strings -> at(StringNew(h, v.v))
          [] v.t \in ByteArrays \cup Numbers -> at(TypedArrayNew(h, bytes))
          [] v.t \in Lists -> at(ListNew(h, v.v))
          [] v.t = "BigDecimal" -> at(BigDecimalNew(h, v.v))
          [] v.t = "Int" -> inline(v.v)
          [] v.t \in {"Bool", "TokenBool"} -> inline(IF v.v THEN 1 ELSE 0)
          [] v.t = "Null" -> inline(0)

ValueNew(h, v) ==
    LET over(payload) ==
            alloc_obj(payload.heap,
                      struct_to_asc_bytes(AscEnum, <<KindOf(v.t), 0, payload.lo, payload.hi>>))
    IN  over(PayloadNew(h, v))

RECURSIVE ValueGet(_, _, _)
ListGet(h, ptr, Kinds) ==
    Then(ArrayGet(h, ptr), LAMBDA ptrs :
        collect([i \in DOMAIN ptrs |-> ValueGet(h, ptrs[i], Kinds)]))

PayloadGet(h, t, lo, hi, Kinds) ==
    CASE t \in Strings -> StringGet(h, lo)
      [] t \in ByteArrays -> TypedArrayGet(h, lo)
      [] t \in Lists -> ListGet(h, lo, Kinds)
      [] t = "BigInt" -> Then(TypedArrayGet(h, lo), LAMBDA b : Ok(from_signed_bytes_le(b)))
      [] t = "TokenInt" ->
            Then(TypedArrayGet(h, lo), LAMBDA b : Ok(to_signed_u256(from_signed_bytes_le(b))))
      [] t = "TokenUint" ->
            Then(TypedArrayGet(h, lo), LAMBDA b : Ok(to_unsigned_u256(from_signed_bytes_le(b))))
      [] t = "BigDecimal" -> BigDecimalGet(h, lo)
      [] t = "Int" -> Ok(IF hi = 0 THEN lo ELSE lo - 256 ^ 2)
      [] t \in {"Bool", "TokenBool"} -> Ok(lo # 0)
      [] t = "Null" -> Ok(<<>>)

ValueGet(h, ptr, Kinds) ==
    Then(ReadStruct(h, ptr, AscEnum, StructSize(AscEnum)), LAMBDA f :
        IF f[1] >= Len(Kinds) THEN Err
        ELSE LET t == Kinds[f[1] + 1]
             IN  Then(PayloadGet(h, t, f[3], f[4], Kinds), LAMBDA v : Ok([t |-> t, v |-> v])))

\* An entity: a typed map, whose entries are pointers to pairs of pointers.
EntityNew(h, fields) ==
    LET add(ptrs, entry) == [heap |-> entry.heap, ptrs |-> Append(ptrs, entry.ptr)]
        pair(key, value) ==
            alloc_obj(value.heap, struct_to_asc_bytes(AscTypedMapEntry, <<key.ptr, value.ptr>>))
        after(key, v) == pair(key, ValueNew(key.heap, v))
        array(done) == ArrayNew(done.heap, done.ptrs)
        over(entries) ==
            alloc_obj(entries.heap, struct_to_asc_bytes(AscTypedMap, <<entries.ptr>>))
    IN  over(array(FoldLeft(
            LAMBDA s, kv : add(s.ptrs, after(StringNew(s.heap, kv[1]), kv[2])),
            [heap |-> h, ptrs |-> <<>>], fields)))

EntryGet(h, ptr) ==
    Then(ReadStruct(h, ptr, AscTypedMapEntry, StructSize(AscTypedMapEntry)), LAMBDA f :
        collect(<<StringGet(h, f[1]), ValueGet(h, f[2], StoreValueKind)>>))

EntityGet(h, ptr) ==
    Then(ReadStruct(h, ptr, AscTypedMap, StructSize(AscTypedMap)), LAMBDA f :
        Then(ArrayGet(h, f[1]), LAMBDA ptrs :
            collect([i \in DOMAIN ptrs |-> EntryGet(h, ptrs[i])])))

asc_new(h, v) == IF v.t = "Entity" THEN EntityNew(h, v.v) ELSE ValueNew(h, v)

asc_get(h, v, ptr) ==
    IF v.t = "Entity"
    THEN Then(EntityGet(h, ptr), LAMBDA fields : Ok([t |-> "Entity", v |-> fields]))
    ELSE ValueGet(h, ptr, IF v.t \in ToSet(StoreValueKind) THEN StoreValueKind
                          ELSE EthereumValueKind)

-----------------------------------------------------------------------------
(* The heap of a mapping: host writes interleave with the module's own.     *)

HeapInit ==
    /\ \E api \in {4, 5} :
          heap = [api |-> api, mem |-> <<>>, start |-> 0, free |-> 0,
                  chunks |-> {}, top |-> 60]
    /\ written = <<>>
    /\ owned = {}

Writes == Len(written) + Cardinality(owned)

HostWrites(v) ==
    /\ Writes < MaxWrites
    /\ \E new \in {asc_new(heap, v)} :
           /\ heap' = new.heap
           /\ written' = Append(written, [value |-> v, ptr |-> new.ptr])
    /\ UNCHANGED owned

\* The module allocates for itself and fills what it got.
ModuleAllocates(size) ==
    /\ Writes < MaxWrites
    /\ LET got == memory_allocate(heap, size)
       IN  /\ heap' = [heap EXCEPT !.top = got.top,
                         !.mem = memory_write(@, got.ptr, [i \in 1..size |-> ModuleByte])]
           /\ owned' = owned \cup {<<got.ptr, size>>}
    /\ UNCHANGED written

HeapNext == (\E v \in HostValues : HostWrites(v)) \/ (\E s \in ModuleSizes : ModuleAllocates(s))

HeapSpec == HeapInit /\ [][HeapNext]_heapVars

-----------------------------------------------------------------------------

RECURSIVE AsRead(_)
\* What reading a value back should give: strings without null characters.
AsRead(v) ==
    LET strip(units) == SelectSeq(units, LAMBDA u : u # 0)
    IN  CASE v.t \in Strings -> [v EXCEPT !.v = strip(v.v)]
          [] v.t \in Lists -> [v EXCEPT !.v = [i \in DOMAIN v.v |-> AsRead(v.v[i])]]
          [] v.t = "Entity" -> [v EXCEPT !.v = [i \in DOMAIN v.v |->
                                                 <<strip(v.v[i][1]), AsRead(v.v[i][2])>>]]
          [] OTHER -> v

RECURSIVE Readable(_)
\* A decimal whose exponent is out of range can be written and not read.
Readable(v) ==
    CASE v.t = "BigDecimal" -> MinExp <= v.v[2] /\ v.v[2] <= MaxExp
      [] v.t \in Lists -> \A i \in DOMAIN v.v : Readable(v.v[i])
      [] v.t = "Entity" -> \A i \in DOMAIN v.v : Readable(v.v[i][2])
      [] OTHER -> TRUE

\* Everything the host ever put into the module's memory can be read back from
\* its pointer and is the value that was written (asc_new, asc_get), whatever
\* was allocated after it by the host or by the module, in both layouts.
ReadBack ==
    \A i \in DOMAIN written :
        LET w == written[i]
            got == asc_get(heap, w.value, w.ptr)
        IN  got.ok = Readable(w.value) /\ (got.ok => got.v = AsRead(w.value))

=============================================================================
