\* Three generations that interleave over two buffers.
CONSTANTS
  x = x
  y = y
  z = z
  a1 = a1
  a2 = a2
  k = k
  v = v
  Gen = {x, y, z}
  Address = {a1, a2}
  Index = {k, v}
  WarmReuse = FALSE
  None = None
SPECIFICATION Spec
SYMMETRY HostSymmetry
INVARIANTS TypeOK CrossFresh CacheBelongsToKey
