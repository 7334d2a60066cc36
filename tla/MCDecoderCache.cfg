SPECIFICATION Spec
INVARIANTS PredictsFromItsText PrefixCacheServes
