----------------------------- MODULE MCSpinLock -----------------------------
(* The locks and calls of the memory managers.                             *)
EXTENDS SpinLock

CONSTANTS page_lock, pool_lock, phy_lock

MCLock == {page_lock, pool_lock, phy_lock}

\* kmem_pool_alloc_page without and with a new pool, and kmem_pool_free_page.  A call on
\* blocks alone, <<phy_lock>>, adds nothing to those on two cores.
AllocPage == <<page_lock, phy_lock>>
FreePage  == <<pool_lock, phy_lock>>

MCCalls == {AllocPage, FreePage}
=============================================================================
