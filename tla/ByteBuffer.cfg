SPECIFICATION BufferSpec
CONSTANTS
    Char = {0, 1}
    Zero = 0
    cheap_prepend = 2
    initial_size = 2
    MaxSize = 7
    MaxLen = 3
INVARIANT ContentInv
